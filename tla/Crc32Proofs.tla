----------------------------- MODULE Crc32Proofs -----------------------------
(***************************************************************************)
(* Proof that CRC32's register is the remainder of the buffer's polynomial *)
(* by the generator, for every buffer.                                     *)
(***************************************************************************)
EXTENDS Crc32, SequenceTheorems, WellFoundedInduction, TLAPS

\* Polynomials, with exponents of either sign.
Poly == SUBSET Int

-----------------------------------------------------------------------------
(* Functions defined from each number to the next.                          *)

\* What holds of 0, and of the next number below n with each, holds up to n.
LEMMA UpTo ==
  ASSUME NEW n \in Nat, NEW T, 0 \in T,
         \A i \in 0..n : i \in T /\ i < n => i + 1 \in T
  PROVE  \A i \in 0..n : i \in T
<1> SUFFICES ASSUME {i \in 0..n : i \notin T} # {} PROVE FALSE
  OBVIOUS
<1> DEFINE Bad == {i \in 0..n : i \notin T}
<1>1. Bad \subseteq Nat /\ Bad # {}
  OBVIOUS
<1> HIDE DEF Bad
<1>2. PICK x \in Bad : \A y \in Bad : ~(<<y, x>> \in OpToRel(<, Nat))
  BY <1>1, NatLessThanWellFounded, WFMin
<1>3. \A y \in Bad : ~(y < x)
  BY <1>1, <1>2 DEF OpToRel
<1>4. x # 0 /\ x - 1 \in 0..n /\ x - 1 \notin Bad
  BY <1>1, <1>3 DEF Bad
<1> QED
  BY <1>3, <1>4 DEF Bad

\* A sequence of polynomials can be defined by its first and a step.
LEMMA Iterates ==
  ASSUME NEW n \in Nat, NEW start \in Poly, NEW step \in [1..n -> [Poly -> Poly]]
  PROVE  \E f \in [0..n -> Poly] :
           f[0] = start /\ \A i \in 1..n : f[i] = step[i][f[i - 1]]
<1> DEFINE Good(f, m) == f[0] = start /\ \A i \in 1..m : f[i] = step[i][f[i - 1]]
           T == {m \in 0..n : \E f \in [0..m -> Poly] : Good(f, m)}
<1>1. 0 \in T
  <2> DEFINE f == [i \in 0..0 |-> start]
  <2>1. f \in [0..0 -> Poly] /\ Good(f, 0) /\ 0 \in 0..n
    OBVIOUS
  <2> HIDE DEF f
  <2> QED
    BY <2>1, Zenon
<1>2. ASSUME NEW m \in 0..n, m \in T, m < n PROVE m + 1 \in T
  <2>1. PICK f \in [0..m -> Poly] : Good(f, m)
    BY <1>2
  <2> DEFINE next == step[m + 1][f[m]]
             g == [i \in 0..m + 1 |-> IF i <= m THEN f[i] ELSE next]
  <2>2. m + 1 \in 1..n /\ m \in 0..m /\ f[m] \in Poly
    BY <1>2, <2>1
  <2>3. next \in Poly
    BY <2>2
  <2> HIDE DEF next
  <2>4. g \in [0..m + 1 -> Poly]
    BY <2>3
  <2>5. g[0] = start
    BY <2>1
  <2>6. ASSUME NEW i \in 1..m + 1 PROVE g[i] = step[i][g[i - 1]]
    <3>1. CASE i <= m
      <4>1. i \in 1..m /\ g[i] = f[i] /\ g[i - 1] = f[i - 1]
        BY <3>1
      <4> QED
        BY <2>1, <4>1, Zenon
    <3>2. CASE i = m + 1
      <4>1. g[i] = next /\ i - 1 = m /\ g[m] = f[m]
        BY <3>2
      <4> QED
        BY <3>2, <4>1 DEF next
    <3> QED
      BY <3>1, <3>2
  <2> HIDE DEF g
  <2>7. Good(g, m + 1) /\ m + 1 \in 0..n
    BY <2>2, <2>5, <2>6
  <2> QED
    BY <2>4, <2>7, Zenon
<1> HIDE DEF T
<1>3. \A m \in 0..n : m \in T
  BY <1>1, <1>2, UpTo
<1>4. n \in T
  BY <1>3
<1> QED
  BY <1>4 DEF T

-----------------------------------------------------------------------------
(* Long division.                                                           *)

\* f is what remains of p after each of n steps.
Divides(f, p, degree, n) ==
  f[0] = p /\ \A i \in 1..n : f[i] = Cancel(f[i - 1], degree + 1 - i)

\* A step gives a polynomial, with these exponents.
LEMMA CancelIs ==
  ASSUME NEW p \in Poly, NEW d \in Int
  PROVE  /\ Cancel(p, d) \in Poly
         /\ \A x \in Int :
              x \in Cancel(p, d) <=>
                \/ x \in p /\ ~(d \in p /\ (x - d) + 32 \in Generator)
                \/ x \notin p /\ d \in p /\ (x - d) + 32 \in Generator
<1> DEFINE M == {d - 32 + e : e \in Generator}
<1>1. Generator \subseteq Int
  BY DEF Generator
<1>2. M \subseteq Int /\ \A x \in Int : x \in M <=> (x - d) + 32 \in Generator
  <2>1. ASSUME NEW x \in Int, (x - d) + 32 \in Generator PROVE x \in M
    <3>1. x = d - 32 + ((x - d) + 32)
      OBVIOUS
    <3> QED
      BY <2>1, <3>1, Zenon
  <2>2. ASSUME NEW x \in Int, x \in M PROVE (x - d) + 32 \in Generator
    <3>1. PICK e \in Generator : x = d - 32 + e
      BY <2>2
    <3>2. (x - d) + 32 = e
      BY <1>1, <3>1
    <3> QED
      BY <3>2
  <2>3. M \subseteq Int
    BY <1>1
  <2> QED
    BY <2>1, <2>2, <2>3
<1>3. Cancel(p, d) = IF d \in p THEN (p \ M) \cup (M \ p) ELSE p
  BY DEF Cancel, SymDiff
<1> HIDE DEF M
<1> QED
  BY <1>2, <1>3 DEF Poly

\* Remainder is the last value of such a function.
LEMMA RemainderIsLast ==
  ASSUME NEW p \in Poly, NEW degree \in Int, NEW n \in Nat, n = degree - 31
  PROVE  \E f \in [0..n -> Poly] : Divides(f, p, degree, n) /\ Remainder(p, degree) = f[n]
<1> DEFINE Is(f) == f = [i \in 0..n |-> IF i = 0 THEN p ELSE Cancel(f[i - 1], degree + 1 - i)]
           f == CHOOSE f : Is(f)
           step == [i \in 1..n |-> [q \in Poly |-> Cancel(q, degree + 1 - i)]]
<1>1. Remainder(p, degree) = f[n]
  BY DEF Remainder
<1>2. step \in [1..n -> [Poly -> Poly]]
  BY CancelIs
<1>3. PICK g \in [0..n -> Poly] : g[0] = p /\ \A i \in 1..n : g[i] = step[i][g[i - 1]]
  <2> HIDE DEF step
  <2>1. \A st \in [1..n -> [Poly -> Poly]] : \E g \in [0..n -> Poly] :
          g[0] = p /\ \A i \in 1..n : g[i] = st[i][g[i - 1]]
    BY Iterates
  <2> QED
    BY <1>2, <2>1
<1>4. \A i \in 1..n : g[i] = Cancel(g[i - 1], degree + 1 - i)
  <2> SUFFICES ASSUME NEW i \in 1..n PROVE g[i] = Cancel(g[i - 1], degree + 1 - i)
    OBVIOUS
  <2>1. g[i - 1] \in Poly
    BY <1>3
  <2> QED
    BY <1>3, <2>1
<1>5. Is(g)
  BY <1>3, <1>4
<1>6. Is(f)
  <2> HIDE DEF Is
  <2> QED
    BY <1>5
<1> HIDE DEF f
<1>7. f[0] = p /\ \A i \in 1..n : f[i] = Cancel(f[i - 1], degree + 1 - i)
  BY <1>6
<1>8. f = [i \in 0..n |-> f[i]]
  BY <1>6
<1> HIDE DEF Is
<1>9. \A i \in 0..n : f[i] \in Poly
  <2> DEFINE T == {i \in 0..n : f[i] \in Poly}
  <2>1. 0 \in T
    BY <1>7
  <2>2. ASSUME NEW i \in 0..n, i \in T, i < n PROVE i + 1 \in T
    <3>1. i + 1 \in 1..n /\ (i + 1) - 1 = i /\ degree + 1 - (i + 1) \in Int
      BY <2>2
    <3>2. f[i + 1] = Cancel(f[i], degree + 1 - (i + 1))
      BY <1>7, <3>1
    <3> QED
      BY <2>2, <3>1, <3>2, CancelIs
  <2> HIDE DEF T
  <2>3. \A i \in 0..n : i \in T
    BY <2>1, <2>2, UpTo
  <2> QED
    BY <2>3 DEF T
<1> QED
  BY <1>1, <1>7, <1>8, <1>9 DEF Divides

\* From each value to the next.
LEMMA DividesStep ==
  ASSUME NEW f, NEW p, NEW degree \in Int, NEW n \in Nat, Divides(f, p, degree, n),
         NEW i \in 0..n - 1
  PROVE  f[i + 1] = Cancel(f[i], degree - i)
<1>1. i + 1 \in 1..n /\ (i + 1) - 1 = i /\ degree + 1 - (i + 1) = degree - i
  OBVIOUS
<1> QED
  BY <1>1 DEF Divides

\* Exponents above the polynomial's change nothing.
LEMMA RemainderHigher ==
  ASSUME NEW p \in Poly, NEW n \in Nat,
         \A d \in p : d < n + 32
  PROVE  Remainder(p, n + 40) = Remainder(p, n + 32)
<1>1. PICK f \in [0..n + 9 -> Poly] :
        Divides(f, p, n + 40, n + 9) /\ Remainder(p, n + 40) = f[n + 9]
  <2>1. n + 40 \in Int /\ n + 9 \in Nat /\ n + 9 = (n + 40) - 31
    OBVIOUS
  <2> QED
    BY <2>1, RemainderIsLast, ZenonT(60)
<1>2. PICK g \in [0..n + 1 -> Poly] :
        Divides(g, p, n + 32, n + 1) /\ Remainder(p, n + 32) = g[n + 1]
  <2>1. n + 32 \in Int /\ n + 1 \in Nat /\ n + 1 = (n + 32) - 31
    OBVIOUS
  <2> QED
    BY <2>1, RemainderIsLast
<1>3. \A i \in 0..n + 8 : f[i + 1] = Cancel(f[i], (n + 40) - i)
  <2>1. n + 40 \in Int /\ n + 9 \in Nat /\ (n + 9) - 1 = n + 8
    OBVIOUS
  <2> QED
    BY <1>1, <2>1, DividesStep
<1>4. \A i \in 0..n : g[i + 1] = Cancel(g[i], (n + 32) - i)
  <2>1. n + 32 \in Int /\ n + 1 \in Nat /\ (n + 1) - 1 = n
    OBVIOUS
  <2> QED
    BY <1>2, <2>1, DividesStep
<1>5. \A i \in 0..8 : f[i] = p
  <2> DEFINE T == {i \in 0..8 : f[i] = p}
  <2>1. 0 \in T
    BY <1>1 DEF Divides
  <2>2. ASSUME NEW i \in 0..8, i \in T, i < 8 PROVE i + 1 \in T
    <3>1. (n + 40) - i \notin p
      BY <2>2
    <3>2. Cancel(p, (n + 40) - i) = p
      BY <3>1 DEF Cancel
    <3>3. i \in 0..n + 8
      BY <2>2
    <3> QED
      BY <1>3, <2>2, <3>2, <3>3
  <2> HIDE DEF T
  <2>3. \A i \in 0..8 : i \in T
    BY <2>1, <2>2, UpTo
  <2> QED
    BY <2>3 DEF T
<1>6. \A i \in 0..n + 1 : f[i + 8] = g[i]
  <2> DEFINE T == {i \in 0..n + 1 : f[i + 8] = g[i]}
  <2>1. 0 \in T
    BY <1>2, <1>5 DEF Divides
  <2>2. ASSUME NEW i \in 0..n + 1, i \in T, i < n + 1 PROVE i + 1 \in T
    <3>1. i + 8 \in 0..n + 8 /\ i \in 0..n /\ (i + 8) + 1 = (i + 1) + 8
            /\ (n + 40) - (i + 8) = (n + 32) - i
      BY <2>2
    <3>2. f[(i + 1) + 8] = Cancel(f[i + 8], (n + 32) - i)
      BY <1>3, <3>1
    <3>3. g[i + 1] = Cancel(g[i], (n + 32) - i)
      BY <1>4, <3>1
    <3> QED
      BY <2>2, <3>2, <3>3
  <2> HIDE DEF T
  <2>3. \A i \in 0..n + 1 : i \in T
    BY <2>1, <2>2, UpTo
  <2> QED
    BY <2>3 DEF T
<1>7. n + 1 \in 0..n + 1 /\ (n + 1) + 8 = n + 9
  OBVIOUS
<1> QED
  BY <1>1, <1>2, <1>6, <1>7

\* Exponents below the generator's stay as they are.
LEMMA RemainderLow ==
  ASSUME NEW p \in Poly, NEW q \in Poly, NEW n \in Nat,
         \A d \in q : d < 32
  PROVE  Remainder(SymDiff(p, q), n + 32) = SymDiff(Remainder(p, n + 32), q)
<1>1. n + 32 \in Int /\ n + 1 \in Nat /\ n + 1 = (n + 32) - 31 /\ (n + 1) - 1 = n
  OBVIOUS
<1>2. SymDiff(p, q) \in Poly
  BY DEF SymDiff, Poly
<1>3. PICK f \in [0..n + 1 -> Poly] :
        Divides(f, SymDiff(p, q), n + 32, n + 1) /\ Remainder(SymDiff(p, q), n + 32) = f[n + 1]
  BY <1>1, <1>2, RemainderIsLast
<1>4. PICK g \in [0..n + 1 -> Poly] :
        Divides(g, p, n + 32, n + 1) /\ Remainder(p, n + 32) = g[n + 1]
  BY <1>1, RemainderIsLast
<1>5. \A i \in 0..n : f[i + 1] = Cancel(f[i], (n + 32) - i)
  BY <1>1, <1>3, DividesStep, ZenonT(60)
<1>6. \A i \in 0..n : g[i + 1] = Cancel(g[i], (n + 32) - i)
  BY <1>1, <1>4, DividesStep, ZenonT(60)
<1>7. \A i \in 0..n + 1 : f[i] = SymDiff(g[i], q)
  <2> DEFINE T == {i \in 0..n + 1 : f[i] = SymDiff(g[i], q)}
  <2>1. 0 \in T
    BY <1>3, <1>4 DEF Divides
  <2>2. ASSUME NEW i \in 0..n + 1, i \in T, i < n + 1 PROVE i + 1 \in T
    <3> DEFINE d == (n + 32) - i
               h == g[i]
    <3>1. i \in 0..n /\ d \in Int /\ d >= 32 /\ h \in Poly /\ i + 1 \in 0..n + 1
      BY <1>4, <2>2
    <3>2. f[i + 1] = Cancel(SymDiff(h, q), d) /\ g[i + 1] = Cancel(h, d)
      BY <1>5, <1>6, <2>2, <3>1
    <3> HIDE DEF d, h
    <3>3. d \notin q
      BY <3>1
    <3>4. Cancel(SymDiff(h, q), d) = SymDiff(Cancel(h, d), q)
      <4>1. d \in SymDiff(h, q) <=> d \in h
        BY <3>3 DEF SymDiff
      <4>2. CASE d \in h
        BY <4>1, <4>2 DEF Cancel, SymDiff
      <4>3. CASE d \notin h
        BY <4>1, <4>3 DEF Cancel
      <4> QED
        BY <4>2, <4>3
    <3> QED
      BY <3>1, <3>2, <3>4
  <2> HIDE DEF T
  <2>3. \A i \in 0..n + 1 : i \in T
    BY <2>1, <2>2, UpTo
  <2> QED
    BY <2>3 DEF T
<1>8. n + 1 \in 0..n + 1
  OBVIOUS
<1> QED
  BY <1>3, <1>4, <1>7, <1>8

\* The polynomial moved up by one place.
Times(p) == {d + 1 : d \in p}

\* Its exponents.
LEMMA TimesIs ==
  ASSUME NEW p \in Poly
  PROVE  Times(p) \in Poly /\ \A x \in Int : x \in Times(p) <=> x - 1 \in p
<1>1. ASSUME NEW x \in Int, x - 1 \in p PROVE x \in Times(p)
  <2>1. x = (x - 1) + 1
    OBVIOUS
  <2> QED
    BY <1>1, <2>1, Zenon DEF Times
<1>2. ASSUME NEW x \in Int, x \in Times(p) PROVE x - 1 \in p
  BY <1>2 DEF Times, Poly
<1> QED
  BY <1>1, <1>2 DEF Times, Poly

\* A step of the division moves up along with the polynomial.
LEMMA CancelTimes ==
  ASSUME NEW p \in Poly, NEW d \in Int
  PROVE  Cancel(Times(p), d + 1) = Times(Cancel(p, d))
<1>1. d + 1 \in Int /\ (d + 1) - 1 = d
  OBVIOUS
<1>2. Times(p) \in Poly /\ Cancel(p, d) \in Poly /\ Times(Cancel(p, d)) \in Poly
        /\ Cancel(Times(p), d + 1) \in Poly
  BY <1>1, TimesIs, CancelIs
<1>3. ASSUME NEW x \in Int
      PROVE  x \in Cancel(Times(p), d + 1) <=> x \in Times(Cancel(p, d))
  <2>1. x - 1 \in Int /\ (x - (d + 1)) + 32 = ((x - 1) - d) + 32
    OBVIOUS
  <2>2. x \in Times(Cancel(p, d)) <=> x - 1 \in Cancel(p, d)
    BY <1>2, TimesIs
  <2>3. (x \in Times(p) <=> x - 1 \in p) /\ (d + 1 \in Times(p) <=> d \in p)
    BY <1>1, TimesIs
  <2>4. x - 1 \in Cancel(p, d) <=>
          \/ x - 1 \in p /\ ~(d \in p /\ ((x - 1) - d) + 32 \in Generator)
          \/ x - 1 \notin p /\ d \in p /\ ((x - 1) - d) + 32 \in Generator
    BY <2>1, CancelIs
  <2>5. x \in Cancel(Times(p), d + 1) <=>
          \/ x \in Times(p) /\ ~(d + 1 \in Times(p) /\ (x - (d + 1)) + 32 \in Generator)
          \/ x \notin Times(p) /\ d + 1 \in Times(p) /\ (x - (d + 1)) + 32 \in Generator
    BY <1>1, <1>2, CancelIs
  <2> QED
    BY <2>1, <2>2, <2>3, <2>4, <2>5, Zenon
<1> QED
  BY <1>2, <1>3 DEF Poly

\* One more place is one more step of the division.
LEMMA RemainderTimes ==
  ASSUME NEW p \in Poly, NEW n \in Nat,
         \A d \in p : d < n + 32
  PROVE  Remainder(Times(p), n + 32) = Cancel(Times(Remainder(p, n + 32)), 32)
<1>1. n + 32 \in Int /\ n + 1 \in Nat /\ n + 1 = (n + 32) - 31 /\ (n + 1) - 1 = n
  OBVIOUS
<1>2. Times(p) \in Poly
  BY TimesIs
<1>3. PICK f \in [0..n + 1 -> Poly] :
        Divides(f, Times(p), n + 32, n + 1) /\ Remainder(Times(p), n + 32) = f[n + 1]
  BY <1>1, <1>2, RemainderIsLast
<1>4. PICK g \in [0..n + 1 -> Poly] :
        Divides(g, p, n + 32, n + 1) /\ Remainder(p, n + 32) = g[n + 1]
  BY <1>1, RemainderIsLast
<1>5. \A i \in 0..n : f[i + 1] = Cancel(f[i], (n + 32) - i)
  BY <1>1, <1>3, DividesStep, ZenonT(60)
<1>6. \A i \in 0..n : g[i + 1] = Cancel(g[i], (n + 32) - i)
  BY <1>1, <1>4, DividesStep, ZenonT(60)
<1>7. \A i \in 0..n : f[i] = Times(g[i + 1])
  <2> DEFINE T == {i \in 0..n : f[i] = Times(g[i + 1])}
  <2>1. 0 \in T
    <3>1. f[0] = Times(p) /\ g[0] = p
      BY <1>3, <1>4 DEF Divides
    <3>2. n + 32 \notin p
      OBVIOUS
    <3>3. g[0 + 1] = Cancel(p, (n + 32) - 0) /\ (n + 32) - 0 = n + 32
      BY <1>6, <3>1
    <3>4. g[0 + 1] = p
      BY <3>2, <3>3 DEF Cancel
    <3> QED
      BY <3>1, <3>4
  <2>2. ASSUME NEW i \in 0..n, i \in T, i < n PROVE i + 1 \in T
    <3> DEFINE d == (n + 32) - (i + 1)
    <3>1. i + 1 \in 0..n /\ i + 1 \in 0..n + 1 /\ d \in Int /\ (n + 32) - i = d + 1
      BY <2>2
    <3>2. f[i + 1] = Cancel(Times(g[i + 1]), d + 1)
      BY <1>5, <2>2, <3>1
    <3>3. g[(i + 1) + 1] = Cancel(g[i + 1], d)
      BY <1>6, <3>1
    <3>4. g[i + 1] \in Poly
      BY <1>4, <3>1
    <3> HIDE DEF d
    <3>5. Cancel(Times(g[i + 1]), d + 1) = Times(Cancel(g[i + 1], d))
      BY <3>1, <3>4, CancelTimes
    <3> QED
      BY <3>1, <3>2, <3>3, <3>5
  <2> HIDE DEF T
  <2>3. \A i \in 0..n : i \in T
    BY <2>1, <2>2, UpTo
  <2> QED
    BY <2>3 DEF T
<1>8. n \in 0..n /\ (n + 32) - n = 32
  OBVIOUS
<1> QED
  BY <1>3, <1>4, <1>5, <1>7, <1>8

-----------------------------------------------------------------------------
(* The buffer's polynomial.                                                 *)

\* Following a polynomial by a char gives a polynomial.
LEMMA FollowedType ==
  ASSUME NEW p \in Poly, NEW b \in SUBSET (0..7)
  PROVE  Followed(p, b) \in Poly
<1>1. {d + 8 : d \in p} \subseteq Int
  BY DEF Poly
<1>2. {39 - i : i \in b} \subseteq Int
  OBVIOUS
<1>3. {39 - i : i \in IF 7 \in b THEN 8..31 ELSE {}} \subseteq Int
  OBVIOUS
<1> QED
  BY <1>1, <1>2, <1>3 DEF Followed, SymDiff, Poly

\* f is the polynomial of the first chars, for each number of them.
Collects(f, chars, n) ==
  f[0] = {} /\ \A i \in 1..n : f[i] = Followed(f[i - 1], chars[i])

\* Polynomial is the last value of such a function.
LEMMA PolynomialIsLast ==
  ASSUME NEW chars \in Seq(Chars), NEW n \in Nat, n = Len(chars)
  PROVE  \E f \in [0..n -> Poly] : Collects(f, chars, n) /\ Polynomial(chars) = f[n]
<1> DEFINE Is(f) == f = [i \in 0..n |-> IF i = 0 THEN {} ELSE Followed(f[i - 1], chars[i])]
           f == CHOOSE f : Is(f)
           step == [i \in 1..n |-> [q \in Poly |-> Followed(q, chars[i])]]
<1>1. Polynomial(chars) = f[n]
  BY DEF Polynomial
<1>2. \A i \in 1..n : chars[i] \in SUBSET (0..7)
  BY CharsHaveEightBits, LenProperties
<1>3. step \in [1..n -> [Poly -> Poly]] /\ {} \in Poly
  BY <1>2, FollowedType DEF Poly
<1>4. PICK g \in [0..n -> Poly] : g[0] = {} /\ \A i \in 1..n : g[i] = step[i][g[i - 1]]
  <2> HIDE DEF step
  <2>1. \A start \in Poly : \A st \in [1..n -> [Poly -> Poly]] : \E g \in [0..n -> Poly] :
          g[0] = start /\ \A i \in 1..n : g[i] = st[i][g[i - 1]]
    BY Iterates
  <2> QED
    BY <1>3, <2>1
<1>5. \A i \in 1..n : g[i] = Followed(g[i - 1], chars[i])
  <2> SUFFICES ASSUME NEW i \in 1..n PROVE g[i] = Followed(g[i - 1], chars[i])
    OBVIOUS
  <2>1. g[i - 1] \in Poly
    BY <1>4
  <2> QED
    BY <1>4, <2>1
<1>6. Is(g)
  BY <1>4, <1>5
<1>7. Is(f)
  <2> HIDE DEF Is
  <2> QED
    BY <1>6
<1> HIDE DEF f
<1>8. f[0] = {} /\ \A i \in 1..n : f[i] = Followed(f[i - 1], chars[i])
  <2>1. f[0] = {}
    BY <1>7, 0 \in 0..n
  <2>2. ASSUME NEW i \in 1..n PROVE f[i] = Followed(f[i - 1], chars[i])
    BY <1>7, i \in 0..n, i # 0
  <2> QED
    BY <2>1, <2>2
<1>9. f = [i \in 0..n |-> f[i]]
  BY <1>7
<1> HIDE DEF Is
<1>10. \A i \in 0..n : f[i] \in Poly
  <2> DEFINE T == {i \in 0..n : f[i] \in Poly}
  <2>1. 0 \in T
    BY <1>8 DEF Poly
  <2>2. ASSUME NEW i \in 0..n, i \in T, i < n PROVE i + 1 \in T
    <3>1. i + 1 \in 1..n /\ (i + 1) - 1 = i
      BY <2>2
    <3>2. f[i + 1] = Followed(f[i], chars[i + 1])
      BY <1>8, <3>1
    <3> QED
      BY <1>2, <2>2, <3>1, <3>2, FollowedType
  <2> HIDE DEF T
  <2>3. \A i \in 0..n : i \in T
    BY <2>1, <2>2, UpTo
  <2> QED
    BY <2>3 DEF T
<1> QED
  BY <1>1, <1>8, <1>9, <1>10 DEF Collects

\* Nothing has the polynomial zero.
LEMMA PolynomialEmpty == Polynomial(<<>>) = {}
<1>1. <<>> \in Seq(Chars) /\ 0 \in Nat /\ Len(<<>>) = 0
  OBVIOUS
<1> QED
  BY <1>1, PolynomialIsLast DEF Collects

\* The polynomial of one more char.
LEMMA PolynomialNext ==
  ASSUME NEW chars \in Seq(Chars), NEW n \in Nat, n < Len(chars)
  PROVE  Polynomial(SubSeq(chars, 1, n + 1))
           = Followed(Polynomial(SubSeq(chars, 1, n)), chars[n + 1])
<1> DEFINE long == SubSeq(chars, 1, n + 1)
           short == SubSeq(chars, 1, n)
<1>1. /\ long \in Seq(Chars) /\ Len(long) = n + 1 /\ short \in Seq(Chars) /\ Len(short) = n
      /\ \A i \in 1..n : long[i] = short[i]
      /\ long[n + 1] = chars[n + 1]
  BY LenProperties
<1> HIDE DEF long, short
<1>2. PICK f \in [0..n + 1 -> Poly] : Collects(f, long, n + 1) /\ Polynomial(long) = f[n + 1]
  BY <1>1, PolynomialIsLast, n + 1 \in Nat
<1>3. PICK g \in [0..n -> Poly] : Collects(g, short, n) /\ Polynomial(short) = g[n]
  BY <1>1, PolynomialIsLast
<1>4. \A i \in 0..n : f[i + 1] = Followed(f[i], long[i + 1])
  <2> SUFFICES ASSUME NEW i \in 0..n PROVE f[i + 1] = Followed(f[i], long[i + 1])
    OBVIOUS
  <2>1. i + 1 \in 1..n + 1 /\ (i + 1) - 1 = i
    OBVIOUS
  <2> QED
    BY <1>2, <2>1 DEF Collects
<1>5. \A i \in 0..n - 1 : g[i + 1] = Followed(g[i], short[i + 1])
  <2> SUFFICES ASSUME NEW i \in 0..n - 1 PROVE g[i + 1] = Followed(g[i], short[i + 1])
    OBVIOUS
  <2>1. i + 1 \in 1..n /\ (i + 1) - 1 = i
    OBVIOUS
  <2> QED
    BY <1>3, <2>1 DEF Collects
<1>6. \A i \in 0..n : f[i] = g[i]
  <2> DEFINE T == {i \in 0..n : f[i] = g[i]}
  <2>1. 0 \in T
    <3>1. f[0] = {} /\ g[0] = {}
      BY <1>2, <1>3 DEF Collects
    <3> QED
      BY <3>1
  <2>2. ASSUME NEW i \in 0..n, i \in T, i < n PROVE i + 1 \in T
    <3>1. i \in 0..n - 1 /\ i + 1 \in 1..n /\ i + 1 \in 0..n
      BY <2>2
    <3> QED
      BY <1>1, <1>4, <1>5, <2>2, <3>1
  <2> HIDE DEF T
  <2>3. \A i \in 0..n : i \in T
    BY <2>1, <2>2, UpTo
  <2> QED
    BY <2>3 DEF T
<1>7. Polynomial(long) = Followed(Polynomial(short), chars[n + 1])
  BY <1>1, <1>2, <1>3, <1>4, <1>6, n \in 0..n
<1> QED
  BY <1>7 DEF long, short

-----------------------------------------------------------------------------
(* The register.                                                            *)

\* The word whose bit 31 - d is the coefficient of d.
Mirror(p) == {31 - d : d \in p}

\* Its bits.
LEMMA MirrorIs ==
  ASSUME NEW p \in Poly
  PROVE  Mirror(p) \in SUBSET Int /\ \A x \in Int : x \in Mirror(p) <=> 31 - x \in p
<1>1. ASSUME NEW x \in Int, 31 - x \in p PROVE x \in Mirror(p)
  <2>1. x = 31 - (31 - x)
    OBVIOUS
  <2> QED
    BY <1>1, <2>1, Zenon DEF Mirror
<1>2. ASSUME NEW x \in Int, x \in Mirror(p) PROVE 31 - x \in p
  BY <1>2 DEF Mirror, Poly
<1> QED
  BY <1>1, <1>2 DEF Mirror, Poly

\* The polynomial moved down by n places.
Down(p, n) == {d - n : d \in p}

\* Its exponents.
LEMMA DownIs ==
  ASSUME NEW p \in Poly, NEW n \in Int
  PROVE  Down(p, n) \in Poly /\ \A x \in Int : x \in Down(p, n) <=> x + n \in p
<1>1. ASSUME NEW x \in Int, x + n \in p PROVE x \in Down(p, n)
  <2>1. x = (x + n) - n
    OBVIOUS
  <2> QED
    BY <1>1, <2>1, Zenon DEF Down
<1>2. ASSUME NEW x \in Int, x \in Down(p, n) PROVE x + n \in p
  BY <1>2 DEF Down, Poly
<1> QED
  BY <1>1, <1>2 DEF Down, Poly

\* A turn of the inner loop is a step of the division.
LEMMA ShiftIsCancel ==
  ASSUME NEW p \in Poly
  PROVE  Mirror(Cancel(Times(p), 32))
           = IF 0 \in Mirror(p) THEN SymDiff(ShiftRight(Mirror(p)), POLY)
             ELSE ShiftRight(Mirror(p))
<1> DEFINE c == Mirror(p)
           q == Cancel(Times(p), 32)
<1>1. /\ Times(p) \in Poly /\ q \in Poly
      /\ c \in SUBSET Int /\ Mirror(q) \in SUBSET Int
      /\ \A x \in Int : x \in c <=> 31 - x \in p
      /\ \A x \in Int : x \in Mirror(q) <=> 31 - x \in q
  <2>1. Times(p) \in Poly
    BY TimesIs
  <2>2. q \in Poly
    BY <2>1, CancelIs
  <2> HIDE DEF q
  <2> QED
    BY <2>1, <2>2, MirrorIs
<1>2. ShiftRight(c) \in SUBSET Int /\ \A x \in Int : x \in ShiftRight(c) <=> x + 1 \in c /\ x # -1
  <2>1. ASSUME NEW x \in Int, x + 1 \in c, x # -1 PROVE x \in ShiftRight(c)
    <3>1. x = (x + 1) - 1 /\ x + 1 \in c \ {0}
      BY <2>1
    <3> QED
      BY <3>1, Zenon DEF ShiftRight
  <2>2. ASSUME NEW x \in Int, x \in ShiftRight(c) PROVE x + 1 \in c /\ x # -1
    <3>1. PICK i \in c \ {0} : x = i - 1
      BY <2>2 DEF ShiftRight
    <3>2. i \in Int
      BY <1>1, <3>1
    <3> QED
      BY <3>1, <3>2
  <2>3. ShiftRight(c) \in SUBSET Int
    BY <1>1 DEF ShiftRight
  <2> QED
    BY <2>1, <2>2, <2>3
<1>3. POLY \subseteq Int /\ \A x \in Int : x \in POLY <=> 31 - x \in Generator /\ x # -1
  BY DEF POLY, Generator
<1>4. -1 \notin POLY /\ 32 \in Generator
  BY DEF POLY, Generator
<1> DEFINE w == IF 0 \in c THEN SymDiff(ShiftRight(c), POLY) ELSE ShiftRight(c)
<1>5. w \in SUBSET Int
  BY <1>2, <1>3 DEF SymDiff
<1>6. ASSUME NEW x \in Int PROVE x \in Mirror(q) <=> x \in w
  <2>1. /\ 31 - x \in Int /\ (31 - x) - 1 = 31 - (x + 1) /\ ((31 - x) - 32) + 32 = 31 - x
        /\ 31 - 0 = 31 /\ 32 - 1 = 31 /\ (x = -1 => 31 - (x + 1) = 31 /\ 31 - x = 32)
    OBVIOUS
  <2>2. 31 - x \in Times(p) <=> x + 1 \in c
    BY <1>1, <2>1, TimesIs
  <2>3. 32 \in Times(p) <=> 0 \in c
    BY <1>1, <2>1, TimesIs
  <2>4. x \in Mirror(q) <=>
          \/ x + 1 \in c /\ ~(0 \in c /\ 31 - x \in Generator)
          \/ x + 1 \notin c /\ 0 \in c /\ 31 - x \in Generator
    <3>1. 31 - x \in q <=>
            \/ 31 - x \in Times(p) /\ ~(32 \in Times(p) /\ ((31 - x) - 32) + 32 \in Generator)
            \/ 31 - x \notin Times(p) /\ 32 \in Times(p) /\ ((31 - x) - 32) + 32 \in Generator
      BY <1>1, <2>1, CancelIs
    <3> QED
      BY <1>1, <2>1, <2>2, <2>3, <3>1
  <2>5. x \in ShiftRight(c) <=> x + 1 \in c /\ x # -1
    BY <1>2
  <2>6. x \in POLY <=> 31 - x \in Generator /\ x # -1
    BY <1>3
  <2>7. x \in SymDiff(ShiftRight(c), POLY) <=>
          (x \in ShiftRight(c) /\ x \notin POLY) \/ (x \notin ShiftRight(c) /\ x \in POLY)
    BY DEF SymDiff
  <2>8. x = -1 => x + 1 = 0 /\ 31 - x \in Generator
    BY <1>4, <2>1
  <2> HIDE DEF c, q
  <2>9. CASE 0 \in c
    BY <2>4, <2>5, <2>6, <2>7, <2>8, <2>9
  <2>10. CASE 0 \notin c
    BY <2>4, <2>5, <2>8, <2>10
  <2> QED
    BY <2>9, <2>10
<1> HIDE DEF w, q
<1>7. Mirror(q) = w
  BY <1>1, <1>5, <1>6
<1> QED
  BY <1>7 DEF w, q

\* The exclusive or with a char is the addition of its bits' exponents.
LEMMA MirrorSum ==
  ASSUME NEW p \in Poly, NEW q \in Poly
  PROVE  Mirror(SymDiff(p, q)) = SymDiff(Mirror(p), Mirror(q))
<1>1. SymDiff(p, q) \in Poly
  BY DEF SymDiff, Poly
<1>2. /\ Mirror(SymDiff(p, q)) \in SUBSET Int /\ Mirror(p) \in SUBSET Int /\ Mirror(q) \in SUBSET Int
      /\ \A x \in Int : x \in Mirror(SymDiff(p, q)) <=> 31 - x \in SymDiff(p, q)
      /\ \A x \in Int : x \in Mirror(p) <=> 31 - x \in p
      /\ \A x \in Int : x \in Mirror(q) <=> 31 - x \in q
  BY <1>1, MirrorIs
<1>3. ASSUME NEW x \in Int
      PROVE  x \in Mirror(SymDiff(p, q)) <=> x \in SymDiff(Mirror(p), Mirror(q))
  BY <1>2 DEF SymDiff
<1> QED
  BY <1>2, <1>3 DEF SymDiff

-----------------------------------------------------------------------------
(* The invariant.                                                           *)

\* Types; the result is complete when nothing is left to do.
TypeInv ==
  /\ buffer \in Seq(Chars)
  /\ read \in 0..Len(buffer)
  /\ k \in 0..8
  /\ crc \subseteq Bits
  /\ result # NoResult => k = 0

\* The polynomial of what has been read has as many places as were read.
Places ==
  LET p == Polynomial(SubSeq(buffer, 1, read))
  IN  p \in Poly /\ \A d \in p : d < 8 * read + 32

CrcInv == TypeInv /\ Places /\ RegisterIsRemainder

\* RegisterIsRemainder in the terms of the lemmas.
LEMMA RegisterIs ==
  RegisterIsRemainder <=>
    LET reg == Mirror(Remainder(Down(Polynomial(SubSeq(buffer, 1, read)), k), 8 * read + 32))
    IN  crc = reg /\ (result # NoResult => read = Len(buffer) /\ Bits \ result = reg)
  BY DEF RegisterIsRemainder, Mirror, Down

\* It holds at the beginning.
LEMMA InitCrc == Init => CrcInv
<1> SUFFICES ASSUME Init PROVE CrcInv
  OBVIOUS
<1>1. buffer \in Seq(Chars)
  <2>1. PICK m \in 0..MaxLength : buffer \in [1..m -> Chars]
    BY DEF Init, BoundedSeq, SeqOf
  <2>2. m \in Nat
    BY MaxLengthNat
  <2> QED
    BY <2>1, <2>2, SeqDef
<1>2. TypeInv
  BY <1>1, LenProperties DEF Init, TypeInv, Bits
<1>3. Polynomial(SubSeq(buffer, 1, read)) = {}
  <2>1. read = 0
    BY DEF Init
  <2>2. SubSeq(buffer, 1, read) = <<>>
    BY <2>1, SubSeqEmpty
  <2> QED
    BY <2>2, PolynomialEmpty
<1>4. Places
  BY <1>3 DEF Places, Poly
<1>5. Remainder({}, 32) = {}
  <2>1. 1 \in Nat /\ 1 = 32 - 31 /\ 32 \in Int /\ {} \in Poly
    BY DEF Poly
  <2>2. PICK f \in [0..1 -> Poly] : Divides(f, {}, 32, 1) /\ Remainder({}, 32) = f[1]
    BY <2>1, RemainderIsLast
  <2>3. f[0] = {} /\ f[1] = Cancel(f[0], 32)
    BY <2>2 DEF Divides
  <2> QED
    BY <2>2, <2>3 DEF Cancel
<1>6. Down({}, k) = {} /\ Mirror({}) = {} /\ 8 * read + 32 = 32 /\ crc = {} /\ result = NoResult
  BY DEF Down, Mirror, Init
<1>7. RegisterIsRemainder
  BY <1>3, <1>5, <1>6, RegisterIs
<1> QED
  BY <1>2, <1>4, <1>7 DEF CrcInv

\* The exclusive or with the next char adds its bits below the places of the
\* generator, and the division of what was there is not disturbed.
LEMMA NextByteCrc ==
  ASSUME CrcInv, NextByte
  PROVE  CrcInv'
<1> DEFINE p == Polynomial(SubSeq(buffer, 1, read))
           b == buffer[read + 1]
           low == {31 - i : i \in Widen(b)}
           n == 8 * read
<1>1. /\ buffer \in Seq(Chars) /\ Len(buffer) \in Nat /\ read \in Nat /\ read < Len(buffer)
      /\ k = 0 /\ crc \subseteq Bits /\ result = NoResult
      /\ p \in Poly /\ \A d \in p : d < n + 32
      /\ n \in Nat /\ 8 * (read + 1) = n + 8
      /\ crc = Mirror(Remainder(Down(p, k), n + 32))
  <2>1. /\ buffer \in Seq(Chars) /\ read \in 0..Len(buffer) /\ crc \subseteq Bits
        /\ p \in Poly /\ \A d \in p : d < 8 * read + 32
    BY DEF CrcInv, TypeInv, Places
  <2>2. /\ k = 0 /\ read < Len(buffer) /\ crc = Mirror(Remainder(Down(p, k), 8 * read + 32))
        /\ (result # NoResult => read = Len(buffer))
    BY RegisterIs DEF CrcInv, NextByte
  <2>3. Len(buffer) \in Nat
    BY <2>1, LenProperties
  <2> HIDE DEF p
  <2>4. read \in Nat /\ result = NoResult
    BY <2>1, <2>2, <2>3
  <2>5. n \in Nat /\ 8 * (read + 1) = n + 8
    BY <2>4
  <2> QED
    BY <2>1, <2>2, <2>3, <2>4, <2>5
<1>2. /\ buffer' = buffer /\ read' = read + 1 /\ k' = 8 /\ result' = result
      /\ crc' = SymDiff(crc, Widen(b))
  BY DEF NextByte
<1>3. b \in SUBSET (0..7) /\ Widen(b) \in SUBSET (0..31)
  <2>1. b \in Chars
    BY <1>1
  <2>2. b \subseteq 0..7
    BY <2>1, CharsHaveEightBits
  <2> HIDE DEF b
  <2> QED
    BY <2>2 DEF Widen
<1> HIDE DEF n, b
<1>4. Polynomial(SubSeq(buffer, 1, read + 1)) = Followed(p, b)
  BY <1>1, PolynomialNext DEF b
<1> HIDE DEF p
<1>5. /\ low \in Poly /\ (\A d \in low : d \in 0..31)
      /\ \A x \in Int : x \in low <=> 31 - x \in Widen(b)
  <2>1. Widen(b) \in Poly
    BY <1>3 DEF Poly
  <2>2. low = Mirror(Widen(b))
    BY DEF Mirror
  <2>3. low \in Poly /\ \A x \in Int : x \in low <=> 31 - x \in Widen(b)
    BY <2>1, <2>2, MirrorIs DEF Poly
  <2>4. \A d \in low : d \in 0..31
    BY <1>3
  <2> QED
    BY <2>3, <2>4
<1>6. Mirror(low) = Widen(b)
  <2>1. Mirror(low) \in SUBSET Int /\ \A x \in Int : x \in Mirror(low) <=> 31 - x \in low
    BY <1>5, MirrorIs
  <2>2. \A x \in Int : x \in Mirror(low) <=> x \in Widen(b)
    <3> SUFFICES ASSUME NEW x \in Int PROVE x \in Mirror(low) <=> x \in Widen(b)
      OBVIOUS
    <3>1. 31 - x \in Int /\ 31 - (31 - x) = x
      OBVIOUS
    <3> HIDE DEF low
    <3> QED
      BY <1>5, <2>1, <3>1
  <2>3. Widen(b) \in SUBSET Int
    BY <1>3
  <2> HIDE DEF low
  <2> QED
    BY <2>1, <2>2, <2>3
<1>7. /\ Followed(p, b) \in Poly
      /\ \A x \in Int : x \in Followed(p, b) <=>
           (x - 8 \in p /\ x - 8 \notin low) \/ (x - 8 \notin p /\ x - 8 \in low)
  <2> DEFINE up == {d + 8 : d \in p}
             char == {39 - i : i \in b} \cup {39 - i : i \in IF 7 \in b THEN 8..31 ELSE {}}
  <2>1. \A x \in Int : x \in up <=> x - 8 \in p
    <3>1. ASSUME NEW x \in Int, x - 8 \in p PROVE x \in up
      <4>1. x = (x - 8) + 8
        OBVIOUS
      <4> QED
        BY <3>1, <4>1, Zenon
    <3>2. ASSUME NEW x \in Int, x \in up PROVE x - 8 \in p
      BY <1>1, <3>2 DEF Poly
    <3> QED
      BY <3>1, <3>2
  <2>2. char = {39 - i : i \in Widen(b)}
    BY DEF Widen
  <2>3. \A x \in Int : x \in char <=> x - 8 \in low
    <3>1. \A x \in Int : x \in char <=> 39 - x \in Widen(b)
      <4>1. ASSUME NEW x \in Int, 39 - x \in Widen(b) PROVE x \in char
        <5>1. x = 39 - (39 - x)
          OBVIOUS
        <5> HIDE DEF char
        <5> QED
          BY <2>2, <4>1, <5>1, Zenon
      <4>2. ASSUME NEW x \in Int, x \in char PROVE 39 - x \in Widen(b)
        <5> HIDE DEF char
        <5>1. PICK i \in Widen(b) : x = 39 - i
          BY <2>2, <4>2
        <5>2. i \in Int
          BY <1>3, <5>1
        <5> QED
          BY <5>1, <5>2
      <4> QED
        BY <4>1, <4>2
    <3> SUFFICES ASSUME NEW x \in Int PROVE x \in char <=> x - 8 \in low
      OBVIOUS
    <3>2. x - 8 \in Int /\ 31 - (x - 8) = 39 - x
      OBVIOUS
    <3> HIDE DEF low, char
    <3> QED
      BY <1>5, <3>1, <3>2
  <2>4. Followed(p, b) = SymDiff(up, char)
    BY DEF Followed
  <2> HIDE DEF up, char, low
  <2> QED
    BY <1>1, <1>3, <2>1, <2>3, <2>4, FollowedType DEF SymDiff
<1> HIDE DEF low
<1>8. /\ Down(p, k) = p
      /\ Down(Followed(p, b), 8) = SymDiff(p, low)
      /\ SymDiff(p, low) \in Poly
  <2>1. Down(p, k) \in Poly /\ \A x \in Int : x \in Down(p, k) <=> x \in p
    BY <1>1, DownIs
  <2>2. Down(p, k) = p
    BY <1>1, <2>1 DEF Poly
  <2>3. SymDiff(p, low) \in Poly
    BY <1>1, <1>5 DEF SymDiff, Poly
  <2>4. /\ Down(Followed(p, b), 8) \in Poly
        /\ \A x \in Int : x \in Down(Followed(p, b), 8) <=> x + 8 \in Followed(p, b)
    BY <1>7, DownIs
  <2>5. ASSUME NEW x \in Int PROVE x \in Down(Followed(p, b), 8) <=> x \in SymDiff(p, low)
    <3>1. x + 8 \in Int /\ (x + 8) - 8 = x
      OBVIOUS
    <3> QED
      BY <1>7, <2>4, <3>1 DEF SymDiff
  <2> QED
    BY <2>2, <2>3, <2>4, <2>5 DEF Poly
<1>9. \A d \in low : d < n + 32
  <2>1. \A d \in 0..31 : d < n + 32
    BY <1>1
  <2> QED
    BY <1>5, <2>1
<1>10. Mirror(Remainder(SymDiff(p, low), n + 40)) = SymDiff(crc, Widen(b))
  <2>1. \A d \in SymDiff(p, low) : d < n + 32
    BY <1>1, <1>9 DEF SymDiff
  <2>2. Remainder(SymDiff(p, low), n + 40) = Remainder(SymDiff(p, low), n + 32)
    BY <1>1, <1>8, <2>1, RemainderHigher
  <2>3. Remainder(SymDiff(p, low), n + 32) = SymDiff(Remainder(p, n + 32), low)
    <3>1. \A d \in low : d < 32
      BY <1>5
    <3> QED
      BY <1>1, <1>5, <3>1, RemainderLow
  <2>4. Remainder(p, n + 32) \in Poly
    <3>1. n + 32 \in Int /\ n + 1 \in Nat /\ n + 1 = (n + 32) - 31 /\ n + 1 \in 0..n + 1
      BY <1>1
    <3> QED
      BY <1>1, <3>1, RemainderIsLast
  <2> QED
    BY <1>1, <1>5, <1>6, <1>8, <2>2, <2>3, <2>4, MirrorSum
<1>11. Polynomial(SubSeq(buffer', 1, read')) = Followed(p, b)
  BY <1>2, <1>4
<1>12. 8 * read' = n + 8 /\ 8 * read' + 32 = n + 40
  BY <1>1, <1>2
<1>13. TypeInv'
  <2>1. crc' \subseteq Bits
    BY <1>1, <1>2, <1>3 DEF SymDiff, Bits
  <2>2. read' \in 0..Len(buffer') /\ k' \in 0..8
    BY <1>1, <1>2
  <2> QED
    BY <1>1, <1>2, <2>1, <2>2 DEF TypeInv
<1>14. Places'
  <2>1. ASSUME NEW d \in Followed(p, b) PROVE d < (n + 8) + 32
    <3>1. d \in Int /\ d - 8 \in Int
      BY <1>7 DEF Poly
    <3>2. d - 8 \in p \/ d - 8 \in low
      BY <1>7, <3>1
    <3>3. d - 8 < n + 32
      BY <1>1, <1>9, <3>2
    <3> QED
      BY <1>1, <3>1, <3>3
  <2> QED
    BY <1>7, <1>11, <1>12, <2>1 DEF Places
<1>15. RegisterIsRemainder'
  <2>1. Mirror(Remainder(Down(Followed(p, b), k'), 8 * read' + 32)) = crc'
    BY <1>2, <1>8, <1>10, <1>12
  <2>2. Mirror(Remainder(Down(Polynomial(SubSeq(buffer', 1, read')), k'), 8 * read' + 32)) = crc'
    BY <1>11, <2>1
  <2>3. result' = NoResult
    BY <1>1, <1>2
  <2> QED
    BY <2>2, <2>3 DEF RegisterIsRemainder, Mirror, Down
<1> QED
  BY <1>13, <1>14, <1>15 DEF CrcInv

\* A turn of the inner loop moves the polynomial up by one place.
LEMMA ShiftCrc ==
  ASSUME CrcInv, Shift
  PROVE  CrcInv'
<1> DEFINE p == Polynomial(SubSeq(buffer, 1, read))
           n == 8 * read
           q == Down(p, k)
<1>1. /\ k \in 1..8 /\ read \in Nat /\ crc \subseteq Bits /\ result = NoResult
      /\ p \in Poly /\ \A d \in p : d < n + 32
      /\ crc = Mirror(Remainder(q, n + 32))
  <2>1. /\ buffer \in Seq(Chars) /\ read \in 0..Len(buffer) /\ crc \subseteq Bits /\ k \in 0..8
        /\ p \in Poly /\ (\A d \in p : d < 8 * read + 32)
        /\ (result # NoResult => k = 0)
    BY DEF CrcInv, TypeInv, Places
  <2>2. k > 0 /\ crc = Mirror(Remainder(q, n + 32))
    BY RegisterIs DEF CrcInv, Shift
  <2>3. Len(buffer) \in Nat
    BY <2>1, LenProperties
  <2> HIDE DEF p, q
  <2> QED
    BY <2>1, <2>2, <2>3
<1>2. /\ buffer' = buffer /\ read' = read /\ k' = k - 1 /\ result' = result
      /\ crc' = IF 0 \in crc THEN SymDiff(ShiftRight(crc), POLY) ELSE ShiftRight(crc)
  BY DEF Shift
<1> HIDE DEF p
<1>3. Down(p, k - 1) = Times(q)
  <2>1. k \in Int /\ k - 1 \in Int
    BY <1>1
  <2>2. q \in Poly /\ \A x \in Int : x \in q <=> x + k \in p
    BY <1>1, <2>1, DownIs
  <2>3. Down(p, k - 1) \in Poly /\ \A x \in Int : x \in Down(p, k - 1) <=> x + (k - 1) \in p
    BY <1>1, <2>1, DownIs
  <2> HIDE DEF q
  <2>4. Times(q) \in Poly /\ \A x \in Int : x \in Times(q) <=> x - 1 \in q
    BY <2>2, TimesIs
  <2>5. ASSUME NEW x \in Int PROVE x \in Down(p, k - 1) <=> x \in Times(q)
    <3>1. x - 1 \in Int /\ (x - 1) + k = x + (k - 1)
      BY <2>1
    <3> QED
      BY <2>2, <2>3, <2>4, <3>1
  <2> QED
    BY <2>3, <2>4, <2>5 DEF Poly
<1>4. q \in Poly /\ \A d \in q : d < n + 32
  <2>1. q \in Poly /\ \A x \in Int : x \in q <=> x + k \in p
    <3>1. k \in Int
      BY <1>1
    <3> QED
      BY <1>1, <3>1, DownIs
  <2> HIDE DEF q
  <2>2. ASSUME NEW d \in q PROVE d < n + 32
    <3>1. d \in Int /\ d + k \in p
      BY <2>1 DEF Poly
    <3>2. d + k < n + 32
      BY <1>1, <3>1
    <3> QED
      BY <1>1, <3>1, <3>2
  <2> QED
    BY <2>1, <2>2
<1> HIDE DEF q
<1>5. Remainder(q, n + 32) \in Poly
  <2>1. n + 32 \in Int /\ n + 1 \in Nat /\ n + 1 = (n + 32) - 31 /\ n + 1 \in 0..n + 1
    BY <1>1
  <2> HIDE DEF n
  <2>2. PICK f \in [0..n + 1 -> Poly] : Remainder(q, n + 32) = f[n + 1]
    BY <1>4, <2>1, RemainderIsLast
  <2> QED
    BY <2>1, <2>2
<1>6. n \in Nat
  BY <1>1
<1>7. crc' = Mirror(Remainder(Down(p, k - 1), n + 32))
  <2> HIDE DEF n
  <2>1. Remainder(Times(q), n + 32) = Cancel(Times(Remainder(q, n + 32)), 32)
    BY <1>4, <1>6, RemainderTimes
  <2> QED
    BY <1>1, <1>2, <1>3, <1>5, <2>1, ShiftIsCancel
<1>8. TypeInv'
  <2>1. ShiftRight(crc) \subseteq Bits
    BY <1>1 DEF ShiftRight, Bits
  <2>2. POLY \subseteq Bits
    BY DEF POLY, Bits
  <2>3. crc' \subseteq Bits
    BY <1>2, <2>1, <2>2 DEF SymDiff
  <2>4. k' \in 0..8
    BY <1>1, <1>2
  <2> QED
    BY <1>1, <1>2, <2>3, <2>4 DEF CrcInv, TypeInv
<1>9. Places'
  BY <1>2 DEF CrcInv, Places
<1>10. RegisterIsRemainder'
  <2>1. Mirror(Remainder(Down(Polynomial(SubSeq(buffer', 1, read')), k'), 8 * read' + 32)) = crc'
    BY <1>2, <1>7 DEF p
  <2> QED
    BY <1>1, <1>2, <2>1 DEF RegisterIsRemainder, Mirror, Down
<1> QED
  BY <1>8, <1>9, <1>10 DEF CrcInv

\* The complement's complement is the register.
LEMMA ReturnCrc ==
  ASSUME CrcInv, Return
  PROVE  CrcInv'
<1>1. /\ k = 0 /\ read = Len(buffer) /\ result' = Bits \ crc
      /\ buffer' = buffer /\ read' = read /\ crc' = crc /\ k' = k
  BY DEF Return
<1>2. Bits \ (Bits \ crc) = crc
  BY DEF CrcInv, TypeInv
<1>3. TypeInv' /\ Places'
  BY <1>1 DEF CrcInv, TypeInv, Places
<1>4. RegisterIsRemainder'
  <2> DEFINE reg == Mirror(Remainder(Down(Polynomial(SubSeq(buffer, 1, read)), k), 8 * read + 32))
  <2>1. crc = reg
    BY RegisterIs DEF CrcInv
  <2>2. reg' = reg
    BY <1>1
  <2>3. crc' = reg'
    BY <1>1, <2>1, <2>2
  <2>4. read' = Len(buffer') /\ Bits \ result' = reg'
    BY <1>1, <1>2, <2>1, <2>2
  <2> QED
    BY <2>3, <2>4 DEF RegisterIsRemainder, Mirror, Down
<1> QED
  BY <1>3, <1>4 DEF CrcInv

\* All steps keep the invariant.
LEMMA NextCrc ==
  ASSUME CrcInv, [Next]_vars
  PROVE  CrcInv'
<1>1. CASE UNCHANGED vars
  BY <1>1, ZenonT(60) DEF vars, CrcInv, TypeInv, Places, RegisterIsRemainder
<1> QED
  BY <1>1, NextByteCrc, ShiftCrc, ReturnCrc DEF Next

\* For every buffer of any length the register of Algorithm::CRC32 is, after
\* each turn of its loops, the remainder of what has been read by the CRC-32
\* generator, and the result is its complement.
THEOREM RegisterCorrect == Spec => []RegisterIsRemainder
<1>1. CrcInv => RegisterIsRemainder
  BY DEF CrcInv
<1> QED
  BY <1>1, InitCrc, NextCrc, PTL DEF Spec
=============================================================================
