--------------------------- MODULE FramingProofs ---------------------------
(***************************************************************************)
(* Proofs about Framing.                                                   *)
(***************************************************************************)
EXTENDS Framing, SequenceTheorems, WellFoundedInduction, FiniteSetTheorems, TLAPS

-----------------------------------------------------------------------------
(* Least elements, from which what is to hold up to a length is proved.     *)

\* A set of natural numbers that is not empty has a least element.
LEMMA Least ==
  ASSUME NEW T, T \subseteq Nat, T # {}
  PROVE  \E x \in T : \A y \in T : x <= y
<1>1. PICK x \in T : \A y \in T : ~(<<y, x>> \in OpToRel(<, Nat))
  BY NatLessThanWellFounded, WFMin
<1>2. \A y \in T : ~(y < x)
  BY <1>1 DEF OpToRel
<1> QED
  BY <1>2

\* What holds of 0, and of the next number below n with each, holds up to n.
LEMMA UpTo ==
  ASSUME NEW n \in Nat, NEW T, 0 \in T,
         \A k \in 0..n : k \in T /\ k < n => k + 1 \in T
  PROVE  \A k \in 0..n : k \in T
<1> SUFFICES ASSUME {k \in 0..n : k \notin T} # {} PROVE FALSE
  OBVIOUS
<1> DEFINE Bad == {k \in 0..n : k \notin T}
<1>1. Bad \subseteq Nat /\ Bad # {}
  OBVIOUS
<1> HIDE DEF Bad
<1>2. PICK x \in Bad : \A y \in Bad : x <= y
  BY <1>1, Least
<1>3. x # 0 /\ x - 1 \in 0..n /\ x - 1 \notin Bad
  BY <1>1, <1>2 DEF Bad
<1> QED
  BY <1>2, <1>3 DEF Bad

\* Min is the least element.
LEMMA MinIsLeast ==
  ASSUME NEW T, T \subseteq Nat, T # {}
  PROVE  Min(T) \in T /\ \A y \in T : Min(T) <= y
  BY Least DEF Min

-----------------------------------------------------------------------------
(* FlattenSeq.                                                              *)


\* f joins the first n sequences one after the other.
Joins(f, seqs, n) ==
  \A i \in 1..n : f[i] = IF i = 1 THEN seqs[i] ELSE f[i-1] \o seqs[i]

\* The function's first value, and each from the one before.
LEMMA JoinsStep ==
  ASSUME NEW f, NEW seqs, NEW n \in Nat, Joins(f, seqs, n)
  PROVE  /\ n # 0 => f[1] = seqs[1]
         /\ \A k \in 1..n - 1 : f[k + 1] = f[k] \o seqs[k + 1]
<1>1. n # 0 => f[1] = seqs[1]
  <2>1. n # 0 => 1 \in 1..n
    OBVIOUS
  <2> QED
    BY <2>1 DEF Joins
<1>2. ASSUME NEW k \in 1..n - 1 PROVE f[k + 1] = f[k] \o seqs[k + 1]
  <2> DEFINE j == k + 1
  <2>1. j \in 1..n /\ j # 1 /\ j - 1 = k
    OBVIOUS
  <2> HIDE DEF j
  <2>2. f[j] = f[j - 1] \o seqs[j]
    BY <2>1, Zenon DEF Joins
  <2>3. f[j] = f[k] \o seqs[j]
    BY <2>1, <2>2, Zenon
  <2> QED
    BY <2>3 DEF j
<1> QED
  BY <1>1, <1>2

\* There is such a function.
LEMMA JoinExists ==
  ASSUME NEW S, NEW seqs \in Seq(Seq(S)), NEW n \in Nat, n <= Len(seqs)
  PROVE  \E f \in [1..n -> Seq(S)] : Joins(f, seqs, n)
<1> DEFINE T == {k \in 0..n : \E f \in [1..k -> Seq(S)] : Joins(f, seqs, k)}
<1>1. 0 \in T
  <2> DEFINE f == [i \in 1..0 |-> <<>>]
  <2>1. f \in [1..0 -> Seq(S)]
    OBVIOUS
  <2>2. Joins(f, seqs, 0)
    BY DEF Joins
  <2> HIDE DEF f
  <2>3. 0 \in 0..n
    OBVIOUS
  <2> QED
    BY <2>1, <2>2, <2>3, Zenon
<1>2. ASSUME NEW k \in 0..n, k \in T, k < n PROVE k + 1 \in T
  <2>1. PICK f \in [1..k -> Seq(S)] : Joins(f, seqs, k)
    BY <1>2
  <2>2. seqs[k + 1] \in Seq(S) /\ seqs[1] \in Seq(S)
    BY <1>2, LenProperties
  <2> DEFINE next == IF k = 0 THEN seqs[1] ELSE f[k] \o seqs[k + 1]
  <2>3. next \in Seq(S)
    BY <2>1, <2>2
  <2> DEFINE g == [i \in 1..k + 1 |-> IF i <= k THEN f[i] ELSE next]
  <2>4. g \in [1..k + 1 -> Seq(S)]
    <3> HIDE DEF next
    <3> QED
      BY <2>3
  <2>5. ASSUME NEW i \in 1..k + 1
        PROVE  g[i] = IF i = 1 THEN seqs[i] ELSE g[i-1] \o seqs[i]
    <3>1. CASE i <= k
      <4>1. f[i] = IF i = 1 THEN seqs[i] ELSE f[i-1] \o seqs[i]
        <5>1. i \in 1..k
          BY <3>1
        <5> QED
          BY <2>1, <5>1, Zenon DEF Joins
      <4>2. g[i] = f[i] /\ (i # 1 => g[i-1] = f[i-1])
        BY <3>1
      <4> QED
        BY <4>1, <4>2
    <3>2. CASE i = k + 1
      <4>1. g[i] = next /\ (i # 1 => g[i-1] = f[i-1])
        BY <3>2
      <4> QED
        BY <3>2, <4>1
    <3> QED
      BY <2>5, <3>1, <3>2
  <2> HIDE DEF g
  <2>6. Joins(g, seqs, k + 1)
    BY <2>5 DEF Joins
  <2>7. k + 1 \in 0..n
    BY <1>2
  <2> QED
    BY <2>4, <2>6, <2>7
<1> HIDE DEF T
<1>3. \A k \in 0..n : k \in T
  BY <1>1, <1>2, UpTo
<1>4. n \in T
  BY <1>3
<1> QED
  BY <1>4 DEF T

\* What FlattenSeq returns is the last value of such a function.
LEMMA FlattenIsJoin ==
  ASSUME NEW S, NEW seqs \in Seq(Seq(S)), NEW n \in Nat, n = Len(seqs), n # 0
  PROVE  \E f \in [1..n -> Seq(S)] : FlattenSeq(seqs) = f[n] /\ Joins(f, seqs, n)
<1> DEFINE Is(f) == f = [i \in 1..n |-> IF i = 1 THEN seqs[i] ELSE f[i-1] \o seqs[i]]
           f == CHOOSE f : Is(f)
<1>1. FlattenSeq(seqs) = f[n]
  BY DEF FlattenSeq
<1>2. PICK g \in [1..n -> Seq(S)] : Joins(g, seqs, n)
  BY JoinExists
<1>3. Is(g)
  BY <1>2 DEF Joins
<1>4. Is(f)
  <2> HIDE DEF Is
  <2> QED
    BY <1>3
<1> HIDE DEF f
<1>5. \A i \in 1..n : f[i] = IF i = 1 THEN seqs[i] ELSE f[i-1] \o seqs[i]
  BY <1>4
<1>6. f = [i \in 1..n |-> f[i]]
  BY <1>4
<1> HIDE DEF Is
<1>7. \A k \in 1..n : f[k] \in Seq(S)
  <2> DEFINE T == {k \in 0..n : k # 0 => f[k] \in Seq(S)}
  <2>1. 0 \in T
    OBVIOUS
  <2>2. ASSUME NEW k \in 0..n, k \in T, k < n PROVE k + 1 \in T
    <3>1. seqs[k + 1] \in Seq(S)
      BY <2>2, LenProperties
    <3>2. f[k + 1] = IF k = 0 THEN seqs[k + 1] ELSE f[k] \o seqs[k + 1]
      BY <1>5, <2>2
    <3>3. k # 0 => f[k] \in Seq(S)
      BY <2>2
    <3>4. f[k + 1] \in Seq(S)
      BY <3>1, <3>2, <3>3
    <3> QED
      BY <2>2, <3>4
  <2> HIDE DEF T
  <2>3. \A k \in 0..n : k \in T
    BY <2>1, <2>2, UpTo
  <2> QED
    BY <2>3 DEF T
<1> QED
  BY <1>1, <1>5, <1>6, <1>7 DEF Joins

\* Joining nothing gives nothing.
LEMMA FlattenEmpty == FlattenSeq(<<>>) = <<>>
  BY DEF FlattenSeq

\* Joining sequences gives a sequence of their elements.
LEMMA FlattenType ==
  ASSUME NEW S, NEW seqs \in Seq(Seq(S))
  PROVE  FlattenSeq(seqs) \in Seq(S)
<1>1. CASE seqs = <<>>
  <2>1. <<>> \in Seq(S)
    OBVIOUS
  <2> QED
    BY <1>1, <2>1, FlattenEmpty
<1>2. CASE seqs # <<>>
  <2> DEFINE n == Len(seqs)
  <2>1. n \in Nat /\ n # 0
    BY <1>2, EmptySeq, LenProperties
  <2> HIDE DEF n
  <2>2. PICK f \in [1..n -> Seq(S)] : FlattenSeq(seqs) = f[n]
    BY <2>1, FlattenIsJoin DEF n
  <2> QED
    BY <2>1, <2>2
<1> QED
  BY <1>1, <1>2

\* A sequence appended comes last.
LEMMA FlattenAppend ==
  ASSUME NEW S, NEW seqs \in Seq(Seq(S)), NEW last \in Seq(S)
  PROVE  FlattenSeq(Append(seqs, last)) = FlattenSeq(seqs) \o last
<1> DEFINE n == Len(seqs)
           all == Append(seqs, last)
<1>1. /\ all \in Seq(Seq(S)) /\ Len(all) = n + 1 /\ n \in Nat /\ all[n + 1] = last
      /\ \A i \in 1..n : all[i] = seqs[i]
  BY AppendProperties, LenProperties
<1>2. n = 0 => seqs = <<>>
  BY EmptySeq
<1>3. Len(seqs) = n
  OBVIOUS
<1> HIDE DEF all, n
<1>4. n + 1 \in Nat /\ n + 1 # 0
  BY <1>1
<1>5. PICK f \in [1..n + 1 -> Seq(S)] : FlattenSeq(all) = f[n + 1] /\ Joins(f, all, n + 1)
  BY <1>1, <1>4, FlattenIsJoin
<1>6. f[1] = all[1] /\ \A i \in 1..n : f[i + 1] = f[i] \o all[i + 1]
  <2>1. (n + 1) - 1 = n
    BY <1>1
  <2> QED
    <3>1. Joins(f, all, n + 1)
      BY <1>5
    <3>2. \A k \in 1..(n + 1) - 1 : f[k + 1] = f[k] \o all[k + 1]
      BY <1>4, <3>1, JoinsStep
    <3>3. f[1] = all[1]
      BY <1>4, <3>1, JoinsStep
    <3> QED
      BY <2>1, <3>2, <3>3
<1>7. CASE n = 0
  <2>1. FlattenSeq(all) = last
    BY <1>1, <1>5, <1>6, <1>7
  <2> QED
    BY <1>2, <1>7, <2>1, FlattenEmpty, ConcatEmptySeq DEF all
<1>8. CASE n # 0
  <2>1. PICK g \in [1..n -> Seq(S)] : FlattenSeq(seqs) = g[n] /\ Joins(g, seqs, n)
    BY <1>1, <1>3, <1>8, FlattenIsJoin
  <2>2. g[1] = seqs[1] /\ \A i \in 1..n - 1 : g[i + 1] = g[i] \o seqs[i + 1]
    BY <1>1, <1>8, <2>1, JoinsStep, ZenonT(60)
  <2> DEFINE T == {k \in 0..n : k # 0 => f[k] = g[k]}
  <2>3. 0 \in T
    BY <1>1
  <2>4. ASSUME NEW k \in 0..n, k \in T, k < n PROVE k + 1 \in T
    <3>1. CASE k = 0
      BY <1>1, <1>6, <2>2, <2>4, <3>1
    <3>2. CASE k # 0
      <4>1. k \in 1..n /\ k \in 1..n - 1 /\ k + 1 \in 1..n
        BY <1>1, <2>4, <3>2
      <4>2. all[k + 1] = seqs[k + 1] /\ f[k] = g[k]
        BY <1>1, <2>4, <3>2, <4>1
      <4>3. f[k + 1] = g[k + 1]
        BY <1>6, <2>2, <4>1, <4>2, Zenon
      <4> QED
        BY <1>1, <2>4, <4>3
    <3> QED
      BY <3>1, <3>2
  <2> HIDE DEF T
  <2>5. \A k \in 0..n : k \in T
    BY <1>1, <2>3, <2>4, UpTo
  <2>6. f[n] = g[n]
    BY <1>1, <1>8, <2>5 DEF T
  <2>7. FlattenSeq(all) = f[n] \o last
    <3>1. n \in 1..n
      BY <1>1, <1>8
    <3> QED
      BY <1>1, <1>5, <1>6, <3>1, Zenon
  <2> QED
    BY <2>1, <2>6, <2>7 DEF all
<1> QED
  BY <1>7, <1>8

\* The first sequence comes first.
LEMMA FlattenHead ==
  ASSUME NEW S, NEW seqs \in Seq(Seq(S)), seqs # <<>>
  PROVE  FlattenSeq(seqs) = Head(seqs) \o FlattenSeq(Tail(seqs))
<1> DEFINE n == Len(seqs)
           rest == Tail(seqs)
           first == Head(seqs)
<1>1. /\ rest \in Seq(Seq(S)) /\ Len(rest) = n - 1 /\ n \in Nat /\ n # 0
      /\ first \in Seq(S) /\ first = seqs[1]
      /\ \A i \in 1..n - 1 : rest[i] = seqs[i + 1] /\ rest[i] \in Seq(S)
  BY HeadTailProperties, LenProperties, EmptySeq
<1>2. Len(rest) = 0 => rest = <<>>
  BY <1>1, EmptySeq
<1>3. Len(seqs) = n
  OBVIOUS
<1> HIDE DEF rest, n, first
<1>4. PICK f \in [1..n -> Seq(S)] : FlattenSeq(seqs) = f[n] /\ Joins(f, seqs, n)
  BY <1>1, <1>3, FlattenIsJoin
<1>5. f[1] = seqs[1] /\ \A i \in 1..n - 1 : f[i + 1] = f[i] \o seqs[i + 1]
  <2>1. n \in Nat /\ n # 0
    BY <1>1
  <2>2. Joins(f, seqs, n)
    BY <1>4
  <2> QED
    BY <2>1, <2>2, JoinsStep
<1>6. CASE n = 1
  <2>1. rest = <<>>
    BY <1>1, <1>2, <1>6
  <2>2. FlattenSeq(seqs) = first
    BY <1>1, <1>4, <1>5, <1>6
  <2> QED
    BY <1>1, <2>1, <2>2, FlattenEmpty, ConcatEmptySeq DEF rest, first
<1>7. CASE n # 1
  <2>1. n - 1 \in Nat /\ n - 1 # 0
    BY <1>1, <1>7
  <2>2. PICK g \in [1..n - 1 -> Seq(S)] :
          FlattenSeq(rest) = g[n - 1] /\ Joins(g, rest, n - 1)
    BY <1>1, <2>1, FlattenIsJoin
  <2>3. g[1] = rest[1] /\ \A i \in 1..n - 2 : g[i + 1] = g[i] \o rest[i + 1]
    <3>1. (n - 1) - 1 = n - 2
      BY <1>1
    <3>2. Joins(g, rest, n - 1)
      BY <2>2
    <3>3. \A k \in 1..(n - 1) - 1 : g[k + 1] = g[k] \o rest[k + 1]
      BY <2>1, <3>2, JoinsStep
    <3>4. g[1] = rest[1]
      BY <2>1, <3>2, JoinsStep
    <3> QED
      BY <3>1, <3>3, <3>4
  <2> DEFINE T == {k \in 0..n - 1 : k # 0 => f[k + 1] = first \o g[k]}
  <2>4. 0 \in T
    BY <2>1
  <2>5. ASSUME NEW k \in 0..n - 1, k \in T, k < n - 1 PROVE k + 1 \in T
    <3>1. CASE k = 0
      <4>1. f[2] = f[1] \o seqs[2]
        <5>1. 1 \in 1..n - 1 /\ 1 + 1 = 2
          BY <1>1, <2>1
        <5> QED
          BY <1>5, <5>1, Zenon
      <4>2. rest[1] = seqs[2]
        BY <1>1, <2>1
      <4>3. f[2] = first \o g[1]
        BY <1>1, <1>5, <2>3, <4>1, <4>2
      <4> QED
        <5>1. 0 + 1 = 1 /\ 1 + 1 = 2 /\ 1 \in 0..n - 1
          BY <1>1, <2>1
        <5> QED
          BY <3>1, <4>3, <5>1
    <3>2. CASE k # 0
      <4>1. f[k + 2] = f[k + 1] \o seqs[k + 2]
        <5>1. k + 1 \in 1..n - 1 /\ (k + 1) + 1 = k + 2
          BY <1>1, <2>5, <3>2
        <5> QED
          BY <1>5, <5>1
      <4>2. f[k + 1] = first \o g[k]
        BY <2>5, <3>2
      <4>3. g[k + 1] = g[k] \o rest[k + 1]
        <5>1. k \in 1..n - 2
          BY <1>1, <2>5, <3>2
        <5> QED
          BY <2>3, <5>1, Zenon
      <4>4. rest[k + 1] = seqs[k + 2] /\ rest[k + 1] \in Seq(S)
        <5>1. k + 1 \in 1..n - 1 /\ (k + 1) + 1 = k + 2
          BY <1>1, <2>5, <3>2
        <5> QED
          BY <1>1, <5>1
      <4>5. g[k] \in Seq(S)
        BY <1>1, <2>2, <2>5, <3>2
      <4>6. f[k + 2] = first \o g[k + 1]
        <5>1. (first \o g[k]) \o rest[k + 1] = first \o (g[k] \o rest[k + 1])
          <6>1. \A s, t, u \in Seq(S) : (s \o t) \o u = s \o (t \o u)
            BY ConcatAssociative, SMTT(60)
          <6>2. first \in Seq(S) /\ g[k] \in Seq(S) /\ rest[k + 1] \in Seq(S)
            BY <1>1, <4>4, <4>5
          <6> QED
            BY <6>1, <6>2, Zenon
        <5> QED
          BY <4>1, <4>2, <4>3, <4>4, <5>1, Zenon
      <4>7. k + 1 \in 0..n - 1 /\ (k + 1) + 1 = k + 2
        BY <1>1, <2>5
      <4> QED
        BY <4>6, <4>7
    <3> QED
      BY <3>1, <3>2
  <2> HIDE DEF T
  <2>6. \A k \in 0..n - 1 : k \in T
    BY <2>1, <2>4, <2>5, UpTo
  <2>7. n - 1 \in T /\ (n - 1) + 1 = n
    BY <1>1, <2>1, <2>6
  <2>8. f[n] = first \o g[n - 1]
    BY <2>1, <2>7 DEF T
  <2> QED
    BY <1>4, <2>2, <2>8 DEF rest, first
<1> QED
  BY <1>6, <1>7

-----------------------------------------------------------------------------
(* The operators of Framing.                                                *)

\* A message is written as bytes.
LEMMA SerializeType ==
  ASSUME NEW m \in Outbox
  PROVE  Serialize(m) \in Seq(Byte)
<1>1. /\ m.type \in Byte /\ m.topic \in Seq(Byte) /\ m.jsonbody \in Seq(Byte)
      /\ Len(m.topic) \in 0..127 /\ Len(m.jsonbody) \in 0..127
  <2>1. m \in Message /\ Len(m.topic) < 128 /\ Len(m.jsonbody) < 128
    BY OutboxIsShort
  <2>2. m.type \in Byte /\ m.topic \in Seq(Byte) /\ m.jsonbody \in Seq(Byte)
    BY <2>1 DEF Message
  <2>3. Len(m.topic) \in Nat /\ Len(m.jsonbody) \in Nat
    BY <2>2, LenProperties
  <2>4. \A n \in Nat : n < 128 => n \in 0..127
    OBVIOUS
  <2>5. Len(m.topic) \in 0..127 /\ Len(m.jsonbody) \in 0..127
    BY <2>1, <2>3, <2>4, Zenon
  <2> QED
    BY <2>2, <2>5
<1>2. ASSUME NEW tag \in Byte, NEW text \in Seq(Byte), Len(text) \in 0..127
      PROVE  WriteString(tag, text) \in Seq(Byte)
  <2>1. <<tag, Len(text)>> \in Seq(Byte)
    BY <1>2 DEF Byte
  <2> QED
    BY <2>1 DEF WriteString
<1>3. 8 \in Byte /\ 18 \in Byte /\ 26 \in Byte
  BY DEF Byte
<1>4. WriteString(18, m.topic) \in Seq(Byte) /\ WriteString(26, m.jsonbody) \in Seq(Byte)
  BY <1>1, <1>2, <1>3
<1>5. (IF m.type # 0 THEN <<8, m.type>> ELSE <<>>) \in Seq(Byte)
  BY <1>1, <1>3
<1> QED
  BY <1>4, <1>5 DEF Serialize

\* So are messages.
LEMMA BytesType ==
  ASSUME NEW ms \in Seq(Outbox)
  PROVE  Bytes(ms) \in Seq(Byte) /\ Len(Bytes(ms)) \in Nat
<1>1. [k \in DOMAIN ms |-> Serialize(ms[k])] \in Seq(Seq(Byte))
  <2>1. DOMAIN ms = 1..Len(ms) /\ Len(ms) \in Nat /\ \A k \in 1..Len(ms) : ms[k] \in Outbox
    BY LenProperties
  <2>2. [k \in 1..Len(ms) |-> Serialize(ms[k])] \in [1..Len(ms) -> Seq(Byte)]
    BY <2>1, SerializeType
  <2> QED
    BY <2>1, <2>2, SeqDef
<1> QED
  BY <1>1, FlattenType, LenProperties DEF Bytes

\* The first zero ends a C string.
LEMMA CStringType ==
  ASSUME NEW bytes \in Seq(Byte)
  PROVE  CString(bytes) \in Seq(Byte)
<1> DEFINE n == Len(bytes)
           I == {i \in 1..Len(bytes \o <<0>>) : (bytes \o <<0>>)[i] = 0}
<1>1. n \in Nat /\ \A i \in 1..n : bytes[i] \in Byte
  BY LenProperties
<1>2. I \subseteq 1..n + 1 /\ n + 1 \in I
  BY <1>1 DEF Byte
<1>3. CString(bytes) = SubSeq(bytes, 1, Min(I) - 1)
  BY <1>2 DEF CString, SelectInSeq
<1> HIDE DEF I
<1>4. Min(I) \in 1..n + 1
  <2>1. I \subseteq Nat /\ I # {}
    BY <1>1, <1>2
  <2> QED
    BY <1>2, <2>1, MinIsLeast
<1> QED
  BY <1>1, <1>3, <1>4, SubSeqProperties

\* What has been received whole can be told from what has not.
LEMMA DoneExists ==
  ASSUME NEW ms \in Seq(Outbox), NEW through \in Nat
  PROVE  \E k \in 0..Len(ms) :
           /\ Len(Bytes(SubSeq(ms, 1, k))) <= through
           /\ k < Len(ms) => Len(Bytes(SubSeq(ms, 1, k + 1))) > through
<1> DEFINE size(k) == Len(Bytes(SubSeq(ms, 1, k)))
           T == {k \in 0..Len(ms) : size(k) <= through}
<1>1. Len(ms) \in Nat /\ \A k \in 0..Len(ms) : size(k) \in Nat
  BY BytesType, LenProperties
<1>2. size(0) = 0
  BY FlattenEmpty DEF Bytes
<1> HIDE DEF size
<1> SUFFICES ASSUME ~ \E k \in 0..Len(ms) :
                        size(k) <= through /\ (k < Len(ms) => size(k + 1) > through)
             PROVE  FALSE
  BY DEF size
<1>3. 0 \in T
  BY <1>1, <1>2
<1>4. ASSUME NEW k \in 0..Len(ms), k \in T, k < Len(ms) PROVE k + 1 \in T
  BY <1>1, <1>4
<1>5. \A k \in 0..Len(ms) : k \in T
  <2> HIDE DEF T
  <2> QED
    BY <1>1, <1>3, <1>4, UpTo
<1> QED
  BY <1>1, <1>5

\* The search stays inside the string and nine bytes away from where it began.
LEMMA FindInside ==
  ASSUME buffer \in Seq(Byte), NEW old \in Nat
  PROVE  /\ Find(old) = npos \/ Find(old) \in old + Minimum .. Len(buffer) - 1
         /\ Find(old) \in Int
<1> DEFINE I == {i \in old + Minimum + 1 .. Len(buffer) : buffer[i] = Delimiter}
<1>1. Len(buffer) \in Nat
  BY LenProperties
<1>2. Find(old) = (IF I # {} THEN Min(I) ELSE 0) - 1
  BY DEF Find, SelectInSubSeq
<1>3. I \subseteq old + Minimum + 1 .. Len(buffer) /\ I \subseteq Nat
  BY <1>1 DEF Minimum
<1> HIDE DEF I
<1>4. CASE I = {}
  BY <1>2, <1>4 DEF npos
<1>5. CASE I # {}
  <2>1. Min(I) \in old + Minimum + 1 .. Len(buffer)
    BY <1>3, <1>5, MinIsLeast
  <2> QED
    BY <1>1, <1>2, <1>5, <2>1 DEF Minimum
<1> QED
  BY <1>4, <1>5

\* What a sequence ends in is its suffix.
LEMMA EndIsSuffix ==
  ASSUME NEW S, NEW s \in Seq(S), NEW u \in Seq(S)
  PROVE  IsSuffix(s, u \o s)
<1> DEFINE t == u \o s
           n == Len(s)
<1>1. /\ n \in Nat /\ Len(t) \in Nat /\ Len(t) = Len(u) + n /\ Len(u) \in Nat /\ t \in Seq(S)
      /\ \A i \in 1..n : t[Len(u) + i] = s[i]
  BY ConcatProperties, LenProperties
<1> HIDE DEF t
<1>2. /\ Len(Reverse(s)) = n /\ Len(Reverse(t)) = Len(t)
      /\ Reverse(s) \in Seq(S) /\ Reverse(t) \in Seq(S)
  BY <1>1 DEF Reverse
<1>3. ASSUME NEW i \in 1..n PROVE Reverse(s)[i] = Reverse(t)[i]
  <2>1. Reverse(s)[i] = s[(n - i) + 1] /\ Reverse(t)[i] = t[(Len(t) - i) + 1]
    BY <1>1 DEF Reverse
  <2>2. (Len(t) - i) + 1 = Len(u) + ((n - i) + 1) /\ (n - i) + 1 \in 1..n
    BY <1>1
  <2> QED
    BY <1>1, <2>1, <2>2
<1>4. SubSeq(Reverse(s), 1, n) = SubSeq(Reverse(t), 1, n)
  BY <1>1, <1>2, <1>3
<1> QED
  BY <1>1, <1>2, <1>4 DEF IsSuffix, IsPrefix, t

-----------------------------------------------------------------------------
(* Reading a message back.                                                  *)

\* The parser goes on, or has ended.
Going(input, message) == State(input, message, TRUE)
Ended(input, message) == State(input, message, FALSE)

LEMMA SkipIs ==
  ASSUME NEW i, NEW m, NEW n, n <= Len(i)
  PROVE  Skip(Going(i, m), n) = Going(Beyond(i, n), m)
<1> DEFINE s == Going(i, m)
<1>1. s.input = i /\ s.message = m
  BY DEF Going, State
<1> HIDE DEF s
<1>2. Skip(s, n) = [input |-> Beyond(i, n), message |-> m, more |-> n <= Len(i)]
  BY <1>1 DEF Skip, State
<1>3. Skip(s, n) = [input |-> Beyond(i, n), message |-> m, more |-> TRUE]
  BY <1>2
<1> QED
  BY <1>3 DEF s, Going, State

\* A round begins with the tag.
LEMMA RoundIs ==
  ASSUME NEW s, s.more, s.input # <<>>
  PROVE  /\ s.input[1] = 8 => ReadField(s) = ReadEnum(Skip(s, 1))
         /\ s.input[1] = 18 => ReadField(s) = ReadString(Skip(s, 1), "topic")
         /\ s.input[1] = 26 => ReadField(s) = ReadString(Skip(s, 1), "jsonbody")
<1>1. CASE s.input[1] = 8
  BY <1>1 DEF ReadField, HasVarint
<1>2. CASE s.input[1] = 18
  BY <1>2 DEF ReadField, HasVarint
<1>3. CASE s.input[1] = 26
  BY <1>3 DEF ReadField, HasVarint
<1> QED
  BY <1>1, <1>2, <1>3

\* The bytes that follow the first ones.
LEMMA AfterFirst ==
  ASSUME NEW x \in Byte, NEW rest \in Seq(Byte)
  PROVE  LET i == <<x>> \o rest
         IN  /\ i \in Seq(Byte) /\ i # <<>> /\ i[1] = x
             /\ Len(i) = Len(rest) + 1 /\ Len(rest) \in Nat /\ 1 <= Len(i)
             /\ Beyond(i, 1) = rest
<1> DEFINE i == <<x>> \o rest
<1>1. i \in Seq(Byte) /\ Len(i) = Len(rest) + 1 /\ Len(rest) \in Nat /\ i[1] = x /\ i # <<>>
  BY LenProperties
<1>2. \A k \in 1..Len(rest) : i[k + 1] = rest[k]
  BY LenProperties
<1> HIDE DEF i
<1>3. SubSeq(i, 1 + 1, Len(i)) = rest
  BY <1>1, <1>2
<1> QED
  BY <1>1, <1>3 DEF i, Beyond

\* The bytes that follow a text of the length given before it.
LEMMA AfterText ==
  ASSUME NEW n \in 0..127, NEW text \in Seq(Byte), NEW rest \in Seq(Byte), Len(text) = n
  PROVE  LET i == <<n>> \o (text \o rest)
         IN  /\ i \in Seq(Byte) /\ i # <<>> /\ i[1] = n /\ n + 1 <= Len(i)
             /\ SubSeq(i, 2, Min({n + 1, Len(i)})) = text
             /\ Beyond(i, n + 1) = rest
<1> DEFINE i == <<n>> \o (text \o rest)
<1>1. n \in Nat /\ n \in Byte /\ text \o rest \in Seq(Byte) /\ Len(rest) \in Nat
      /\ Len(text \o rest) = n + Len(rest)
  <2> HIDE DEF i
  <2>1. Len(rest) \in Nat /\ n \in 0..255
    BY LenProperties
  <2>2. text \o rest \in Seq(Byte) /\ Len(text \o rest) = Len(text) + Len(rest)
    OBVIOUS
  <2> QED
    BY <2>1, <2>2 DEF Byte
<1>2. /\ i \in Seq(Byte) /\ i # <<>> /\ i[1] = n /\ Len(i) = n + Len(rest) + 1
      /\ \A k \in 1..n : i[k + 1] = text[k]
      /\ \A k \in 1..Len(rest) : i[k + n + 1] = rest[k]
  <2>1. /\ \A k \in 1..n : (text \o rest)[k] = text[k]
        /\ \A k \in 1..Len(rest) : (text \o rest)[k + n] = rest[k]
    BY <1>1
  <2> DEFINE both == text \o rest
  <2>2. both \in Seq(Byte) /\ Len(both) = n + Len(rest)
    BY <1>1
  <2>3. /\ \A k \in 1..n : both[k] = text[k]
        /\ \A k \in 1..Len(rest) : both[k + n] = rest[k]
    BY <2>1
  <2> HIDE DEF both
  <2>4. LET j == <<n>> \o both
        IN  /\ j \in Seq(Byte) /\ j # <<>> /\ j[1] = n /\ Len(j) = Len(both) + 1
            /\ \A k \in 1..Len(both) : j[k + 1] = both[k]
    BY <1>1, <2>2
  <2>5. \A k \in 1..Len(rest) : k + n \in 1..Len(both)
    BY <1>1, <2>2
  <2>6. \A k \in 1..n : k \in 1..Len(both)
    BY <1>1, <2>2
  <2> QED
    BY <1>1, <2>2, <2>3, <2>4, <2>5, <2>6 DEF both
<1> HIDE DEF i
<1>3. Min({n + 1, Len(i)}) = n + 1
  <2> DEFINE T == {n + 1, Len(i)}
  <2>1. T \subseteq Nat /\ T # {} /\ n + 1 \in T /\ \A x \in T : x \in Nat /\ x >= n + 1
    BY <1>1, <1>2
  <2> HIDE DEF T
  <2>2. Min(T) \in T /\ \A y \in T : Min(T) <= y
    BY <2>1, MinIsLeast
  <2>3. Min(T) \in Nat /\ Min(T) >= n + 1 /\ Min(T) <= n + 1
    BY <2>1, <2>2
  <2>4. Min(T) = n + 1
    BY <1>1, <2>3
  <2> QED
    BY <2>4 DEF T
<1>4. SubSeq(i, 2, n + 1) = text
  BY <1>1, <1>2
<1>5. SubSeq(i, n + 1 + 1, Len(i)) = rest
  BY <1>1, <1>2
<1>6. n + 1 <= Len(i) /\ Beyond(i, n + 1) = rest
  BY <1>1, <1>2, <1>5 DEF Beyond
<1>7. SubSeq(i, 2, Min({n + 1, Len(i)})) = text
  BY <1>3, <1>4
<1> QED
  BY <1>2, <1>6, <1>7, Zenon DEF i

\* A field of a message is set.
LEMMA SetField ==
  ASSUME NEW a, NEW b, NEW c, NEW x, NEW m,
         m = [type |-> a, topic |-> b, jsonbody |-> c]
  PROVE  /\ [m EXCEPT !.type = x] = [type |-> x, topic |-> b, jsonbody |-> c]
         /\ [m EXCEPT !.topic = x] = [type |-> a, topic |-> x, jsonbody |-> c]
         /\ [m EXCEPT !.jsonbody = x] = [type |-> a, topic |-> b, jsonbody |-> x]
  OBVIOUS

\* The type.
LEMMA ReadsType ==
  ASSUME NEW type \in 0..127, NEW rest \in Seq(Byte), NEW m
  PROVE  ReadField(Going(<<8>> \o (<<type>> \o rest), m))
           = Going(rest, [m EXCEPT !.type = type])
<1> DEFINE back == <<type>> \o rest
           all == <<8>> \o back
<1>1. type \in Byte /\ 8 \in Byte
  BY DEF Byte
<1>2. /\ back \in Seq(Byte) /\ back # <<>> /\ back[1] = type /\ 1 <= Len(back)
      /\ Beyond(back, 1) = rest
  BY <1>1, AfterFirst
<1> HIDE DEF back
<1>3. all # <<>> /\ all[1] = 8 /\ Beyond(all, 1) = back /\ 1 <= Len(all)
  BY <1>1, <1>2, AfterFirst
<1> HIDE DEF all
<1>4. Skip(Going(all, m), 1) = Going(back, m)
  BY <1>3, SkipIs
<1>5. ReadField(Going(all, m)) = ReadEnum(Going(back, m))
  <2> DEFINE s == Going(all, m)
  <2>1. s.more /\ s.input = all
    BY DEF Going, State
  <2> HIDE DEF s
  <2>2. ReadField(s) = ReadEnum(Skip(s, 1))
    BY <1>3, <2>1, RoundIs
  <2> QED
    BY <1>4, <2>2 DEF s
<1>6. ReadEnum(Going(back, m)) = Going(rest, [m EXCEPT !.type = type])
  <2>1. HasVarint(back)
    BY <1>2 DEF HasVarint
  <2> DEFINE s == Going(back, m)
  <2>2. s.input = back /\ s.message = m
    BY DEF Going, State
  <2> HIDE DEF s
  <2>3. ReadEnum(s) = Going(rest, [m EXCEPT !.type = type])
    BY <1>2, <2>1, <2>2 DEF ReadEnum, Going
  <2> QED
    BY <2>3 DEF s
<1> QED
  BY <1>5, <1>6 DEF all, back

\* What the parser can take for text: lengths take one byte, as do characters.
IsText(t) == t \in Seq(Byte) /\ Len(t) \in 0..127 /\ \A k \in 1..Len(t) : t[k] < 128

\* A text behind one of two tags.
FieldOf(tag, field) ==
  (tag = 18 /\ field = "topic") \/ (tag = 26 /\ field = "jsonbody")
Coded(tag, text, rest) == <<tag>> \o (<<Len(text)>> \o (text \o rest))
With(m, field, text) == [m EXCEPT ![field] = text]
Blank(m, field) == With(m, field, <<>>) = m

LEMMA ReadsText ==
  ASSUME NEW tag, NEW field, FieldOf(tag, field), NEW text, IsText(text),
         NEW rest \in Seq(Byte), NEW m
  PROVE  ReadField(Going(Coded(tag, text, rest), m)) = Going(rest, With(m, field, text))
<1> DEFINE n == Len(text)
           back == <<n>> \o (text \o rest)
           all == <<tag>> \o back
<1>1. /\ tag \in Byte /\ n \in 0..127 /\ text \in Seq(Byte)
      /\ \A k \in 1..n : text[k] < 128
  BY DEF FieldOf, Byte, IsText
<1>2. /\ back \in Seq(Byte) /\ back # <<>> /\ back[1] = n /\ n + 1 <= Len(back)
      /\ SubSeq(back, 2, Min({n + 1, Len(back)})) = text /\ Beyond(back, n + 1) = rest
  BY <1>1, AfterText, Zenon
<1>3. DOMAIN text = 1..n
  BY <1>1, LenProperties
<1>4. Coded(tag, text, rest) = all
  BY DEF Coded
<1> HIDE DEF n, back
<1>5. all # <<>> /\ all[1] = tag /\ Beyond(all, 1) = back /\ 1 <= Len(all)
  BY <1>1, <1>2, AfterFirst
<1> HIDE DEF all
<1>6. Skip(Going(all, m), 1) = Going(back, m)
  BY <1>5, SkipIs
<1>7. ReadField(Going(all, m)) = ReadString(Going(back, m), field)
  <2> DEFINE s == Going(all, m)
  <2>1. s.more /\ s.input = all
    BY DEF Going, State
  <2> HIDE DEF s
  <2>2. ReadField(s) = ReadString(Skip(s, 1), field)
    BY <1>5, <2>1, RoundIs DEF FieldOf
  <2> QED
    BY <1>6, <2>2 DEF s
<1>8. ReadString(Going(back, m), field) = Going(rest, With(m, field, text))
  <2> DEFINE s == Going(back, m)
             whole == n < Len(back) /\ \A k \in DOMAIN text : text[k] < 128
  <2>1. HasVarint(back)
    BY <1>1, <1>2 DEF HasVarint
  <2>2. s.input = back /\ s.message = m
    BY DEF Going, State
  <2> HIDE DEF s
  <2>3. whole
    <3>1. n < Len(back)
      BY <1>1, <1>2, LenProperties
    <3> QED
      BY <1>1, <1>3, <3>1
  <2> HIDE DEF whole
  <2>4. ReadString(s, field) = State(rest, With(m, field, text), whole)
    BY <1>2, <2>1, <2>2 DEF ReadString, With, whole
  <2>5. State(rest, With(m, field, text), whole) = Going(rest, With(m, field, text))
    BY <2>3 DEF Going, State
  <2> QED
    BY <2>4, <2>5 DEF s
<1> QED
  BY <1>4, <1>7, <1>8

\* f goes through the parser's states, one for each round.
Runs(f, bytes) ==
  /\ f[0] = Going(bytes, NewMessage)
  /\ \A n \in 1..Len(bytes) : f[n] = ReadField(f[n - 1])

\* Each parse has such a function.
LEMMA RunExists ==
  ASSUME NEW bytes \in Seq(Byte)
  PROVE  \E f : Runs(f, bytes) /\ Parse(bytes) = f[Len(bytes)].message
<1> DEFINE N == Len(bytes)
           start == Going(bytes, NewMessage)
           Is(f) == f = [n \in 0..N |-> IF n = 0 THEN start ELSE ReadField(f[n - 1])]
           Good(f, n) == f[0] = start /\ \A k \in 1..n : f[k] = ReadField(f[k - 1])
           T == {n \in 0..N : \E f : Good(f, n)}
<1>1. N \in Nat
  BY LenProperties
<1> HIDE DEF N, start
<1>2. 0 \in T
  <2> DEFINE f == [n \in 0..0 |-> start]
  <2>1. Good(f, 0) /\ 0 \in 0..N
    BY <1>1
  <2> HIDE DEF f, Good
  <2> QED
    BY <2>1
<1>3. ASSUME NEW n \in 0..N, n \in T, n < N PROVE n + 1 \in T
  <2>1. PICK f : Good(f, n)
    BY <1>3
  <2> DEFINE g == [k \in 0..n + 1 |-> IF k <= n THEN f[k] ELSE ReadField(f[n])]
  <2>2. Good(g, n + 1)
    <3>1. g[0] = start
      BY <1>1, <2>1
    <3>2. ASSUME NEW k \in 1..n PROVE g[k] = ReadField(g[k - 1])
      <4>1. g[k] = f[k] /\ g[k - 1] = f[k - 1]
        OBVIOUS
      <4> QED
        BY <2>1, <4>1
    <3>3. g[n + 1] = ReadField(g[n]) /\ (n + 1) - 1 = n
      OBVIOUS
    <3> HIDE DEF g
    <3>4. \A k \in 1..n + 1 : k \in 1..n \/ k = n + 1
      OBVIOUS
    <3> QED
      BY <3>1, <3>2, <3>3, <3>4
  <2>3. n + 1 \in 0..N
    BY <1>1, <1>3
  <2> HIDE DEF Good, g
  <2> QED
    BY <2>2, <2>3, Zenon
<1>4. N \in T
  <2>1. \A n \in 0..N : n \in T
    <3> HIDE DEF T
    <3> QED
      BY <1>1, <1>2, <1>3, UpTo
  <2> QED
    BY <1>1, <2>1
<1>5. PICK f : Good(f, N)
  BY <1>4
<1> DEFINE h == [n \in 0..N |-> f[n]]
<1>6. Is(h)
  <2>1. ASSUME NEW n \in 0..N PROVE h[n] = IF n = 0 THEN start ELSE ReadField(h[n - 1])
    <3>1. CASE n = 0
      BY <1>5, <3>1
    <3>2. CASE n # 0
      <4>1. n \in 1..N /\ n - 1 \in 0..N
        BY <1>1, <3>2
      <4> QED
        BY <1>5, <4>1
    <3> QED
      BY <3>1, <3>2
  <2> DEFINE r == [n \in 0..N |-> IF n = 0 THEN start ELSE ReadField(h[n - 1])]
  <2>2. h = r
    BY <2>1
  <2> QED
    BY <2>2
<1> DEFINE after == CHOOSE g : Is(g)
<1>7. Is(after)
  <2> HIDE DEF Is, h
  <2> QED
    BY <1>6, Zenon
<1>8. Parse(bytes) = after[N].message
  BY DEF Parse, N, start, Going
<1> HIDE DEF after
<1>9. after[0] = start /\ \A n \in 1..N : after[n] = ReadField(after[n - 1])
  BY <1>1, <1>7
<1> QED
  BY <1>8, <1>9 DEF Runs, N, start

\* A parse that has stopped, or cannot go on, changes nothing any more.
LEMMA RunStops ==
  ASSUME NEW bytes \in Seq(Byte), NEW f, Runs(f, bytes), NEW k \in 0..Len(bytes),
         NEW m, f[k].message = m, ~f[k].more \/ ~HasVarint(f[k].input)
  PROVE  f[Len(bytes)].message = m
<1> DEFINE N == Len(bytes)
           T == {n \in 0..N : n >= k => f[n].message = m /\ (~f[n].more \/ ~HasVarint(f[n].input))}
<1>1. N \in Nat /\ k \in 0..N
  BY LenProperties
<1>2. \A n \in 1..N : f[n] = ReadField(f[n - 1])
  BY DEF Runs
<1> HIDE DEF N
<1>3. 0 \in T
  BY <1>1
<1>4. ASSUME NEW n \in 0..N, n \in T, n < N PROVE n + 1 \in T
  <2>1. f[n + 1] = ReadField(f[n]) /\ n + 1 \in 0..N
    <3>1. n + 1 \in 1..N /\ (n + 1) - 1 = n
      BY <1>1, <1>4
    <3> QED
      BY <1>2, <3>1
  <2>2. CASE n >= k
    <3>1. f[n].message = m /\ (~f[n].more \/ ~HasVarint(f[n].input))
      BY <1>4, <2>2
    <3>2. ReadField(f[n]) = Stop(f[n])
      BY <3>1 DEF ReadField
    <3>3. f[n + 1].message = m /\ ~f[n + 1].more
      BY <2>1, <3>1, <3>2 DEF Stop, State
    <3> QED
      BY <2>1, <3>3
  <2>3. CASE n < k
    <3>1. n + 1 >= k => n + 1 = k
      BY <1>1, <2>3
    <3> QED
      BY <2>1, <3>1
  <2> QED
    BY <1>1, <2>2, <2>3
<1>5. \A n \in 0..N : n \in T
  <2> HIDE DEF T
  <2> QED
    BY <1>1, <1>3, <1>4, UpTo
<1> QED
  BY <1>1, <1>5 DEF N

\* The parse has come to where i is left, with rounds enough to read it.
Reached(f, bytes, i, m) ==
  \E k \in 0..Len(bytes) : f[k] = Going(i, m) /\ k + Len(i) <= Len(bytes)

\* One more round.
LEMMA ReachedNext ==
  ASSUME NEW bytes \in Seq(Byte), NEW f, Runs(f, bytes),
         NEW i \in Seq(Byte), NEW m, Reached(f, bytes, i, m),
         NEW j \in Seq(Byte), Len(j) < Len(i), NEW l,
         ReadField(Going(i, m)) = Going(j, l)
  PROVE  Reached(f, bytes, j, l)
<1>1. PICK k \in 0..Len(bytes) : f[k] = Going(i, m) /\ k + Len(i) <= Len(bytes)
  BY DEF Reached
<1>2. Len(i) \in Nat /\ Len(j) \in Nat /\ Len(bytes) \in Nat
  BY LenProperties
<1>3. k + 1 \in 1..Len(bytes) /\ (k + 1) - 1 = k /\ (k + 1) + Len(j) <= Len(bytes)
      /\ k + 1 \in 0..Len(bytes)
  BY <1>1, <1>2
<1>4. f[k + 1] = Going(j, l)
  BY <1>1, <1>3 DEF Runs
<1> QED
  BY <1>3, <1>4 DEF Reached

\* Two bytes come one after the other.
LEMMA TwoFirst ==
  ASSUME NEW x \in Byte, NEW y \in Byte, NEW rest \in Seq(Byte)
  PROVE  <<x, y>> \o rest = <<x>> \o (<<y>> \o rest)
<1>1. <<x>> \in Seq(Byte) /\ <<y>> \in Seq(Byte) /\ <<x, y>> \in Seq(Byte)
  OBVIOUS
<1>2. <<x, y>> = <<x>> \o <<y>>
  <2> DEFINE t == <<x>> \o <<y>>
  <2>1. t \in Seq(Byte) /\ Len(t) = 2 /\ t[1] = x /\ t[2] = y
    OBVIOUS
  <2> HIDE DEF t
  <2>2. t = <<x, y>>
    BY <2>1
  <2> QED
    BY <2>2 DEF t
<1>3. (<<x>> \o <<y>>) \o rest = <<x>> \o (<<y>> \o rest)
  <2> DEFINE s == <<x>>
             t == <<y>>
  <2>1. s \in Seq(Byte) /\ t \in Seq(Byte)
    BY <1>1
  <2> HIDE DEF s, t
  <2>2. (s \o t) \o rest = s \o (t \o rest)
    BY <2>1, ConcatAssociative
  <2> QED
    BY <2>2 DEF s, t
<1> QED
  BY <1>2, <1>3

\* The type is read, or it is the one a message has at first.
WriteType(type) == IF type # 0 THEN <<8, type>> ELSE <<>>

LEMMA ReachedType ==
  ASSUME NEW bytes \in Seq(Byte), NEW f, Runs(f, bytes), NEW type \in 0..127,
         NEW rest \in Seq(Byte), NEW b, NEW c, NEW a, type = 0 => a = 0,
         Reached(f, bytes, WriteType(type) \o rest, [type |-> a, topic |-> b, jsonbody |-> c])
  PROVE  Reached(f, bytes, rest, [type |-> type, topic |-> b, jsonbody |-> c])
<1>1. CASE type = 0
  <2>1. WriteType(type) \o rest = rest
    BY <1>1 DEF WriteType
  <2> QED
    BY <1>1, <2>1
<1>2. CASE type # 0
  <2> DEFINE m == [type |-> a, topic |-> b, jsonbody |-> c]
             l == [type |-> type, topic |-> b, jsonbody |-> c]
             i == <<8>> \o (<<type>> \o rest)
  <2>1. type \in Byte /\ 8 \in Byte
    BY DEF Byte
  <2>2. WriteType(type) \o rest = i
    BY <1>2, <2>1, TwoFirst DEF WriteType
  <2>3. i \in Seq(Byte) /\ Len(rest) < Len(i)
    <3> DEFINE back == <<type>> \o rest
    <3>1. back \in Seq(Byte) /\ Len(back) = Len(rest) + 1 /\ Len(rest) \in Nat
      BY <2>1, AfterFirst
    <3> HIDE DEF back
    <3>2. LET all == <<8>> \o back IN all \in Seq(Byte) /\ Len(all) = Len(back) + 1
      BY <2>1, <3>1, AfterFirst
    <3> QED
      BY <3>1, <3>2 DEF back
  <2>4. [m EXCEPT !.type = type] = l
    BY SetField
  <2> HIDE DEF m, l
  <2>5. ReadField(Going(i, m)) = Going(rest, l)
    BY <2>4, ReadsType
  <2>6. Reached(f, bytes, i, m)
    BY <2>2 DEF m
  <2> HIDE DEF i
  <2>7. Reached(f, bytes, rest, l)
    BY <2>3, <2>5, <2>6, ReachedNext
  <2> QED
    BY <2>7 DEF l
<1> QED
  BY <1>1, <1>2

\* A text that is not empty is written so.
LEMMA WriteIsCoded ==
  ASSUME NEW tag \in Byte, NEW text \in Seq(Byte), text # <<>>, Len(text) \in 0..127,
         NEW rest \in Seq(Byte)
  PROVE  /\ WriteString(tag, text) \o rest = Coded(tag, text, rest)
         /\ Coded(tag, text, rest) \in Seq(Byte) /\ Len(rest) < Len(Coded(tag, text, rest))
<1> DEFINE n == Len(text)
           back == text \o rest
           all == <<n>> \o back
           i == <<tag>> \o all
           head == <<tag, n>>
<1>1. n \in 0..255
  OBVIOUS
<1>2. i = Coded(tag, text, rest) /\ WriteString(tag, text) = head \o text
  BY DEF Coded, WriteString
<1> HIDE DEF n
<1>3. n \in Byte
  BY <1>1 DEF Byte
<1>4. head \in Seq(Byte)
  BY <1>3
<1>5. back \in Seq(Byte) /\ Len(rest) <= Len(back) /\ Len(rest) \in Nat
  <2> HIDE DEF all, head
  <2> QED
    BY ConcatProperties, LenProperties
<1>6. (head \o text) \o rest = head \o back
  <2>1. head \in Seq(Byte) /\ text \in Seq(Byte)
    BY <1>1, <1>4
  <2> HIDE DEF head, all
  <2> QED
    BY <2>1
<1> HIDE DEF back
<1>7. head \o back = i
  BY <1>3, <1>5, TwoFirst
<1> HIDE DEF head
<1>8. all \in Seq(Byte) /\ Len(all) = Len(back) + 1 /\ Len(back) \in Nat
  BY <1>3, <1>5, AfterFirst
<1> HIDE DEF all
<1>9. i \in Seq(Byte) /\ Len(i) = Len(all) + 1
  BY <1>8, AfterFirst
<1> HIDE DEF i
<1>10. Len(rest) < Len(i)
  BY <1>5, <1>8, <1>9
<1> QED
  BY <1>2, <1>6, <1>7, <1>9, <1>10

\* So is a text.
LEMMA ReachedText ==
  ASSUME NEW bytes \in Seq(Byte), NEW f, Runs(f, bytes), NEW tag, NEW field, FieldOf(tag, field),
         NEW text, IsText(text), NEW rest \in Seq(Byte), NEW m, Blank(m, field),
         Reached(f, bytes, WriteString(tag, text) \o rest, m)
  PROVE  Reached(f, bytes, rest, With(m, field, text))
<1>1. CASE text = <<>>
  <2>1. WriteString(tag, text) \o rest = rest
    BY <1>1 DEF WriteString
  <2>2. With(m, field, text) = m
    BY <1>1 DEF Blank
  <2> QED
    BY <2>1, <2>2
<1>2. CASE text # <<>>
  <2> DEFINE i == Coded(tag, text, rest)
  <2>1. ReadField(Going(i, m)) = Going(rest, With(m, field, text))
    BY ReadsText
  <2>2. tag \in Byte /\ text \in Seq(Byte) /\ Len(text) \in 0..127
    BY DEF IsText, FieldOf, Byte
  <2>3. WriteString(tag, text) \o rest = i /\ i \in Seq(Byte) /\ Len(rest) < Len(i)
    BY <1>2, <2>2, WriteIsCoded
  <2>4. Reached(f, bytes, i, m)
    BY <2>3
  <2> HIDE DEF i
  <2> QED
    BY <2>1, <2>3, <2>4, ReachedNext
<1> QED
  BY <1>1, <1>2

Plain(m) == m \in Message /\ m.type \in 0..127 /\ IsText(m.topic) /\ IsText(m.jsonbody)

\* A message is read whatever follows it.
LEMMA ReadsMessage ==
  ASSUME NEW m, Plain(m), NEW rest \in Seq(Byte)
  PROVE  LET bytes == Serialize(m) \o rest
         IN  /\ bytes \in Seq(Byte)
             /\ \E f : /\ Runs(f, bytes) /\ Parse(bytes) = f[Len(bytes)].message
                       /\ Reached(f, bytes, rest, m)
<1> DEFINE type == m.type
           topic == m.topic
           json == m.jsonbody
           second == WriteString(18, topic)
           third == WriteString(26, json)
           bytes == Serialize(m) \o rest
<1>1. /\ m = [type |-> type, topic |-> topic, jsonbody |-> json]
      /\ type \in 0..127 /\ IsText(topic) /\ IsText(json)
  <2>1. m \in Message /\ m.type \in 0..127 /\ IsText(m.topic) /\ IsText(m.jsonbody)
    BY DEF Plain
  <2>2. m = [type |-> m.type, topic |-> m.topic, jsonbody |-> m.jsonbody] 
    BY <2>1 DEF Message
  <2> QED
    BY <2>1, <2>2
<1> HIDE DEF type, topic, json
<1>2. /\ Serialize(m) = (WriteType(type) \o second) \o third
      /\ WriteType(type) \in Seq(Byte) /\ second \in Seq(Byte) /\ third \in Seq(Byte)
  <2>1. Serialize(m) = (WriteType(type) \o second) \o third
    BY DEF Serialize, WriteType, type, topic, json
  <2>2. WriteType(type) \in Seq(Byte)
    <3>1. type \in Byte /\ 8 \in Byte
      BY <1>1 DEF Byte
    <3> QED
      BY <3>1 DEF WriteType
  <2>3. ASSUME NEW tag \in {18, 26}, NEW text, IsText(text)
        PROVE  WriteString(tag, text) \in Seq(Byte)
    <3>1. tag \in Byte /\ Len(text) \in Byte /\ text \in Seq(Byte)
      <4>1. text \in Seq(Byte) /\ Len(text) \in 0..127
        BY <2>3 DEF IsText
      <4>2. Len(text) \in 0..255 /\ tag \in 0..255
        BY <4>1
      <4> QED
        BY <4>1, <4>2 DEF Byte
    <3> QED
      BY <3>1 DEF WriteString
  <2> QED
    BY <1>1, <2>1, <2>2, <2>3
<1> HIDE DEF second, third
<1> DEFINE first == WriteType(type)
<1>3. bytes = first \o (second \o (third \o rest)) /\ bytes \in Seq(Byte)
      /\ third \o rest \in Seq(Byte) /\ second \o (third \o rest) \in Seq(Byte)
  <2> HIDE DEF first
  <2>1. /\ first \o second \in Seq(Byte) /\ (first \o second) \o third \in Seq(Byte)
        /\ third \o rest \in Seq(Byte) /\ second \o (third \o rest) \in Seq(Byte)
        /\ ((first \o second) \o third) \o rest \in Seq(Byte)
    BY <1>2, ConcatProperties DEF first
  <2>2. ((first \o second) \o third) \o rest = (first \o second) \o (third \o rest)
    <3> DEFINE two == first \o second
    <3>1. two \in Seq(Byte) /\ third \in Seq(Byte)
      BY <1>2, <2>1
    <3> HIDE DEF two
    <3>2. (two \o third) \o rest = two \o (third \o rest)
      BY <3>1, ConcatAssociative
    <3> QED
      BY <3>2 DEF two
  <2>3. (first \o second) \o (third \o rest) = first \o (second \o (third \o rest))
    <3> DEFINE back == third \o rest
    <3>1. first \in Seq(Byte) /\ second \in Seq(Byte) /\ back \in Seq(Byte)
      BY <1>2, <2>1 DEF first
    <3> HIDE DEF back
    <3>2. (first \o second) \o back = first \o (second \o back)
      BY <3>1, ConcatAssociative, SMTT(60)
    <3> QED
      BY <3>2 DEF back
  <2> QED
    BY <1>2, <2>1, <2>2, <2>3 DEF first
<1> HIDE DEF bytes, first
<1>4. PICK f : Runs(f, bytes) /\ Parse(bytes) = f[Len(bytes)].message
  BY <1>3, RunExists
<1>5. Reached(f, bytes, bytes, NewMessage)
  <2>1. f[0] = Going(bytes, NewMessage) /\ Len(bytes) \in Nat
    BY <1>3, <1>4, LenProperties DEF Runs
  <2>2. 0 \in 0..Len(bytes) /\ 0 + Len(bytes) <= Len(bytes)
    BY <2>1
  <2> QED
    BY <2>1, <2>2 DEF Reached
<1>6. Reached(f, bytes, second \o (third \o rest), [type |-> type, topic |-> <<>>, jsonbody |-> <<>>])
  <2>1. Reached(f, bytes, first \o (second \o (third \o rest)), [type |-> 0, topic |-> <<>>, jsonbody |-> <<>>])
    BY <1>3, <1>5 DEF NewMessage, SUBSCRIBE
  <2> QED
    BY <1>1, <1>3, <1>4, <2>1, ReachedType DEF first
<1>7. Reached(f, bytes, third \o rest, [type |-> type, topic |-> topic, jsonbody |-> <<>>])
  <2> DEFINE a == [type |-> type, topic |-> <<>>, jsonbody |-> <<>>]
             b == [type |-> type, topic |-> topic, jsonbody |-> <<>>]
  <2>1. With(a, "topic", topic) = b
    BY SetField DEF With
  <2>2. Blank(a, "topic")
    BY SetField DEF With, Blank
  <2>3. Reached(f, bytes, WriteString(18, topic) \o (third \o rest), a)
    BY <1>6 DEF second
  <2> HIDE DEF a, b
  <2>4. FieldOf(18, "topic")
    BY DEF FieldOf
  <2>5. Reached(f, bytes, third \o rest, b)
    BY <1>1, <1>3, <1>4, <2>1, <2>2, <2>3, <2>4, ReachedText
  <2> QED
    BY <2>5 DEF b
<1>8. Reached(f, bytes, rest, m)
  <2> DEFINE a == [type |-> type, topic |-> topic, jsonbody |-> <<>>]
  <2>1. With(a, "jsonbody", json) = m
    BY <1>1, SetField DEF With
  <2>2. Blank(a, "jsonbody")
    BY SetField DEF With, Blank
  <2>3. Reached(f, bytes, WriteString(26, json) \o rest, a)
    BY <1>7 DEF third
  <2> HIDE DEF a
  <2>4. FieldOf(26, "jsonbody")
    BY DEF FieldOf
  <2>5. IsText(json) /\ bytes \in Seq(Byte) /\ Runs(f, bytes)
    BY <1>1, <1>3, <1>4
  <2>6. Reached(f, bytes, rest, With(a, "jsonbody", json))
    BY <2>2, <2>3, <2>4, <2>5, ReachedText
  <2> QED
    BY <2>1, <2>6, Zenon
<1> QED
  BY <1>3, <1>4, <1>8 DEF bytes

\* What Serialize writes, Parse reads: any message with a type of one byte and
\* short texts is read back, if no field follows it.
THEOREM ReadsBack ==
  ASSUME NEW m, Plain(m), NEW rest \in Seq(Byte), ~HasVarint(rest)
  PROVE  Parse(Serialize(m) \o rest) = m
<1> DEFINE bytes == Serialize(m) \o rest
<1>1. bytes \in Seq(Byte)
  BY ReadsMessage
<1>2. PICK f : /\ Runs(f, bytes) /\ Parse(bytes) = f[Len(bytes)].message
               /\ Reached(f, bytes, rest, m)
  BY ReadsMessage
<1> HIDE DEF bytes
<1>3. PICK k \in 0..Len(bytes) : f[k] = Going(rest, m)
  BY <1>2 DEF Reached
<1>4. f[k].message = m /\ ~HasVarint(f[k].input)
  BY <1>3 DEF Going, State
<1> QED
  BY <1>1, <1>2, <1>4, RunStops DEF bytes

\* and if a text is announced that does not follow.
LEMMA ReadsCut ==
  ASSUME NEW m, Plain(m)
  PROVE  Parse(Serialize(m) \o <<26>>) = m
<1> DEFINE rest == <<26>>
           bytes == Serialize(m) \o rest
<1>1. rest \in Seq(Byte) /\ rest # <<>> /\ rest[1] = 26 /\ Len(rest) = 1 /\ Beyond(rest, 1) = <<>>
  BY DEF Byte, Beyond
<1> HIDE DEF rest
<1>2. bytes \in Seq(Byte)
  BY <1>1, ReadsMessage
<1>3. PICK f : /\ Runs(f, bytes) /\ Parse(bytes) = f[Len(bytes)].message
               /\ Reached(f, bytes, rest, m)
  BY <1>1, ReadsMessage
<1> HIDE DEF bytes
<1>4. PICK k \in 0..Len(bytes) : f[k] = Going(rest, m) /\ k + Len(rest) <= Len(bytes)
  BY <1>3 DEF Reached
<1>5. k + 1 \in 1..Len(bytes) /\ k + 1 \in 0..Len(bytes) /\ (k + 1) - 1 = k
  BY <1>1, <1>2, <1>4, LenProperties
<1>6. f[k + 1] = ReadField(Going(rest, m))
  BY <1>3, <1>4, <1>5 DEF Runs
<1>7. ReadField(Going(rest, m)) = Ended(<<>>, m)
  <2> DEFINE s == Going(rest, m)
             t == Going(<<>>, m)
  <2>1. Skip(s, 1) = t
    <3>1. Skip(s, 1) = Going(Beyond(rest, 1), m)
      BY <1>1, SkipIs
    <3> QED
      BY <1>1, <3>1
  <2>2. s.more /\ s.input = rest /\ t.input = <<>> /\ t.message = m
    BY DEF Going, State
  <2>3. Stop(t) = Ended(<<>>, m)
    BY <2>2 DEF Stop, Ended, State
  <2> HIDE DEF s, t
  <2>4. ReadField(s) = ReadString(t, "jsonbody")
    BY <1>1, <2>1, <2>2, RoundIs
  <2>5. ReadString(t, "jsonbody") = Stop(t)
    BY <2>2 DEF ReadString, HasVarint
  <2> QED
    BY <2>3, <2>4, <2>5 DEF s
<1>8. f[k + 1].message = m /\ ~f[k + 1].more
  BY <1>6, <1>7 DEF Ended, State
<1> QED
  BY <1>2, <1>3, <1>5, <1>8, RunStops DEF bytes, rest

\* Only the tag of a type changes the type.
Untyped == [type : {SUBSCRIBE}, topic : Seq(Byte), jsonbody : Seq(Byte)]
NoType(s) == s.input \in Seq(Byte \ {8}) /\ s.message \in Untyped

LEMMA RoundKeepsType ==
  ASSUME NEW s, NoType(s)
  PROVE  NoType(ReadField(s))
<1>1. NoType(Stop(s))
  BY DEF NoType, Stop, State
<1>2. ASSUME NEW t, NoType(t), NEW k \in Nat PROVE NoType(Skip(t, k)) /\ Beyond(t.input, k) \in Seq(Byte \ {8})
  <2>1. t.input \in Seq(Byte \ {8}) /\ t.message \in Untyped
    BY <1>2 DEF NoType
  <2>2. Beyond(t.input, k) \in Seq(Byte \ {8})
    <3> DEFINE i == t.input
    <3>1. i \in Seq(Byte \ {8}) /\ Len(i) \in Nat
      BY <2>1, LenProperties
    <3> HIDE DEF i
    <3>2. SubSeq(i, k + 1, Len(i)) \in Seq(Byte \ {8})
      BY <3>1
    <3> QED
      BY <3>2 DEF Beyond, i
  <2>3. Skip(t, k).input = Beyond(t.input, k) /\ Skip(t, k).message = t.message
    BY DEF Skip, State
  <2> QED
    BY <2>1, <2>2, <2>3 DEF NoType
<1>3. ASSUME s.more, HasVarint(s.input) PROVE NoType(ReadField(s))
  <2> DEFINE tag == s.input[1]
             rest == Skip(s, 1)
  <2>1. NoType(rest)
    BY <1>2
  <2>2. tag \in Nat /\ tag # 8
    <3>1. s.input \in Seq(Byte \ {8}) /\ s.input # <<>>
      BY <1>3 DEF NoType, HasVarint
    <3>2. tag \in Byte \ {8}
      BY <3>1, ElementOfSeq, LenProperties
    <3> QED
      BY <3>2 DEF Byte
  <2> HIDE DEF tag, rest
  <2>3. HasVarint(rest.input) => rest.input[1] \in Nat
    <3>1. rest.input \in Seq(Byte \ {8})
      BY <2>1 DEF NoType
    <3>2. HasVarint(rest.input) => rest.input[1] \in Byte \ {8}
      BY <3>1, ElementOfSeq, LenProperties DEF HasVarint
    <3> QED
      BY <3>2 DEF Byte
  <2>4. NoType(Stop(rest))
    BY <2>1 DEF NoType, Stop, State
  <2>5. ASSUME NEW field \in {"topic", "jsonbody"} PROVE NoType(ReadString(rest, field))
    <3>1. CASE HasVarint(rest.input)
      <4> DEFINE size == rest.input[1]
                 i == rest.input
                 text == SubSeq(i, 2, Min({size + 1, Len(i)}))
                 m == rest.message
                 l == [m EXCEPT ![field] = text]
      <4>1. size \in Nat /\ i \in Seq(Byte \ {8}) /\ m \in Untyped
        BY <2>1, <2>3, <3>1 DEF NoType
      <4>2. Beyond(i, size + 1) \in Seq(Byte \ {8})
        <5>1. size + 1 \in Nat
          BY <4>1
        <5> HIDE DEF size
        <5> QED
          BY <1>2, <2>1, <5>1
      <4> HIDE DEF size, i, m
      <4>3. text \in Seq(Byte)
        <5> DEFINE T == {size + 1, Len(i)}
                   end == Min(T)
        <5>1. T \subseteq Nat /\ T # {} /\ \A x \in T : x \in Nat
          BY <4>1, LenProperties
        <5>2. Len(i) \in Nat /\ Len(i) \in T
          BY <4>1, LenProperties
        <5> HIDE DEF T
        <5>3. end \in Nat /\ end <= Len(i)
          BY <5>1, <5>2, MinIsLeast
        <5>4. \A j \in 1..Len(i) : i[j] \in Byte
          BY <4>1
        <5> HIDE DEF end
        <5>5. SubSeq(i, 2, end) \in Seq(Byte)
          BY <4>1, <5>2, <5>3, <5>4
        <5> QED
          BY <5>5 DEF end, T
      <4> HIDE DEF text
      <4>4. l \in Untyped
        BY <4>1, <4>3 DEF Untyped
      <4> HIDE DEF l
      <4>5. ReadString(rest, field).input = Beyond(i, size + 1) /\ ReadString(rest, field).message = l
        BY <3>1 DEF ReadString, State, i, size, text, l, m
      <4> QED
        BY <4>2, <4>4, <4>5 DEF NoType
    <3>2. CASE ~HasVarint(rest.input)
      BY <2>4, <3>2 DEF ReadString
    <3> QED
      BY <3>1, <3>2
  <2>6. NoType(SkipField(rest, tag))
    <3>1. \A k \in Nat : NoType(Skip(rest, k))
      BY <1>2, <2>1
    <3>2. HasVarint(rest.input) => NoType(Skip(rest, rest.input[1] + 1))
      BY <2>3, <3>1
    <3>3. NoType(Skip(rest, 1)) /\ NoType(Skip(rest, 8)) /\ NoType(Skip(rest, 4))
      BY <3>1
    <3> QED
      BY <2>4, <3>2, <3>3, Zenon DEF SkipField
  <2>7. ReadField(s) \in {ReadString(rest, "topic"), ReadString(rest, "jsonbody"), SkipField(rest, tag)}
    <3>1. ReadField(s) = CASE tag = 8  -> ReadEnum(rest)
             [] tag = 18 -> ReadString(rest, "topic")
             [] tag = 26 -> ReadString(rest, "jsonbody")
             [] OTHER    -> SkipField(rest, tag)
      BY <1>3 DEF ReadField, tag, rest
    <3> QED
      BY <2>2, <3>1
  <2> QED
    BY <2>5, <2>6, <2>7
<1>4. ASSUME ~(s.more /\ HasVarint(s.input)) PROVE NoType(ReadField(s))
  BY <1>1, <1>4 DEF ReadField
<1> QED
  BY <1>3, <1>4

\* Bytes without that tag lead to a subscription.
LEMMA ReadsSubscription ==
  ASSUME NEW bytes \in Seq(Byte \ {8})
  PROVE  Parse(bytes).type = SUBSCRIBE
<1>1. bytes \in Seq(Byte) /\ Len(bytes) \in Nat
  BY LenProperties
<1>2. PICK f : Runs(f, bytes) /\ Parse(bytes) = f[Len(bytes)].message
  BY <1>1, RunExists
<1> DEFINE N == Len(bytes)
           T == {n \in 0..N : NoType(f[n])}
<1>3. NoType(f[0])
  <2>1. f[0].input = bytes /\ f[0].message = NewMessage
    BY <1>2 DEF Runs, Going, State
  <2>2. NewMessage \in Untyped
    BY DEF NewMessage, Untyped
  <2> QED
    BY <2>1, <2>2 DEF NoType
<1>4. \A n \in 1..N : f[n] = ReadField(f[n - 1])
  BY <1>2 DEF Runs
<1>5. N \in Nat
  BY <1>1
<1> HIDE DEF N
<1>6. 0 \in T
  BY <1>3, <1>5
<1>7. ASSUME NEW n \in 0..N, n \in T, n < N PROVE n + 1 \in T
  <2>1. n + 1 \in 1..N /\ (n + 1) - 1 = n /\ n + 1 \in 0..N
    BY <1>5, <1>7
  <2>2. f[n + 1] = ReadField(f[n])
    BY <1>4, <2>1
  <2>3. NoType(f[n + 1])
    BY <1>7, <2>2, RoundKeepsType
  <2> QED
    BY <2>1, <2>3
<1>8. \A n \in 0..N : n \in T
  <2> HIDE DEF T
  <2> QED
    BY <1>5, <1>6, <1>7, UpTo
<1>9. NoType(f[N])
  BY <1>5, <1>8
<1>10. f[N].message.type = SUBSCRIBE
  BY <1>9 DEF NoType, Untyped
<1> QED
  BY <1>2, <1>10 DEF N

-----------------------------------------------------------------------------
(* A message on its own.                                                    *)

\* The message without its body, and the body's text behind its length.
Bare(m) == [m EXCEPT !.jsonbody = <<>>]
FirstPiece(m) == Serialize(Bare(m)) \o <<26>>

\* The delimiter occurs where it is searched for.
Cut(m) == \E k \in DOMAIN Serialize(m) : k > Minimum /\ Serialize(m)[k] = Delimiter

\* The shape of a message.
LEMMA ReadableIs ==
  ASSUME NEW m, Readable(m)
  PROVE  /\ m.type \in 0..127 /\ m.topic \in Seq(Letter) /\ m.jsonbody \in Seq(Letter)
         /\ Len(m.topic) \in 0..127 /\ Len(m.jsonbody) \in 0..127
         /\ m.topic \in Seq(Byte) /\ m.jsonbody \in Seq(Byte)
         /\ m = [type |-> m.type, topic |-> m.topic, jsonbody |-> m.jsonbody]
         /\ Bare(m) = [type |-> m.type, topic |-> m.topic, jsonbody |-> <<>>]
         /\ Plain(m) /\ Plain(Bare(m))
<1>1. /\ m \in Message /\ m.type < 128 /\ m.topic \in Seq(Letter) /\ m.jsonbody \in Seq(Letter)
      /\ Len(m.topic) < 128 /\ Len(m.jsonbody) < 128
  BY DEF Readable
<1>2. \A n \in Nat : n < 128 => n \in 0..127
  OBVIOUS
<1>3. Len(m.topic) \in 0..127 /\ Len(m.jsonbody) \in 0..127
  <2>1. Len(m.topic) \in Nat /\ Len(m.jsonbody) \in Nat
    BY <1>1, LenProperties
  <2> QED
    BY <1>1, <1>2, <2>1, Zenon
<1>4. m.type \in 0..127
  <2>1. m.type \in Nat
    <3>1. m.type \in Byte
      BY <1>1 DEF Message
    <3> QED
      BY <3>1 DEF Byte
  <2> QED
    BY <1>1, <1>2, <2>1, Zenon
<1>5. m = [type |-> m.type, topic |-> m.topic, jsonbody |-> m.jsonbody]
  BY <1>1 DEF Message
<1>6. Bare(m) = [type |-> m.type, topic |-> m.topic, jsonbody |-> <<>>]
  BY <1>5, SetField DEF Bare
<1>7. Letter \subseteq Byte /\ \A b \in Letter : b < 128
  BY DEF Letter, Byte
<1>8. ASSUME NEW t \in Seq(Letter), Len(t) \in 0..127 PROVE IsText(t)
  <2>1. t \in Seq(Byte)
    BY <1>7, SeqMonotonic
  <2>2. \A k \in 1..Len(t) : t[k] < 128
    BY <1>7, ElementOfSeq
  <2> QED
    BY <1>8, <2>1, <2>2 DEF IsText
<1>9. IsText(m.topic) /\ IsText(m.jsonbody) /\ IsText(<<>>)
  <2>1. IsText(<<>>)
    BY DEF IsText
  <2> QED
    BY <1>1, <1>3, <1>8, <2>1
<1>10. m.topic \in Seq(Byte) /\ m.jsonbody \in Seq(Byte)
  BY <1>9 DEF IsText
<1>11. Plain(m)
  BY <1>1, <1>4, <1>9 DEF Plain
<1>12. Plain(Bare(m))
  <2> DEFINE b == Bare(m)
  <2>1. b.type = m.type /\ b.topic = m.topic /\ b.jsonbody = <<>>
    BY <1>6
  <2>2. b \in Message
    BY <1>4, <1>6, <1>10 DEF Message, Byte
  <2> HIDE DEF b
  <2>3. b.type \in 0..127
    BY <1>4, <2>1
  <2>4. Plain(b)
    <3>1. IsText(b.topic) /\ IsText(b.jsonbody)
      BY <1>9, <2>1, Zenon
    <3> QED
      BY <2>2, <2>3, <3>1 DEF Plain
  <2> QED
    BY <2>4 DEF b
<1> QED
  BY <1>1, <1>3, <1>4, <1>5, <1>6, <1>10, <1>11, <1>12

\* Joining is associative.
LEMMA Associative ==
  \A s, t, v \in Seq(Byte) : (s \o t) \o v = s \o (t \o v)
  OBVIOUS

\* Where the elements of two sequences are when one follows the other.
LEMMA Joined ==
  ASSUME NEW S, NEW s \in Seq(S), NEW t \in Seq(S)
  PROVE  /\ s \o t \in Seq(S) /\ Len(s \o t) = Len(s) + Len(t) /\ Len(s) \in Nat /\ Len(t) \in Nat
         /\ \A k \in 1..Len(s) : (s \o t)[k] = s[k]
         /\ \A k \in 1..Len(t) : (s \o t)[Len(s) + k] = t[k]
  BY ConcatProperties, LenProperties

\* All but the body.
LEMMA BareIs ==
  ASSUME NEW m, Readable(m)
  PROVE  /\ Serialize(Bare(m)) \in Seq(1..255)
         /\ \A k \in 1..Len(Serialize(Bare(m))) : k > Minimum => Serialize(Bare(m))[k] # Delimiter
         /\ Serialize(m) = Serialize(Bare(m)) \o WriteString(26, m.jsonbody)
<1> DEFINE type == m.type
           topic == m.topic
           json == m.jsonbody
           first == WriteType(type)
           second == WriteString(18, topic)
           bare == first \o second
<1>1. /\ type \in 0..127 /\ topic \in Seq(Letter) /\ json \in Seq(Letter)
      /\ Len(topic) \in 0..127
      /\ Bare(m) = [type |-> type, topic |-> topic, jsonbody |-> <<>>]
  BY ReadableIs
<1>2. Serialize(m) = bare \o WriteString(26, json)
  BY DEF Serialize, WriteType
<1>3. Serialize(Bare(m)) = bare \o <<>>
  <2>1. Bare(m).type = type /\ Bare(m).topic = topic /\ Bare(m).jsonbody = <<>>
    BY <1>1
  <2>2. WriteString(26, <<>>) = <<>>
    BY DEF WriteString
  <2> QED
    BY <2>1, <2>2 DEF Serialize, WriteType
<1> HIDE DEF type, topic, json
<1>4. first \in Seq(1..255) /\ Len(first) \in 0..2
  <2>1. CASE type = 0
    BY <2>1 DEF WriteType
  <2>2. CASE type # 0
    <3>1. type \in 1..255
      BY <1>1, <2>2
    <3> QED
      BY <2>2, <3>1 DEF WriteType
  <2> QED
    BY <2>1, <2>2
<1>5. /\ second \in Seq(1..255) /\ Len(second) \in Nat
      /\ \A k \in 1..Len(second) : k > 2 => second[k] # Delimiter
  <2>1. CASE topic = <<>>
    BY <2>1 DEF WriteString
  <2>2. CASE topic # <<>>
    <3> DEFINE head == <<18, Len(topic)>>
    <3>1. second = head \o topic
      BY <2>2 DEF WriteString
    <3>2. Len(topic) \in 1..255
      BY <1>1, <2>2, EmptySeq
    <3>3. head \in Seq(1..255) /\ Len(head) = 2
      BY <3>2
    <3>4. topic \in Seq(1..255) /\ \A k \in 1..Len(topic) : topic[k] # Delimiter
      <4>1. Letter \subseteq 1..255 /\ Delimiter \notin Letter
        BY DEF Letter
      <4> QED
        BY <1>1, <4>1, SeqMonotonic, ElementOfSeq, ZenonT(60)
    <3> HIDE DEF head, second
    <3>5. /\ second \in Seq(1..255) /\ Len(second) = 2 + Len(topic) /\ Len(topic) \in Nat
          /\ \A k \in 1..Len(topic) : second[2 + k] = topic[k]
      <4>1. /\ head \o topic \in Seq(1..255) /\ Len(head \o topic) = Len(head) + Len(topic)
            /\ \A k \in 1..Len(topic) : (head \o topic)[Len(head) + k] = topic[k]
        <5>1. head \in Seq(1..255) /\ topic \in Seq(1..255)
          BY <3>3, <3>4
        <5>2. /\ head \o topic \in Seq(1..255) /\ Len(head \o topic) = Len(head) + Len(topic)
              /\ \A k \in 1..Len(topic) : (head \o topic)[Len(head) + k] = topic[k]
          BY <5>1, Joined
        <5> QED
          BY <5>2
      <4>2. Len(topic) \in Nat
        BY <3>4, LenProperties
      <4> QED
        BY <3>1, <3>3, <4>1, <4>2
    <3>6. ASSUME NEW k \in 1..Len(second), k > 2 PROVE second[k] # Delimiter
      <4>1. k - 2 \in 1..Len(topic) /\ 2 + (k - 2) = k
        BY <3>5, <3>6
      <4> QED
        BY <3>4, <3>5, <4>1
    <3> QED
      BY <3>5, <3>6
  <2> QED
    BY <2>1, <2>2
<1> HIDE DEF first, second
<1>6. /\ bare \in Seq(1..255) /\ Len(bare) = Len(first) + Len(second)
      /\ \A k \in 1..Len(second) : bare[Len(first) + k] = second[k]
  BY <1>4, <1>5, ConcatProperties
<1> HIDE DEF bare
<1>7. ASSUME NEW k \in 1..Len(bare), k > Minimum PROVE bare[k] # Delimiter
  <2>1. k - Len(first) \in 1..Len(second) /\ Len(first) + (k - Len(first)) = k /\ k - Len(first) > 2
    <3> DEFINE a == Len(first)
               b == Len(second)
    <3>1. a \in 0..2 /\ b \in Nat /\ k \in 1..a + b /\ k > 9
      BY <1>4, <1>5, <1>6, <1>7 DEF Minimum
    <3> HIDE DEF a, b
    <3>2. k - a \in 1..b /\ a + (k - a) = k /\ k - a > 2
      BY <3>1
    <3> QED
      BY <3>2 DEF a, b
  <2> QED
    BY <1>5, <1>6, <2>1
<1>8. Serialize(Bare(m)) = bare
  BY <1>3, <1>6
<1> QED
  BY <1>2, <1>6, <1>7, <1>8 DEF json

\* The body's tag and length come before its text.
LEMMA BodyIs ==
  ASSUME NEW m, Readable(m), m.jsonbody # <<>>
  PROVE  /\ FirstPiece(m) \in Seq(1..255) /\ Len(FirstPiece(m)) = Len(Serialize(Bare(m))) + 1
         /\ Len(m.jsonbody) \in 1..127
         /\ <<Len(m.jsonbody)>> \o m.jsonbody \in Seq(1..255)
         /\ Serialize(m) = FirstPiece(m) \o (<<Len(m.jsonbody)>> \o m.jsonbody)
         /\ \A k \in 1..Len(FirstPiece(m)) : k > Minimum => FirstPiece(m)[k] # Delimiter
         /\ \A k \in 1..Len(m.jsonbody) : m.jsonbody[k] # Delimiter
<1> DEFINE bare == Serialize(Bare(m))
           json == m.jsonbody
           n == Len(json)
           last == <<26>>
<1>1. /\ bare \in Seq(1..255) /\ Serialize(m) = bare \o WriteString(26, json)
      /\ \A k \in 1..Len(bare) : k > Minimum => bare[k] # Delimiter
  BY BareIs
<1>2. json \in Seq(Letter) /\ json # <<>> /\ n \in 0..127
  BY ReadableIs
<1>3. WriteString(26, json) = <<26, n>> \o json /\ FirstPiece(m) = bare \o last
  BY <1>2 DEF WriteString, FirstPiece
<1>4. n \in 1..127
  BY <1>2, EmptySeq
<1>5. json \in Seq(1..255) /\ \A k \in 1..n : json[k] # Delimiter
  <2>1. Letter \subseteq 1..255 /\ Delimiter \notin Letter
    BY DEF Letter
  <2>2. json \in Seq(Letter)
    BY <1>2
  <2> HIDE DEF json
  <2>3. json \in Seq(1..255)
    BY <2>1, <2>2, SeqMonotonic, ZenonT(60)
  <2>4. \A k \in 1..n : json[k] \in Letter
    BY <2>2, ElementOfSeq
  <2> QED
    BY <2>1, <2>3, <2>4
<1>6. last \in Seq(1..255) /\ Len(last) = 1 /\ last[1] = 26
  OBVIOUS
<1> HIDE DEF bare, json, n, last
<1> DEFINE count == <<n>>
<1>7. count \in Seq(1..255)
  BY <1>4
<1>8. <<26, n>> \o json = last \o (count \o json)
  <2>1. 26 \in Byte /\ n \in Byte /\ json \in Seq(Byte)
    <3>1. 1..255 \subseteq Byte /\ 26 \in Byte
      BY DEF Byte
    <3>2. json \in Seq(1..255)
      BY <1>5
    <3>3. json \in Seq(Byte)
      BY <3>1, <3>2, SeqMonotonic
    <3>4. n \in 1..255
      BY <1>4
    <3> QED
      BY <3>1, <3>3, <3>4
  <2> QED
    BY <2>1, TwoFirst DEF last
<1> HIDE DEF count
<1>9. count \o json \in Seq(1..255)
  BY <1>5, <1>7, Joined
<1> DEFINE body == count \o json
<1> HIDE DEF body
<1>10. bare \o (last \o body) = (bare \o last) \o body
  <2>1. bare \in Seq(1..255) /\ last \in Seq(1..255) /\ body \in Seq(1..255)
    BY <1>1, <1>6, <1>9 DEF body
  <2> QED
    BY <2>1, ConcatAssociative
<1> DEFINE front == bare \o last
<1>11. /\ front \in Seq(1..255) /\ Len(front) = Len(bare) + 1 /\ Len(bare) \in Nat
       /\ \A k \in 1..Len(bare) : front[k] = bare[k]
       /\ front[Len(bare) + 1] = 26
  <2>1. /\ front \in Seq(1..255) /\ Len(front) = Len(bare) + Len(last) /\ Len(bare) \in Nat
        /\ \A k \in 1..Len(bare) : front[k] = bare[k]
        /\ \A k \in 1..Len(last) : front[Len(bare) + k] = last[k]
    <3>1. bare \in Seq(1..255) /\ last \in Seq(1..255)
      BY <1>1, <1>6
    <3> QED
      BY <3>1, Joined
  <2> HIDE DEF front
  <2> QED
    BY <1>6, <2>1
<1> HIDE DEF front
<1>12. ASSUME NEW k \in 1..Len(front), k > Minimum PROVE front[k] # Delimiter
  <2>1. k \in 1..Len(bare) \/ k = Len(bare) + 1
    BY <1>11
  <2> QED
    BY <1>1, <1>11, <1>12, <2>1, SMTT(60) DEF Delimiter
<1>13. FirstPiece(m) = front
  BY <1>3 DEF front
<1>14. Serialize(m) = front \o body
  BY <1>1, <1>3, <1>8, <1>10 DEF body, front
<1> QED
  BY <1>4, <1>5, <1>9, <1>11, <1>12, <1>13, <1>14 DEF bare, json, n, count, body

\* No byte of a message is zero.
LEMMA NoZero ==
  ASSUME NEW m, Readable(m)
  PROVE  Serialize(m) \in Seq(1..255)
<1>1. CASE m.jsonbody = <<>>
  <2>1. WriteString(26, m.jsonbody) = <<>>
    BY <1>1 DEF WriteString
  <2>2. Serialize(m) = Serialize(Bare(m)) \o <<>> /\ Serialize(Bare(m)) \in Seq(1..255)
    BY <2>1, BareIs
  <2> QED
    BY <2>2
<1>2. CASE m.jsonbody # <<>>
  <2> DEFINE body == <<Len(m.jsonbody)>> \o m.jsonbody
  <2>1. FirstPiece(m) \in Seq(1..255) /\ body \in Seq(1..255) /\ Serialize(m) = FirstPiece(m) \o body
    BY <1>2, BodyIs
  <2> HIDE DEF body
  <2> QED
    BY <2>1, Joined
<1> QED
  BY <1>1, <1>2

\* The only delimiter that is found is the length of a body of that length.
LEMMA CutIs ==
  ASSUME NEW m, Readable(m), Cut(m)
  PROVE  /\ m.jsonbody # <<>> /\ Len(m.jsonbody) = Delimiter
         /\ Serialize(m) = FirstPiece(m) \o (<<Delimiter>> \o m.jsonbody)
         /\ Len(FirstPiece(m)) >= Minimum
<1>1. PICK k \in DOMAIN Serialize(m) : k > Minimum /\ Serialize(m)[k] = Delimiter
  BY DEF Cut
<1>2. m.jsonbody # <<>>
  <2> SUFFICES ASSUME m.jsonbody = <<>> PROVE FALSE
    OBVIOUS
  <2> DEFINE bare == Serialize(Bare(m))
  <2>1. WriteString(26, m.jsonbody) = <<>>
    BY DEF WriteString
  <2>2. /\ Serialize(m) = bare \o <<>> /\ bare \in Seq(1..255)
        /\ \A i \in 1..Len(bare) : i > Minimum => bare[i] # Delimiter
    BY <2>1, BareIs
  <2> HIDE DEF bare
  <2>3. Serialize(m) = bare /\ DOMAIN bare = 1..Len(bare)
    BY <2>2
  <2> QED
    BY <1>1, <2>2, <2>3
<1> DEFINE front == FirstPiece(m)
           json == m.jsonbody
           n == Len(json)
           count == <<n>>
           body == count \o json
<1>3. /\ front \in Seq(1..255) /\ n \in 1..127 /\ body \in Seq(1..255)
      /\ Serialize(m) = front \o body
      /\ \A i \in 1..Len(front) : i > Minimum => front[i] # Delimiter
      /\ \A i \in 1..n : json[i] # Delimiter
  BY <1>2, BodyIs
<1>4. /\ Len(body) = n + 1 /\ body[1] = n
      /\ \A i \in 1..n : body[i + 1] = json[i]
  <2>1. json \in Seq(Letter)
    BY ReadableIs
  <2> HIDE DEF json, front
  <2>2. n \in Byte /\ json \in Seq(Byte)
    <3>1. Letter \subseteq Byte /\ 1..127 \subseteq Byte
      BY DEF Letter, Byte
    <3> QED
      BY <1>3, <2>1, <3>1, SeqMonotonic
  <2> HIDE DEF n
  <2>3. count \in Seq(Byte) /\ Len(count) = 1 /\ count[1] = n
    BY <2>2
  <2> HIDE DEF count
  <2>4. /\ Len(body) = Len(count) + Len(json)
        /\ \A i \in 1..Len(count) : body[i] = count[i]
        /\ \A i \in 1..Len(json) : body[Len(count) + i] = json[i]
    <3>1. count \in Seq(Byte) /\ json \in Seq(Byte)
      BY <2>2, <2>3
    <3> QED
      BY <3>1, Joined
  <2> HIDE DEF body
  <2>5. Len(json) = n
    BY DEF n
  <2> QED
    BY <1>3, <2>3, <2>4, <2>5
<1> HIDE DEF front, json, n, body
<1> DEFINE all == front \o body
<1>5. /\ Len(all) = Len(front) + Len(body) /\ Len(front) \in Nat /\ all \in Seq(1..255)
      /\ \A i \in 1..Len(front) : all[i] = front[i]
      /\ \A i \in 1..Len(body) : all[Len(front) + i] = body[i]
  BY <1>3, Joined
<1> HIDE DEF all
<1>6. all = Serialize(m) /\ k \in 1..Len(all)
  BY <1>1, <1>3, <1>5 DEF all
<1>7. k = Len(front) + 1
  <2>1. ~(k \in 1..Len(front))
    BY <1>1, <1>3, <1>5, <1>6
  <2>2. ~(k > Len(front) + 1)
    <3> SUFFICES ASSUME k > Len(front) + 1 PROVE FALSE
      OBVIOUS
    <3> DEFINE i == k - Len(front) - 1
    <3>1. i \in 1..n /\ i + 1 \in 1..Len(body) /\ Len(front) + (i + 1) = k
      <4> DEFINE a == Len(front)
                 b == Len(body)
      <4>1. n \in 1..127 /\ b = n + 1 /\ a \in Nat /\ k \in 1..a + b /\ k > a + 1
        BY <1>3, <1>4, <1>5, <1>6
      <4> HIDE DEF a, b
      <4>2. (k - a) - 1 \in 1..n /\ ((k - a) - 1) + 1 \in 1..b /\ a + (((k - a) - 1) + 1) = k
        BY <4>1
      <4> QED
        BY <4>2 DEF a, b
    <3> HIDE DEF i
    <3>2. all[k] = json[i]
      BY <1>4, <1>5, <3>1
    <3> QED
      BY <1>1, <1>3, <1>6, <3>1, <3>2
  <2> QED
    BY <1>5, <1>6, <2>1, <2>2
<1>8. all[k] = n
  <2>1. 1 \in 1..Len(body)
    BY <1>3, <1>4
  <2> QED
    BY <1>4, <1>5, <1>7, <2>1
<1>9. n = Delimiter
  BY <1>1, <1>6, <1>8
<1>10. Len(front) >= Minimum
  BY <1>1, <1>5, <1>7 DEF Minimum
<1> QED
  BY <1>2, <1>3, <1>9, <1>10 DEF front, json, n, body

\* The search finds the first delimiter in its range,
LEMMA FindIs ==
  ASSUME buffer \in Seq(Byte), NEW old \in Nat, NEW at \in old + Minimum .. Len(buffer) - 1,
         buffer[at + 1] = Delimiter,
         \A j \in old + Minimum + 1 .. at : buffer[j] # Delimiter
  PROVE  Find(old) = at
<1> DEFINE I == {i \in old + Minimum + 1 .. Len(buffer) : buffer[i] = Delimiter}
<1>1. Len(buffer) \in Nat /\ at \in Nat
  BY LenProperties DEF Minimum
<1>2. Find(old) = (IF I # {} THEN Min(I) ELSE 0) - 1
  BY DEF Find, SelectInSubSeq
<1>3. at + 1 \in I /\ I \subseteq Nat
  BY <1>1 DEF Minimum
<1>4. \A i \in I : i > at
  BY <1>1 DEF Minimum
<1> HIDE DEF I
<1>5. Min(I) \in I /\ Min(I) <= at + 1
  BY <1>3, MinIsLeast
<1>6. Min(I) = at + 1
  <2>1. Min(I) \in Nat /\ Min(I) > at /\ Min(I) <= at + 1
    BY <1>3, <1>4, <1>5
  <2> QED
    BY <1>1, <2>1
<1> QED
  BY <1>1, <1>2, <1>3, <1>6

\* or says that there is none.
LEMMA FindNone ==
  ASSUME NEW old \in Nat, \A j \in old + Minimum + 1 .. Len(buffer) : buffer[j] # Delimiter
  PROVE  Find(old) = npos
<1> DEFINE I == {i \in old + Minimum + 1 .. Len(buffer) : buffer[i] = Delimiter}
<1>1. Find(old) = (IF I # {} THEN Min(I) ELSE 0) - 1
  BY DEF Find, SelectInSubSeq
<1>2. I = {}
  OBVIOUS
<1> HIDE DEF I
<1> QED
  BY <1>1, <1>2 DEF npos

\* A C string goes at least to where no zero has occurred.
LEMMA CStringKeeps ==
  ASSUME NEW s \in Seq(1..255), NEW t \in Seq(Byte)
  PROVE  \E u \in Seq(Byte) : CString(s \o t) = s \o u
<1> DEFINE bytes == s \o t
           n == Len(bytes)
           ended == bytes \o <<0>>
           I == {i \in 1..Len(ended) : ended[i] = 0}
<1>1. s \in Seq(Byte) /\ \A i \in 1..Len(s) : s[i] # 0
  <2>1. 1..255 \subseteq Byte /\ 0 \notin 1..255
    BY DEF Byte
  <2> QED
    BY <2>1, SeqMonotonic, ElementOfSeq, ZenonT(60)
<1>2. /\ bytes \in Seq(Byte) /\ n = Len(s) + Len(t) /\ Len(s) \in Nat /\ Len(t) \in Nat
      /\ \A i \in 1..Len(s) : bytes[i] = s[i]
  BY <1>1, Joined
<1> HIDE DEF bytes
<1>3. /\ Len(ended) = n + 1 /\ ended[n + 1] = 0 /\ \A i \in 1..n : ended[i] = bytes[i]
  <2> DEFINE z == <<0>>
  <2>1. z \in Seq(Byte) /\ Len(z) = 1 /\ z[1] = 0
    BY DEF Byte
  <2> HIDE DEF z
  <2>2. /\ Len(bytes \o z) = n + Len(z) /\ n \in Nat
        /\ \A i \in 1..n : (bytes \o z)[i] = bytes[i]
        /\ \A i \in 1..Len(z) : (bytes \o z)[n + i] = z[i]
    <3>1. bytes \in Seq(Byte) /\ z \in Seq(Byte)
      BY <1>2, <2>1
    <3> QED
      BY <3>1, Joined
  <2> DEFINE e == bytes \o z
  <2>3. Len(e) = n + 1 /\ e[n + 1] = 0 /\ \A i \in 1..n : e[i] = bytes[i]
    <3> HIDE DEF e, n
    <3> QED
      BY <2>1, <2>2 DEF e
  <2> QED
    BY <2>3 DEF z
<1>4. CString(bytes) = SubSeq(bytes, 1, (IF I # {} THEN Min(I) ELSE 0) - 1)
  BY DEF CString, SelectInSeq
<1> HIDE DEF ended, n
<1>5. n + 1 \in I /\ I \subseteq Nat /\ n \in Nat
  BY <1>2, <1>3
<1>6. \A i \in I : i > Len(s)
  <2> SUFFICES ASSUME NEW i \in I, i <= Len(s) PROVE FALSE
    BY <1>2, <1>5
  <2>1. i \in 1..Len(s) /\ i \in 1..n
    BY <1>2
  <2> QED
    BY <1>1, <1>2, <1>3, <2>1
<1> HIDE DEF I
<1> DEFINE end == Min(I) - 1
<1>7. end \in Len(s)..n
  <2>1. Min(I) \in I /\ Min(I) <= n + 1
    BY <1>5, MinIsLeast
  <2>2. Min(I) \in Nat /\ Min(I) > Len(s) /\ Min(I) <= n + 1
    BY <1>5, <1>6, <2>1
  <2> QED
    BY <1>2, <1>5, <2>2
<1>8. CString(bytes) = SubSeq(bytes, 1, end)
  BY <1>4, <1>5
<1> HIDE DEF end
<1>9. SubSeq(bytes, 1, end) = SubSeq(bytes, 1, Len(s)) \o SubSeq(bytes, Len(s) + 1, end)
  <2>1. 1 \in 1..Len(bytes) + 1 /\ Len(s) \in 1 - 1..Len(bytes) /\ end \in Len(s)..Len(bytes)
    BY <1>2, <1>7 DEF n
  <2> QED
    BY <1>2, <2>1, ConcatAdjacentSubSeq
<1>10. SubSeq(bytes, 1, Len(s)) = s
  BY <1>1, <1>2
<1>11. SubSeq(bytes, Len(s) + 1, end) \in Seq(Byte)
  BY <1>2, <1>7 DEF n
<1> QED
  BY <1>8, <1>9, <1>10, <1>11 DEF bytes
-----------------------------------------------------------------------------
(* The invariant.                                                           *)

\* While pieces are left to be handled they are what the string ends in.
RestOfBuffer ==
  pc = "handle" => \E u \in Seq(Byte) : buffer = u \o FlattenSeq(messages)

SplitInv == TypeOK /\ PiecesPartition /\ RestOfBuffer

\* It holds before anything is received.
LEMMA InitSplit == Init => SplitInv
<1> SUFFICES ASSUME Init PROVE SplitInv
  OBVIOUS
<1>1. unread \in Seq(Outbox)
  <2>1. PICK m \in 0..MaxSent : unread \in [1..m -> Outbox]
    BY DEF Init, BoundedSeq, SeqOf
  <2>2. m \in Nat
    BY BoundsNat
  <2> QED
    BY <2>1, <2>2, SeqDef
<1>2. recvBuffer \in [1..BufferSize -> Byte]
  BY FillsAreBytes DEF Init
<1>3. <<>> \in Seq(Byte) /\ <<>> \in Seq(Seq(Byte))
  OBVIOUS
<1>4. receives \in 0..MaxReceives
  BY BoundsNat DEF Init
<1> QED
  BY <1>1, <1>2, <1>3, <1>4 DEF Init, SplitInv, TypeOK, PiecesPartition, RestOfBuffer

\* A new string, of which nothing is split off yet.
LEMMA ReceiveSplit ==
  ASSUME SplitInv, NEW n \in 1..BufferSize, Receive(n)
  PROVE  SplitInv'
<1> DEFINE through == offset + n
           Fits(k) == /\ Len(Bytes(SubSeq(unread, 1, k))) <= through
                      /\ k < Len(unread) => Len(Bytes(SubSeq(unread, 1, k + 1))) > through
           done == CHOOSE k \in 0..Len(unread) : Fits(k)
<1>1. /\ unread \in Seq(Outbox) /\ Len(unread) \in Nat /\ offset \in Nat /\ n \in Nat
      /\ messages = <<>> /\ BufferSize \in Nat
  BY BufferSizeNat, LenProperties DEF SplitInv, TypeOK, Receive
<1>2. done \in 0..Len(unread) /\ Fits(done)
  <2>1. \E k \in 0..Len(unread) : Fits(k)
    <3>1. through \in Nat
      BY <1>1
    <3> HIDE DEF through
    <3> QED
      BY <1>1, <3>1, DoneExists
  <2> HIDE DEF Fits
  <2> QED
    BY <2>1
<1>3. /\ unread' = SubSeq(unread, done + 1, Len(unread))
      /\ offset' = through - Len(Bytes(SubSeq(unread, 1, done)))
      /\ recvBuffer' = [k \in 1..BufferSize |->
                          IF k <= n THEN Bytes(unread)[offset + k] ELSE recvBuffer[k]]
      /\ through <= Len(Bytes(unread))
      /\ buffer' = CString(recvBuffer') /\ delimiter' = 0 /\ pc' = "split"
      /\ receives < MaxReceives /\ receives' = receives + 1 /\ messages' = messages
  BY DEF Receive
<1>4. Len(Bytes(SubSeq(unread, 1, done))) <= through
  BY <1>2
<1> HIDE DEF done, Fits
<1>5. SubSeq(unread, 1, done) \in Seq(Outbox) /\ unread' \in Seq(Outbox)
  BY <1>1, <1>2, <1>3
<1>6. offset' \in Nat
  BY <1>1, <1>3, <1>4, <1>5, BytesType
<1>7. recvBuffer' \in [1..BufferSize -> Byte]
  <2>1. Bytes(unread) \in Seq(Byte) /\ Len(Bytes(unread)) \in Nat
    BY <1>1, BytesType
  <2>2. ASSUME NEW k \in 1..BufferSize, k <= n PROVE Bytes(unread)[offset + k] \in Byte
    <3>1. offset + k \in 1..Len(Bytes(unread))
      BY <1>1, <1>3, <2>1, <2>2
    <3> QED
      BY <2>1, <3>1, ElementOfSeq
  <2>3. recvBuffer \in [1..BufferSize -> Byte]
    BY DEF SplitInv, TypeOK
  <2> QED
    BY <1>3, <2>2, <2>3
<1>8. buffer' \in Seq(Byte) /\ Len(buffer') \in Nat
  <2>1. recvBuffer' \in Seq(Byte)
    BY <1>1, <1>7, SeqDef
  <2> QED
    BY <1>3, <2>1, CStringType, LenProperties
<1>9. receives' \in 0..MaxReceives
  BY <1>3, BoundsNat DEF SplitInv, TypeOK
<1>10. TypeOK'
  BY <1>1, <1>3, <1>5, <1>6, <1>7, <1>8, <1>9, SMTT(60) DEF SplitInv, TypeOK
<1>11. PiecesPartition'
  <2>1. FlattenSeq(messages') = <<>> /\ Len(messages') = 0
    BY <1>1, <1>3, FlattenEmpty
  <2>2. SubSeq(buffer', 1, delimiter') = <<>>
    BY <1>3, SubSeqEmpty
  <2> QED
    BY <1>3, <1>8, <2>1, <2>2 DEF PiecesPartition, Minimum
<1> QED
  BY <1>3, <1>10, <1>11 DEF SplitInv, RestOfBuffer

\* One more piece, which ends where the search has stopped.
LEMMA SplitSplit ==
  ASSUME SplitInv, Split
  PROVE  SplitInv'
<1> DEFINE from == delimiter
           to == Find(delimiter)
<1>1. /\ buffer \in Seq(Byte) /\ Len(buffer) \in Nat
      /\ messages \in Seq(Seq(Byte)) /\ Len(messages) \in Nat
      /\ from \in Nat /\ from <= Len(buffer) /\ Minimum * Len(messages) <= from
      /\ FlattenSeq(messages) = SubSeq(buffer, 1, from)
  BY LenProperties DEF SplitInv, TypeOK, PiecesPartition, Split, Minimum
<1>2. /\ delimiter' = to /\ messages' = Append(messages, Piece(from, to))
      /\ pc' = IF to # npos THEN "split" ELSE "handle"
      /\ UNCHANGED <<unread, offset, recvBuffer, buffer, receives>>
  BY DEF Split, splitVars, wireVars
<1>3. (to = npos \/ to \in from + Minimum .. Len(buffer) - 1) /\ to \in Int
  BY <1>1, FindInside
<1> DEFINE end == IF to = npos THEN Len(buffer) ELSE to
<1>4. end \in from..Len(buffer) /\ Piece(from, to) = SubSeq(buffer, from + 1, end)
  BY <1>1, <1>3 DEF Piece, Minimum
<1> HIDE DEF from, to, end
<1>5. Piece(from, to) \in Seq(Byte)
  BY <1>1, <1>4
<1>6. messages' \in Seq(Seq(Byte)) /\ Len(messages') = Len(messages) + 1 /\ messages' # <<>>
  <2> DEFINE piece == Piece(from, to)
  <2>1. messages' = Append(messages, piece) /\ messages \in Seq(Seq(Byte)) /\ piece \in Seq(Byte)
    BY <1>1, <1>2, <1>5
  <2> HIDE DEF piece
  <2>2. /\ Append(messages, piece) \in Seq(Seq(Byte))
        /\ Len(Append(messages, piece)) = Len(messages) + 1
        /\ Append(messages, piece) # <<>>
    BY <2>1, AppendProperties, ZenonT(60)
  <2> QED
    BY <2>1, <2>2
<1>7. FlattenSeq(messages') = SubSeq(buffer, 1, end)
  <2>1. FlattenSeq(messages') = SubSeq(buffer, 1, from) \o SubSeq(buffer, from + 1, end)
    BY <1>1, <1>2, <1>4, <1>5, FlattenAppend
  <2>2. SubSeq(buffer, 1, from) \o SubSeq(buffer, from + 1, end) = SubSeq(buffer, 1, end)
    <3>1. 1 \in 1..Len(buffer) + 1 /\ from \in 1 - 1..Len(buffer) /\ end \in from..Len(buffer)
      BY <1>1, <1>4
    <3> QED
      BY <1>1, <3>1, ConcatAdjacentSubSeq
  <2> QED
    BY <2>1, <2>2
<1>8. TypeOK'
  BY <1>1, <1>2, <1>3, <1>6 DEF SplitInv, TypeOK
<1>9. CASE to = npos
  <2>1. pc' = "handle" /\ buffer' = buffer /\ FlattenSeq(messages') = buffer
    BY <1>1, <1>2, <1>7, <1>9, SubSeqFull DEF end
  <2>2. <<>> \in Seq(Byte) /\ <<>> \o buffer = buffer
    BY <1>1, ConcatEmptySeq
  <2>3. IsSuffix(buffer, buffer)
    BY <1>1, <2>2, EndIsSuffix
  <2> QED
    BY <1>8, <2>1, <2>2, <2>3 DEF SplitInv, PiecesPartition, RestOfBuffer
<1>10. CASE to # npos
  <2>1. pc' = "split" /\ buffer' = buffer /\ FlattenSeq(messages') = SubSeq(buffer, 1, delimiter')
    BY <1>2, <1>7, <1>10 DEF end
  <2>2. Minimum * Len(messages') <= delimiter' /\ delimiter' <= Len(buffer)
    BY <1>1, <1>2, <1>3, <1>6, <1>10 DEF Minimum
  <2> QED
    BY <1>8, <2>1, <2>2 DEF SplitInv, PiecesPartition, RestOfBuffer
<1> QED
  BY <1>9, <1>10

\* One piece less.
LEMMA HandleSplit ==
  ASSUME SplitInv, Handle
  PROVE  SplitInv'
<1>1. /\ pc = "handle" /\ messages \in Seq(Seq(Byte)) /\ messages # <<>> /\ buffer \in Seq(Byte)
      /\ messages' = Tail(messages) /\ pc' = IF messages' = <<>> THEN "recv" ELSE "handle"
      /\ UNCHANGED <<unread, offset, recvBuffer, buffer, delimiter, receives>>
  BY DEF SplitInv, TypeOK, Handle, splitVars, wireVars
<1>2. PICK u \in Seq(Byte) : buffer = u \o FlattenSeq(messages)
  BY <1>1 DEF SplitInv, RestOfBuffer
<1> DEFINE first == Head(messages)
           rest == FlattenSeq(Tail(messages))
<1>3. first \in Seq(Byte) /\ Tail(messages) \in Seq(Seq(Byte)) /\ rest \in Seq(Byte)
  BY <1>1, HeadTailProperties, FlattenType
<1>4. FlattenSeq(messages) = first \o rest
  BY <1>1, FlattenHead
<1> HIDE DEF first
<1>5. buffer = (u \o first) \o rest /\ u \o first \in Seq(Byte)
  <2> HIDE DEF rest
  <2>1. (u \o first) \o rest = u \o (first \o rest)
    BY <1>3, Associative, Zenon
  <2>2. buffer = u \o (first \o rest)
    BY <1>2, <1>4
  <2>3. u \o first \in Seq(Byte)
    BY <1>3, ConcatProperties
  <2> QED
    BY <2>1, <2>2, <2>3
<1>6. IsSuffix(rest, buffer)
  BY <1>3, <1>5, EndIsSuffix
<1>7. TypeOK'
  BY <1>1, <1>3 DEF SplitInv, TypeOK
<1> QED
  BY <1>1, <1>5, <1>6, <1>7 DEF SplitInv, PiecesPartition, RestOfBuffer

\* All steps keep the invariant.
LEMMA NextSplit ==
  ASSUME SplitInv, [Next]_vars
  PROVE  SplitInv'
<1>1. CASE UNCHANGED vars
  BY <1>1 DEF vars, SplitInv, TypeOK, PiecesPartition, RestOfBuffer
<1> QED
  BY <1>1, ReceiveSplit, SplitSplit, HandleSplit DEF Next

\* Types, for any messages with one-byte lengths, any buffer size and any
\* number of portions; the pieces of one recv are handled before the next.
THEOREM TypeCorrect == Spec => []TypeOK
<1>1. SplitInv => TypeOK
  BY DEF SplitInv
<1> QED
  BY <1>1, InitSplit, NextSplit, PTL DEF Spec

\* Whatever arrives in whatever portions over whatever lay on the stack, the
\* splitting loop stays inside the string, moves on by nine bytes a round, and
\* its pieces are the string.
THEOREM SplitIsPartition == Spec => []PiecesPartition
<1>1. SplitInv => PiecesPartition
  BY DEF SplitInv
<1> QED
  BY <1>1, InitSplit, NextSplit, PTL DEF Spec

-----------------------------------------------------------------------------
(* Sequences joined up to some place, and from there on.                    *)

LEMMA SubSeqStep ==
  ASSUME NEW S, NEW s \in Seq(S), NEW k \in 0..Len(s) - 1
  PROVE  SubSeq(s, 1, k + 1) = Append(SubSeq(s, 1, k), s[k + 1]) /\ s[k + 1] \in S
<1> DEFINE start == SubSeq(s, 1, k)
           x == s[k + 1]
<1>1. Len(s) \in Nat /\ k \in Nat /\ k + 1 \in 1..Len(s) /\ 1 \in 1..Len(s) /\ (k + 1) - 1 = k
  BY LenProperties
<1>2. x \in S
  BY <1>1, ElementOfSeq
<1>3. start \in Seq(S)
  BY <1>1, SubSeqProperties
<1>4. SubSeq(s, 1, k + 1) = start \o <<x>>
  <2> DEFINE j == k + 1
  <2>1. 1 \in 1..Len(s) /\ j \in 1..Len(s) /\ j - 1 = k
    BY <1>1
  <2> HIDE DEF j
  <2>2. SubSeq(s, 1, j) = SubSeq(s, 1, j - 1) \o <<s[j]>>
    BY <2>1, SubSeqRecursiveSecond
  <2> QED
    BY <2>1, <2>2 DEF j
<1> HIDE DEF start, x
<1>5. Append(start, x) = start \o <<x>>
  BY <1>2, <1>3, AppendIsConcat
<1> QED
  BY <1>2, <1>4, <1>5 DEF start, x

\* One sequence more.
LEMMA FlattenStep ==
  ASSUME NEW S, NEW seqs \in Seq(Seq(S)), NEW k \in 0..Len(seqs) - 1
  PROVE  FlattenSeq(SubSeq(seqs, 1, k + 1)) = FlattenSeq(SubSeq(seqs, 1, k)) \o seqs[k + 1]
<1> DEFINE start == SubSeq(seqs, 1, k)
           x == seqs[k + 1]
<1>1. SubSeq(seqs, 1, k + 1) = Append(start, x) /\ x \in Seq(S)
  BY SubSeqStep
<1>2. start \in Seq(Seq(S))
  <2>1. Len(seqs) \in Nat /\ k \in Nat /\ k <= Len(seqs)
    BY LenProperties
  <2> QED
    BY <2>1, SubSeqProperties
<1> HIDE DEF start, x
<1>3. FlattenSeq(Append(start, x)) = FlattenSeq(start) \o x
  BY <1>1, <1>2, FlattenAppend
<1> QED
  BY <1>1, <1>3 DEF start, x

\* What is joined from some place on begins with the sequence there.
LEMMA FlattenFrom ==
  ASSUME NEW S, NEW seqs \in Seq(Seq(S)), NEW k \in 0..Len(seqs) - 1
  PROVE  LET rest == SubSeq(seqs, k + 1, Len(seqs))
             next == SubSeq(seqs, (k + 1) + 1, Len(seqs))
         IN  /\ rest # <<>> /\ Head(rest) = seqs[k + 1] /\ Tail(rest) = next
             /\ FlattenSeq(rest) = seqs[k + 1] \o FlattenSeq(next)
<1> DEFINE n == Len(seqs)
           rest == SubSeq(seqs, k + 1, n)
<1>1. n \in Nat /\ k + 1 \in 1..n /\ n \in k + 1 .. n /\ k \in 0..n
  BY LenProperties
<1>2. Head(rest) = seqs[k + 1] /\ Tail(rest) = SubSeq(seqs, (k + 1) + 1, n)
  BY <1>1, HeadTailOfSubSeq
<1>3. rest \in Seq(Seq(S)) /\ rest # <<>>
  <2>1. rest \in Seq(Seq(S))
    BY <1>1
  <2>2. Len(rest) = n - (k + 1) + 1
    BY <1>1
  <2> HIDE DEF rest
  <2>3. Len(rest) # 0
    BY <1>1, <2>2
  <2> QED
    BY <2>1, <2>3
<1> HIDE DEF rest
<1>4. FlattenSeq(rest) = Head(rest) \o FlattenSeq(Tail(rest))
  BY <1>3, FlattenHead
<1> QED
  BY <1>2, <1>3, <1>4 DEF rest

\* What is joined up to some place, with what is joined from there on.
LEMMA FlattenSplit ==
  ASSUME NEW S, NEW seqs \in Seq(Seq(S))
  PROVE  \A k \in 0..Len(seqs) :
           /\ SubSeq(seqs, 1, k) \in Seq(Seq(S)) /\ SubSeq(seqs, k + 1, Len(seqs)) \in Seq(Seq(S))
           /\ FlattenSeq(seqs)
                = FlattenSeq(SubSeq(seqs, 1, k)) \o FlattenSeq(SubSeq(seqs, k + 1, Len(seqs)))
<1> DEFINE n == Len(seqs)
           Start(k) == FlattenSeq(SubSeq(seqs, 1, k))
           End(k) == FlattenSeq(SubSeq(seqs, k + 1, n))
           T == {k \in 0..n : FlattenSeq(seqs) = Start(k) \o End(k)}
<1>1. n \in Nat
  BY LenProperties
<1>2. ASSUME NEW k \in 0..n
      PROVE  /\ SubSeq(seqs, 1, k) \in Seq(Seq(S)) /\ SubSeq(seqs, k + 1, n) \in Seq(Seq(S))
             /\ Start(k) \in Seq(S) /\ End(k) \in Seq(S)
  <2>1. SubSeq(seqs, 1, k) \in Seq(Seq(S)) /\ SubSeq(seqs, k + 1, n) \in Seq(Seq(S))
    <3>1. k \in Nat /\ k <= n
      BY <1>1
    <3> QED
      BY <1>1, <3>1
  <2> QED
    BY <2>1, FlattenType
<1>3. FlattenSeq(seqs) = Start(0) \o End(0)
  <2>1. SubSeq(seqs, 1, 0) = <<>> /\ SubSeq(seqs, 0 + 1, n) = seqs
    BY SubSeqEmpty, SubSeqFull
  <2>2. <<>> \o FlattenSeq(seqs) = FlattenSeq(seqs)
    BY FlattenType, ConcatEmptySeq
  <2> QED
    BY <2>1, <2>2, FlattenEmpty
<1>4. ASSUME NEW k \in 0..n, k < n PROVE Start(k + 1) \o End(k + 1) = Start(k) \o End(k)
  <2> DEFINE x == seqs[k + 1]
  <2>1. k \in 0..n - 1 /\ k + 1 \in 1..n /\ k + 1 \in 0..n
    BY <1>1, <1>4
  <2>2. Start(k + 1) = Start(k) \o x
    BY <2>1, FlattenStep
  <2>3. End(k) = x \o End(k + 1)
    BY <2>1, FlattenFrom
  <2>4. x \in Seq(S)
    BY <2>1, ElementOfSeq
  <2>5. Start(k) \in Seq(S) /\ End(k + 1) \in Seq(S)
    BY <1>2, <2>1
  <2> HIDE DEF Start, End, x
  <2> DEFINE a == Start(k)
             b == End(k + 1)
  <2>6. a \in Seq(S) /\ b \in Seq(S) /\ x \in Seq(S)
    BY <2>4, <2>5
  <2> HIDE DEF a, b
  <2>7. (a \o x) \o b = a \o (x \o b)
    BY <2>6
  <2> QED
    BY <2>2, <2>3, <2>7 DEF a, b
<1>5. \A k \in 0..n : k \in T
  <2>1. 0 \in T
    BY <1>1, <1>3
  <2>2. ASSUME NEW k \in 0..n, k \in T, k < n PROVE k + 1 \in T
    <3>1. k + 1 \in 0..n
      BY <1>1, <2>2
    <3>2. FlattenSeq(seqs) = Start(k) \o End(k)
      BY <2>2
    <3>3. Start(k + 1) \o End(k + 1) = Start(k) \o End(k)
      BY <1>4, <2>2
    <3> HIDE DEF Start, End
    <3> QED
      BY <3>1, <3>2, <3>3
  <2> HIDE DEF T
  <2> QED
    BY <1>1, <2>1, <2>2, UpTo
<1> QED
  BY <1>2, <1>5

-----------------------------------------------------------------------------
(* The bytes of several messages.                                           *)

Coding(ms) == [k \in DOMAIN ms |-> Serialize(ms[k])]

LEMMA CodingIs ==
  ASSUME NEW ms \in Seq(Outbox)
  PROVE  /\ Coding(ms) \in Seq(Seq(Byte)) /\ Len(Coding(ms)) = Len(ms) /\ Len(ms) \in Nat
         /\ \A k \in 1..Len(ms) : /\ ms[k] \in Outbox /\ Coding(ms)[k] = Serialize(ms[k])
                                  /\ Serialize(ms[k]) \in Seq(Byte)
<1>1. DOMAIN ms = 1..Len(ms) /\ Len(ms) \in Nat /\ \A k \in 1..Len(ms) : ms[k] \in Outbox
  BY LenProperties
<1>2. Coding(ms) = [k \in 1..Len(ms) |-> Serialize(ms[k])]
  BY <1>1 DEF Coding
<1>3. \A k \in 1..Len(ms) : Serialize(ms[k]) \in Seq(Byte)
  BY <1>1, SerializeType
<1>4. Coding(ms) \in [1..Len(ms) -> Seq(Byte)]
  BY <1>2, <1>3
<1>5. Coding(ms) \in Seq(Seq(Byte)) /\ Len(Coding(ms)) = Len(ms)
  BY <1>1, <1>4, SeqDef, LenProperties
<1> QED
  BY <1>1, <1>2, <1>3, <1>5

\* The first messages are coded by the first sequences.
LEMMA CodingOfFirst ==
  ASSUME NEW ms \in Seq(Outbox), NEW k \in 0..Len(ms)
  PROVE  Bytes(SubSeq(ms, 1, k)) = FlattenSeq(SubSeq(Coding(ms), 1, k))
<1> DEFINE some == SubSeq(ms, 1, k)
           all == Coding(ms)
           s == Coding(some)
           t == SubSeq(all, 1, k)
<1>1. /\ Len(ms) \in Nat /\ k \in Nat /\ k <= Len(ms) /\ 1..k \subseteq 1..Len(ms)
      /\ all \in Seq(Seq(Byte)) /\ Len(all) = Len(ms)
      /\ \A j \in 1..Len(ms) : all[j] = Serialize(ms[j])
  BY CodingIs
<1>2. some \in Seq(Outbox) /\ Len(some) = k /\ \A j \in 1..k : some[j] = ms[j]
  BY <1>1
<1> HIDE DEF some, all
<1>3. s \in Seq(Seq(Byte)) /\ Len(s) = k /\ \A j \in 1..k : s[j] = Serialize(some[j])
  BY <1>2, CodingIs
<1>4. t \in Seq(Seq(Byte)) /\ Len(t) = k /\ \A j \in 1..k : t[j] = all[j]
  BY <1>1
<1> HIDE DEF s, t
<1>5. \A j \in 1..k : s[j] = t[j]
  BY <1>1, <1>2, <1>3, <1>4
<1>6. s = t
  BY <1>3, <1>4, <1>5, SeqEqual
<1> QED
  BY <1>6 DEF s, t, some, all, Bytes, Coding

\* One message more.
LEMMA BytesStep ==
  ASSUME NEW ms \in Seq(Outbox), NEW k \in 0..Len(ms) - 1
  PROVE  Bytes(SubSeq(ms, 1, k + 1)) = Bytes(SubSeq(ms, 1, k)) \o Serialize(ms[k + 1])
<1> DEFINE all == Coding(ms)
<1>1. /\ all \in Seq(Seq(Byte)) /\ Len(all) = Len(ms) /\ Len(ms) \in Nat
      /\ \A j \in 1..Len(ms) : all[j] = Serialize(ms[j])
  BY CodingIs
<1>2. k \in 0..Len(ms) /\ k + 1 \in 0..Len(ms) /\ k + 1 \in 1..Len(ms)
  BY <1>1
<1>3. /\ Bytes(SubSeq(ms, 1, k)) = FlattenSeq(SubSeq(all, 1, k))
      /\ Bytes(SubSeq(ms, 1, k + 1)) = FlattenSeq(SubSeq(all, 1, k + 1))
  BY <1>2, CodingOfFirst
<1> HIDE DEF all
<1>4. FlattenSeq(SubSeq(all, 1, k + 1)) = FlattenSeq(SubSeq(all, 1, k)) \o all[k + 1]
  BY <1>1, FlattenStep
<1>5. all[k + 1] = Serialize(ms[k + 1])
  BY <1>1, <1>2
<1> QED
  BY <1>3, <1>4, <1>5

\* The bytes begin with those of the first messages.
LEMMA BytesBegin ==
  ASSUME NEW ms \in Seq(Outbox), NEW k \in 0..Len(ms)
  PROVE  \E r \in Seq(Byte) : Bytes(ms) = Bytes(SubSeq(ms, 1, k)) \o r
<1> DEFINE all == Coding(ms)
           r == FlattenSeq(SubSeq(all, k + 1, Len(all)))
<1>1. all \in Seq(Seq(Byte)) /\ k \in 0..Len(all)
  BY CodingIs
<1>2. Bytes(ms) = FlattenSeq(all)
  BY DEF Bytes, Coding
<1>3. Bytes(SubSeq(ms, 1, k)) = FlattenSeq(SubSeq(all, 1, k))
  BY CodingOfFirst
<1> HIDE DEF all
<1>4. /\ SubSeq(all, k + 1, Len(all)) \in Seq(Seq(Byte))
      /\ FlattenSeq(all) = FlattenSeq(SubSeq(all, 1, k)) \o r
  BY <1>1, FlattenSplit
<1>5. r \in Seq(Byte)
  BY <1>4, FlattenType
<1> QED
  BY <1>2, <1>3, <1>4, <1>5

\* No byte of readable messages ends a C string.
LEMMA NoZeros ==
  ASSUME \A m \in Outbox : Readable(m), NEW ms \in Seq(Outbox)
  PROVE  Bytes(ms) \in Seq(1..255)
<1>1. Len(ms) \in Nat /\ Len(Coding(ms)) = Len(ms)
  BY CodingIs
<1>2. Coding(ms) \in Seq(Seq(1..255))
  <2>1. \A k \in 1..Len(ms) : Coding(ms)[k] \in Seq(1..255)
    BY CodingIs, NoZero
  <2>2. Coding(ms) \in [1..Len(ms) -> Seq(1..255)]
    <3>1. DOMAIN Coding(ms) = 1..Len(ms)
      BY CodingIs, LenProperties
    <3>2. Coding(ms) = [k \in 1..Len(ms) |-> Coding(ms)[k]]
      BY <3>1 DEF Coding
    <3> QED
      BY <2>1, <3>2
  <2> QED
    BY <1>1, <2>2, SeqDef
<1> QED
  BY <1>2, FlattenType DEF Bytes, Coding

\* Without its type a message is all but what the type is written as.
Untagged(m) == [m EXCEPT !.type = SUBSCRIBE]

LEMMA UntaggedIs ==
  ASSUME NEW m, Readable(m)
  PROVE  /\ Plain(m) /\ Plain(Untagged(m))
         /\ Untagged(m) = [type |-> SUBSCRIBE, topic |-> m.topic, jsonbody |-> m.jsonbody]
         /\ WriteType(m.type) \in Seq(Byte)
         /\ WriteType(m.type) = IF m.type = 0 THEN <<>> ELSE <<8, m.type>>
         /\ Serialize(Untagged(m)) \in Seq(Byte)
         /\ Serialize(m) = WriteType(m.type) \o Serialize(Untagged(m))
<1> DEFINE type == m.type
           topic == m.topic
           json == m.jsonbody
           first == WriteType(type)
           second == WriteString(18, topic)
           third == WriteString(26, json)
           bare == Untagged(m)
<1>1. /\ type \in 0..127 /\ Plain(m) /\ IsText(topic) /\ IsText(json)
      /\ m = [type |-> type, topic |-> topic, jsonbody |-> json]
  <2>1. Plain(m)
    BY ReadableIs
  <2> QED
    BY <2>1, ReadableIs DEF Plain
<1>2. bare = [type |-> SUBSCRIBE, topic |-> topic, jsonbody |-> json]
  BY <1>1, SetField DEF Untagged
<1>3. Plain(bare)
  <2>1. bare.type = 0 /\ bare.topic = topic /\ bare.jsonbody = json
    BY <1>2 DEF SUBSCRIBE
  <2>2. topic \in Seq(Byte) /\ json \in Seq(Byte) /\ 0 \in Byte
    BY <1>1 DEF IsText, Byte
  <2>3. bare \in Message
    BY <1>2, <2>2 DEF Message, SUBSCRIBE
  <2> HIDE DEF bare
  <2> QED
    BY <1>1, <2>1, <2>3 DEF Plain
<1>4. first = IF type = 0 THEN <<>> ELSE <<8, type>>
  BY DEF WriteType
<1>5. first \in Seq(Byte)
  <2>1. type \in Byte /\ 8 \in Byte
    BY <1>1 DEF Byte
  <2> HIDE DEF first, type
  <2>2. <<>> \in Seq(Byte) /\ <<8, type>> \in Seq(Byte)
    BY <2>1
  <2> QED
    BY <1>4, <2>2
<1>6. Serialize(m) = (first \o second) \o third
  BY DEF Serialize, WriteType
<1>7. Serialize(bare) = (<<>> \o second) \o third
  <2>1. bare.type = 0 /\ bare.topic = topic /\ bare.jsonbody = json
    BY <1>2 DEF SUBSCRIBE
  <2> HIDE DEF bare
  <2> QED
    BY <2>1 DEF Serialize
<1>8. second \in Seq(Byte) /\ third \in Seq(Byte)
  <2>1. 18 \in Byte /\ 26 \in Byte /\ 0..127 \subseteq Byte
    BY DEF Byte
  <2>2. topic \in Seq(Byte) /\ json \in Seq(Byte) /\ Len(topic) \in Byte /\ Len(json) \in Byte
    BY <1>1, <2>1 DEF IsText
  <2> HIDE DEF topic, json
  <2>3. <<18, Len(topic)>> \in Seq(Byte) /\ <<26, Len(json)>> \in Seq(Byte)
    BY <2>1, <2>2
  <2>4. <<18, Len(topic)>> \o topic \in Seq(Byte) /\ <<26, Len(json)>> \o json \in Seq(Byte)
    BY <2>2, <2>3, ConcatProperties
  <2>5. <<>> \in Seq(Byte)
    OBVIOUS
  <2> QED
    BY <2>4, <2>5 DEF WriteString
<1> HIDE DEF first, second, third, bare
<1>9. Serialize(bare) = second \o third
  BY <1>7, <1>8, ConcatEmptySeq
<1>10. (first \o second) \o third = first \o (second \o third)
  BY <1>5, <1>8, ConcatAssociative
<1>11. second \o third \in Seq(Byte)
  BY <1>8, ConcatProperties
<1> QED
  BY <1>1, <1>2, <1>3, <1>4, <1>5, <1>6, <1>9, <1>10, <1>11 DEF first, bare

\* It begins with its topic's tag.
LEMMA UntaggedBegins ==
  ASSUME NEW m, Readable(m), m.topic # <<>>
  PROVE  Len(Serialize(Untagged(m))) \in Nat \ {0} /\ Serialize(Untagged(m))[1] = Delimiter
<1> DEFINE topic == m.topic
           third == WriteString(26, m.jsonbody)
           bare == Untagged(m)
           n == Len(topic)
<1>1. bare.type = 0 /\ bare.topic = topic /\ bare.jsonbody = m.jsonbody
  <2>1. bare = [type |-> SUBSCRIBE, topic |-> topic, jsonbody |-> m.jsonbody]
    BY UntaggedIs
  <2> HIDE DEF bare
  <2> QED
    BY <2>1 DEF SUBSCRIBE
<1>2. topic \in Seq(Byte) /\ n \in 0..127 /\ IsText(m.jsonbody)
  <2>1. Plain(m)
    BY ReadableIs
  <2> QED
    BY <2>1, ReadableIs DEF Plain
<1>3. third \in Seq(Byte)
  <2> DEFINE json == m.jsonbody
  <2>1. json \in Seq(Byte) /\ Len(json) \in 0..127 /\ 0..127 \subseteq Byte /\ 26 \in Byte
    BY <1>2 DEF IsText, Byte
  <2> HIDE DEF json
  <2>2. <<26, Len(json)>> \in Seq(Byte)
    <3> DEFINE size == Len(json)
    <3>1. size \in Byte /\ 26 \in Byte
      BY <2>1
    <3> HIDE DEF size
    <3>2. <<26, size>> \in Seq(Byte)
      BY <3>1
    <3> QED
      BY <3>2 DEF size
  <2>3. <<26, Len(json)>> \o json \in Seq(Byte) /\ <<>> \in Seq(Byte)
    BY <2>1, <2>2, ConcatProperties
  <2> QED
    BY <2>3 DEF WriteString, json
<1>4. WriteString(18, topic) = <<18, n>> \o topic
  BY DEF WriteString
<1>5. Serialize(bare) = (<<>> \o WriteString(18, topic)) \o third
  BY <1>1 DEF Serialize
<1> HIDE DEF topic, third, bare, n
<1> DEFINE head == <<18, n>>
           one == head \o topic
           all == one \o third
<1>6. head \in Seq(Byte) /\ Len(head) = 2 /\ head[1] = Delimiter
  <2>1. n \in Byte /\ 18 \in Byte
    BY <1>2 DEF Byte
  <2> QED
    BY <2>1 DEF Delimiter
<1> HIDE DEF head
<1>7. /\ one \in Seq(Byte) /\ Len(one) = Len(head) + Len(topic) /\ Len(topic) \in Nat
      /\ \A k \in 1..Len(head) : one[k] = head[k]
  <2>1. head \in Seq(Byte) /\ topic \in Seq(Byte)
    BY <1>2, <1>6
  <2> QED
    BY <2>1, Joined, SMTT(60)
<1>8. <<>> \o one = one
  BY <1>7, ConcatEmptySeq
<1> HIDE DEF one
<1>9. /\ all \in Seq(Byte) /\ Len(all) = Len(one) + Len(third) /\ Len(third) \in Nat
      /\ \A k \in 1..Len(one) : all[k] = one[k]
  BY <1>3, <1>7, Joined
<1>10. Serialize(bare) = all
  BY <1>4, <1>5, <1>8 DEF one, head
<1> HIDE DEF all
<1>11. Len(all) \in Nat \ {0} /\ all[1] = Delimiter
  BY <1>6, <1>7, <1>9
<1> QED
  BY <1>10, <1>11 DEF bare

\* One in which the delimiter occurs but once, as that tag, holds it nowhere else.
LEMMA SplittableIs ==
  ASSUME NEW m, Readable(m), Splittable(m)
  PROVE  LET s == Serialize(m)
             u == Serialize(Untagged(m))
         IN  /\ m.topic # <<>> /\ m.type # Delimiter
             /\ Len(s) \in Nat /\ Len(s) >= Minimum + 2
             /\ Len(u) \in Nat /\ Len(u) >= Minimum /\ u[1] = Delimiter
             /\ \A k \in 1..Len(s) : k > Minimum => s[k] # Delimiter
             /\ \A k \in 1..Len(u) : k > 1 => u[k] # Delimiter
<1> DEFINE type == m.type
           h == WriteType(type)
           u == Serialize(Untagged(m))
           s == Serialize(m)
           Here == {k \in DOMAIN s : s[k] = Delimiter}
<1>1. /\ h \in Seq(Byte) /\ u \in Seq(Byte) /\ s = h \o u
      /\ h = IF type = 0 THEN <<>> ELSE <<8, type>>
  BY UntaggedIs
<1>2. m.topic # <<>> /\ Len(s) >= Minimum + 2 /\ Cardinality(Here) = 1
  BY DEF Splittable
<1>3. Len(u) \in Nat \ {0} /\ u[1] = Delimiter
  BY <1>2, UntaggedBegins
<1> HIDE DEF s, h, u
<1>4. /\ s \in Seq(Byte) /\ Len(s) = Len(h) + Len(u) /\ Len(h) \in Nat
      /\ \A k \in 1..Len(h) : s[k] = h[k]
      /\ \A k \in 1..Len(u) : s[Len(h) + k] = u[k]
  BY <1>1, Joined
<1>5. \/ type = 0 /\ Len(h) = 0
      \/ type # 0 /\ Len(h) = 2 /\ h[2] = type
  <2>1. CASE type = 0
    BY <1>1, <2>1
  <2>2. CASE type # 0
    BY <1>1, <2>2
  <2> QED
    BY <2>1, <2>2
<1>6. DOMAIN s = 1..Len(s) /\ Len(s) \in Nat
  BY <1>4, LenProperties
<1>7. PICK x : Here = {x}
  <2>1. IsFiniteSet(DOMAIN s)
    BY <1>6, FS_Interval
  <2>2. IsFiniteSet(Here)
    BY <2>1, FS_Subset
  <2> HIDE DEF Here
  <2> QED
    BY <1>2, <2>2, FS_Singleton
<1>8. \A k \in 1..Len(s) : s[k] = Delimiter => k = Len(h) + 1
  <2>1. Len(h) + 1 \in 1..Len(s) /\ s[Len(h) + 1] = Delimiter
    BY <1>3, <1>4
  <2>2. \A k \in 1..Len(s) : s[k] = Delimiter => k \in Here
    BY <1>6
  <2> HIDE DEF Here
  <2> QED
    BY <1>7, <2>1, <2>2
<1>9. type # Delimiter
  <2>1. CASE type = 0
    BY <2>1 DEF Delimiter
  <2>2. CASE type # 0
    <3>1. 2 \in 1..Len(s) /\ s[2] = type /\ Len(h) + 1 # 2
      BY <1>4, <1>5, <1>3, <2>2
    <3> QED
      BY <1>8, <3>1
  <2> QED
    BY <2>1, <2>2
<1>10. Len(h) <= 2
  BY <1>5
<1>11. \A k \in 1..Len(s) : k > Minimum => s[k] # Delimiter
  BY <1>4, <1>6, <1>8, <1>10 DEF Minimum
<1>12. ASSUME NEW k \in 1..Len(u), k > 1 PROVE u[k] # Delimiter
  <2>1. Len(h) + k \in 1..Len(s) /\ s[Len(h) + k] = u[k] /\ Len(h) + k # Len(h) + 1
    BY <1>3, <1>4, <1>12
  <2> QED
    BY <1>8, <2>1
<1>13. Len(u) >= Minimum
  BY <1>2, <1>3, <1>4, <1>10 DEF Minimum
<1> QED
  BY <1>2, <1>3, <1>6, <1>9, <1>11, <1>12, <1>13 DEF s, u

\* A type behind a message is the message's type.
LEMMA ReadsRetyped ==
  ASSUME NEW m, Plain(m), NEW type \in 0..127
  PROVE  Parse(Serialize(m) \o WriteType(type))
           = IF type = 0 THEN m ELSE [m EXCEPT !.type = type]
<1>1. CASE type = 0
  <2>1. WriteType(type) = <<>> /\ <<>> \in Seq(Byte) /\ ~HasVarint(<<>>)
    BY <1>1 DEF WriteType, HasVarint
  <2>2. Parse(Serialize(m) \o <<>>) = m
    BY <2>1, ReadsBack
  <2> QED
    BY <1>1, <2>1, <2>2
<1>2. CASE type # 0
  <2> DEFINE rest == <<8, type>>
             bytes == Serialize(m) \o rest
             l == [m EXCEPT !.type = type]
  <2>1. /\ rest \in Seq(Byte) /\ Len(rest) = 2 /\ WriteType(type) = rest
        /\ rest = <<8>> \o (<<type>> \o <<>>)
    <3>1. 8 \in Byte /\ type \in Byte /\ <<>> \in Seq(Byte)
      BY DEF Byte
    <3>2. rest \o <<>> = <<8>> \o (<<type>> \o <<>>)
      BY <3>1, TwoFirst
    <3>3. rest \in Seq(Byte) /\ Len(rest) = 2
      BY <3>1
    <3>4. rest \o <<>> = rest
      BY <3>3, ConcatEmptySeq
    <3>5. WriteType(type) = rest
      BY <1>2 DEF WriteType
    <3> QED
      BY <3>2, <3>3, <3>4, <3>5
  <2> HIDE DEF rest
  <2>2. bytes \in Seq(Byte)
    BY <2>1, ReadsMessage
  <2>3. PICK f : /\ Runs(f, bytes) /\ Parse(bytes) = f[Len(bytes)].message
                 /\ Reached(f, bytes, rest, m)
    BY <2>1, ReadsMessage
  <2> HIDE DEF bytes
  <2>4. ReadField(Going(rest, m)) = Going(<<>>, l)
    <3>1. <<>> \in Seq(Byte)
      OBVIOUS
    <3>2. ReadField(Going(<<8>> \o (<<type>> \o <<>>), m)) = Going(<<>>, [m EXCEPT !.type = type])
      BY <3>1, ReadsType
    <3> QED
      BY <2>1, <3>2
  <2> HIDE DEF l
  <2>5. Reached(f, bytes, <<>>, l)
    <3>1. <<>> \in Seq(Byte) /\ Len(<<>>) < Len(rest)
      BY <2>1
    <3> QED
      BY <2>1, <2>2, <2>3, <2>4, <3>1, ReachedNext
  <2>6. PICK k \in 0..Len(bytes) : f[k] = Going(<<>>, l)
    BY <2>5 DEF Reached
  <2>7. f[k].message = l /\ ~HasVarint(f[k].input)
    BY <2>6 DEF Going, State, HasVarint
  <2>8. f[Len(bytes)].message = l
    BY <2>2, <2>3, <2>7, RunStops
  <2> QED
    BY <1>2, <2>1, <2>3, <2>8 DEF bytes, l
<1> QED
  BY <1>1, <1>2

-----------------------------------------------------------------------------
(* Messages that are received whole.                                        *)

Behind == SubSeq(buffer, Len(Bytes(batch)) + 1, Len(buffer))

\* The buffer begins with them.
BatchInv ==
  /\ batch \in Seq(Outbox)
  /\ batch # <<>> => buffer = Bytes(batch) \o Behind

\* What follows.
LEMMA BehindIs ==
  ASSUME NEW s \in Seq(Byte), NEW t \in Seq(Byte)
  PROVE  SubSeq(s \o t, Len(s) + 1, Len(s \o t)) = t
<1> DEFINE u == s \o t
<1>1. /\ u \in Seq(Byte) /\ Len(u) = Len(s) + Len(t) /\ Len(s) \in Nat /\ Len(t) \in Nat
      /\ \A k \in 1..Len(t) : u[Len(s) + k] = t[k]
  BY Joined
<1> HIDE DEF u
<1>2. SubSeq(u, Len(s) + 1, Len(u)) = t
  <2> DEFINE v == SubSeq(u, Len(s) + 1, Len(u))
  <2>1. v \in Seq(Byte) /\ Len(v) = Len(t)
    BY <1>1
  <2>2. ASSUME NEW k \in 1..Len(t) PROVE v[k] = t[k]
    <3>1. v[k] = u[(Len(s) + 1) + k - 1] /\ (Len(s) + 1) + k - 1 = Len(s) + k
      BY <1>1
    <3> QED
      BY <1>1, <3>1
  <2> HIDE DEF v
  <2>3. v = t
    BY <2>1, <2>2, SeqEqual
  <2> QED
    BY <2>3 DEF v
<1> QED
  BY <1>2 DEF u

\* What is received whole is at the front of the buffer.
LEMMA ReceiveBatch ==
  ASSUME \A m \in Outbox : Readable(m), SplitInv, NEW n \in 1..BufferSize, Receive(n)
  PROVE  BatchInv'
<1> DEFINE through == offset + n
           Fits(k) == /\ Len(Bytes(SubSeq(unread, 1, k))) <= through
                      /\ k < Len(unread) => Len(Bytes(SubSeq(unread, 1, k + 1))) > through
           done == CHOOSE k \in 0..Len(unread) : Fits(k)
           rest == through - Len(Bytes(SubSeq(unread, 1, done)))
<1>1. /\ unread \in Seq(Outbox) /\ Len(unread) \in Nat /\ offset \in Nat /\ n \in Nat
      /\ BufferSize \in Nat /\ n <= BufferSize
  BY BufferSizeNat, LenProperties DEF SplitInv, TypeOK
<1>2. done \in 0..Len(unread)
  <2>1. \E k \in 0..Len(unread) : Fits(k)
    <3>1. through \in Nat
      BY <1>1
    <3> HIDE DEF through
    <3> QED
      BY <1>1, <3>1, DoneExists
  <2> HIDE DEF Fits
  <2> QED
    BY <2>1
<1>3. /\ batch' = IF offset = 0 /\ rest = 0 THEN SubSeq(unread, 1, done) ELSE NotWhole
      /\ recvBuffer' = [k \in 1..BufferSize |->
                          IF k <= n THEN Bytes(unread)[offset + k] ELSE recvBuffer[k]]
      /\ buffer' = CString(recvBuffer')
  BY DEF Receive
<1>4. recvBuffer' \in Seq(Byte) /\ Len(recvBuffer') = BufferSize
  <2>1. recvBuffer' \in [1..BufferSize -> Byte]
    BY ReceiveSplit DEF SplitInv, TypeOK
  <2> QED
    BY <1>1, <2>1, SeqDef, LenProperties
<1> HIDE DEF done, Fits
<1>5. SubSeq(unread, 1, done) \in Seq(Outbox) /\ Len(SubSeq(unread, 1, done)) = done
  BY <1>1, <1>2
<1>6. batch' \in Seq(Outbox)
  BY <1>3, <1>5 DEF NotWhole
<1>7. ASSUME batch' # <<>>
      PROVE  buffer' = Bytes(batch') \o SubSeq(buffer', Len(Bytes(batch')) + 1, Len(buffer'))
  <2> DEFINE s == Bytes(SubSeq(unread, 1, done))
  <2>1. offset = 0 /\ rest = 0 /\ batch' = SubSeq(unread, 1, done)
    <3>1. offset = 0 /\ rest = 0
      <4> SUFFICES ASSUME ~(offset = 0 /\ rest = 0) PROVE FALSE
        OBVIOUS
      <4>1. batch' = NotWhole
        BY <1>3
      <4> QED
        BY <1>7, <4>1 DEF NotWhole
    <3> QED
      BY <1>3, <3>1
  <2>2. s \in Seq(Byte) /\ Len(s) \in Nat /\ s \in Seq(1..255)
    BY <1>5, BytesType, NoZeros
  <2>3. PICK r \in Seq(Byte) : Bytes(unread) = s \o r
    BY <1>1, <1>2, BytesBegin
  <2>4. n = Len(s)
    BY <1>1, <2>1, <2>2
  <2> HIDE DEF s
  <2>5. \A k \in 1..n : Bytes(unread)[k] = s[k]
    <3>1. \A k \in 1..Len(s) : (s \o r)[k] = s[k]
      BY <2>2, Joined
    <3> QED
      BY <2>3, <2>4, <3>1
  <2>6. \A k \in 1..n : recvBuffer'[k] = s[k]
    <3>1. ASSUME NEW k \in 1..n PROVE recvBuffer'[k] = s[k]
      <4>1. k \in 1..BufferSize /\ k <= n /\ offset + k = k
        BY <1>1, <2>1
      <4> QED
        BY <1>3, <2>5, <4>1
    <3> QED
      BY <3>1
  <2> DEFINE t == SubSeq(recvBuffer', n + 1, BufferSize)
  <2>7. recvBuffer' = s \o t /\ t \in Seq(Byte)
    <3> DEFINE b == recvBuffer'
               start == SubSeq(b, 1, n)
    <3>1. b \in Seq(Byte) /\ Len(b) = BufferSize
      BY <1>4
    <3>2. \A k \in 1..n : b[k] = s[k]
      BY <2>6
    <3> HIDE DEF b
    <3>3. start = s
      <4>1. start \in Seq(Byte) /\ Len(start) = n /\ \A k \in 1..n : start[k] = b[k]
        BY <1>1, <3>1
      <4> HIDE DEF start
      <4> QED
        BY <2>2, <2>4, <3>2, <4>1, SeqEqual
    <3>4. b = start \o SubSeq(b, n + 1, BufferSize)
      <4>1. 1 \in 1..Len(b) + 1 /\ n \in 1 - 1..Len(b) /\ BufferSize \in n..Len(b)
        BY <1>1, <3>1
      <4>2. SubSeq(b, 1, n) \o SubSeq(b, n + 1, BufferSize) = SubSeq(b, 1, BufferSize)
        BY <3>1, <4>1, ConcatAdjacentSubSeq
      <4>3. SubSeq(b, 1, BufferSize) = b
        BY <3>1, SubSeqFull
      <4> QED
        BY <4>2, <4>3
    <3>5. SubSeq(b, n + 1, BufferSize) \in Seq(Byte)
      BY <1>1, <3>1
    <3> QED
      BY <3>3, <3>4, <3>5 DEF b
  <2> HIDE DEF t
  <2>8. PICK u \in Seq(Byte) : CString(s \o t) = s \o u
    BY <2>2, <2>7, CStringKeeps
  <2>9. buffer' = s \o u
    BY <1>3, <2>7, <2>8
  <2>10. SubSeq(buffer', Len(s) + 1, Len(buffer')) = u
    BY <2>2, <2>9, BehindIs
  <2> QED
    BY <2>1, <2>9, <2>10 DEF s
<1> QED
  BY <1>6, <1>7 DEF BatchInv, Behind

\* What is behind them is all that is searched and read besides.
LEMMA TailIs ==
  ASSUME SplitInv, BatchInv, batch # <<>>, CleanTail
  PROVE  /\ batch \in Seq(Outbox) /\ Bytes(batch) \in Seq(Byte)
         /\ buffer = Bytes(batch) \o Behind /\ Behind \in Seq(Byte)
         /\ \A k \in 1..Len(Behind) : Behind[k] >= 128
<1> DEFINE s == Bytes(batch)
           tail == Behind
<1>1. batch \in Seq(Outbox) /\ buffer = s \o tail
  BY DEF BatchInv
<1>2. s \in Seq(Byte) /\ buffer \in Seq(Byte) /\ Len(s) \in Nat /\ Len(buffer) \in Nat
  BY <1>1, BytesType, LenProperties DEF SplitInv, TypeOK
<1>3. tail \in Seq(Byte)
  BY <1>2 DEF Behind
<1> HIDE DEF tail, s
<1>4. /\ Len(buffer) = Len(s) + Len(tail) /\ Len(tail) \in Nat
      /\ \A k \in 1..Len(tail) : buffer[Len(s) + k] = tail[k]
  <2>1. /\ Len(s \o tail) = Len(s) + Len(tail) /\ Len(tail) \in Nat
        /\ \A k \in 1..Len(tail) : (s \o tail)[Len(s) + k] = tail[k]
    BY <1>2, <1>3, Joined
  <2> QED
    BY <1>1, <2>1
<1>5. ASSUME NEW k \in 1..Len(tail) PROVE tail[k] >= 128
  <2>1. Len(s) + k \in DOMAIN buffer /\ Len(s) + k > Len(s)
    BY <1>2, <1>4
  <2>2. buffer[Len(s) + k] >= 128
    BY <2>1 DEF CleanTail, s
  <2> QED
    BY <1>4, <2>2
<1> QED
  BY <1>1, <1>2, <1>3, <1>5 DEF s, tail

\* The bytes of a message alone are its own.
LEMMA BytesAlone ==
  ASSUME NEW ms \in Seq(Outbox), Len(ms) = 1
  PROVE  Bytes(ms) = Serialize(ms[1]) /\ ms[1] \in Outbox
<1> DEFINE all == Coding(ms)
<1>1. all \in Seq(Seq(Byte)) /\ Len(all) = 1 /\ ms[1] \in Outbox /\ all[1] = Serialize(ms[1])
  <2>1. 1 \in 1..Len(ms)
    OBVIOUS
  <2> QED
    BY <2>1, CodingIs
<1>2. Bytes(ms) = FlattenSeq(all)
  BY DEF Bytes, Coding
<1> HIDE DEF all
<1>3. 0 \in 0..Len(all) - 1 /\ 0 + 1 = 1
  BY <1>1
<1>4. FlattenSeq(SubSeq(all, 1, 0 + 1)) = FlattenSeq(SubSeq(all, 1, 0)) \o all[0 + 1]
  BY <1>1, <1>3, FlattenStep
<1>5. SubSeq(all, 1, 1) = all /\ SubSeq(all, 1, 0) = <<>>
  BY <1>1, SubSeqFull, SubSeqEmpty
<1>6. all[1] \in Seq(Byte)
  BY <1>1, ElementOfSeq
<1>7. <<>> \o all[1] = all[1]
  BY <1>6, ConcatEmptySeq
<1>8. FlattenSeq(all) = <<>> \o all[1]
  BY <1>3, <1>4, <1>5, FlattenEmpty
<1> QED
  BY <1>1, <1>2, <1>7, <1>8

-----------------------------------------------------------------------------
(* A message that is received alone.                                        *)

\* What is split off at last.
SecondPiece(m) == SubSeq(buffer, Len(FirstPiece(m)) + 1, Len(buffer))

\* The handler is somewhere on its way through the one or two pieces.
Whole(m) ==
  \/ pc = "split" /\ calls = <<>> /\ delimiter = 0 /\ messages = <<>>
  \/ pc = "handle" /\ calls = <<>> /\ messages = <<buffer>>
  \/ pc = "recv" /\ calls = CallsFor(m)

Halved(m) ==
  \/ pc = "split" /\ calls = <<>> /\ delimiter = 0 /\ messages = <<>>
  \/ pc = "split" /\ calls = <<>> /\ delimiter = Len(FirstPiece(m)) /\ messages = <<FirstPiece(m)>>
  \/ pc = "handle" /\ calls = <<>> /\ messages = <<FirstPiece(m), SecondPiece(m)>>
  \/ pc = "handle" /\ calls = CallsFor(Bare(m)) /\ messages = <<SecondPiece(m)>>
  \/ pc = "recv" /\ calls = CallsFor(Bare(m)) \o CallsFor(Parse(SecondPiece(m)))

WayInv ==
  (Len(batch) = 1 /\ CleanTail) =>
    IF Cut(batch[1]) THEN Halved(batch[1]) ELSE Whole(batch[1])

LoneInv == SplitInv /\ BatchInv /\ WayInv

\* What is in the buffer when a message has come alone.
LEMMA LoneIs ==
  ASSUME \A m \in Outbox : Readable(m), SplitInv, BatchInv, Len(batch) = 1, CleanTail
  PROVE  LET m == batch[1]
         IN  /\ m \in Outbox /\ Readable(m) /\ Bytes(batch) = Serialize(m)
             /\ \E tail \in Seq(Byte) : /\ buffer = Serialize(m) \o tail
                                        /\ \A k \in 1..Len(tail) : tail[k] >= 128
<1> DEFINE m == batch[1]
           s == Serialize(m)
<1>1. batch # <<>>
  OBVIOUS
<1>2. /\ batch \in Seq(Outbox) /\ buffer = Bytes(batch) \o Behind /\ Behind \in Seq(Byte)
      /\ \A k \in 1..Len(Behind) : Behind[k] >= 128
  BY <1>1, TailIs
<1>3. Bytes(batch) = s /\ m \in Outbox
  BY <1>2, BytesAlone
<1>4. Readable(m)
  BY <1>3
<1> QED
  BY <1>2, <1>3, <1>4

\* Nothing can be read of it.
LEMMA Unreadable ==
  ASSUME NEW tail \in Seq(Byte), \A k \in 1..Len(tail) : tail[k] >= 128
  PROVE  ~HasVarint(tail)
<1>1. CASE tail = <<>>
  BY <1>1 DEF HasVarint
<1>2. CASE tail # <<>>
  <2>1. 1 \in 1..Len(tail) /\ tail[1] \in Nat
    <3>1. 1 \in 1..Len(tail) /\ tail[1] \in Byte
      BY <1>2, LenProperties, EmptySeq
    <3>2. Byte \subseteq Nat
      BY DEF Byte
    <3> QED
      BY <3>1, <3>2, Zenon
  <2>2. tail[1] >= 128
    BY <2>1
  <2> QED
    BY <2>1, <2>2 DEF HasVarint
<1> QED
  BY <1>1, <1>2

\* A message in which no delimiter is found is one piece.
LEMMA WholeRead ==
  ASSUME NEW m, Readable(m), ~Cut(m), NEW tail \in Seq(Byte), buffer = Serialize(m) \o tail,
         \A k \in 1..Len(tail) : tail[k] >= 128
  PROVE  Find(0) = npos /\ Piece(0, npos) = buffer /\ Parse(buffer) = m
<1> DEFINE s == Serialize(m)
<1>1. s \in Seq(Byte)
  <2>1. s \in Seq(1..255) /\ 1..255 \subseteq Byte
    BY NoZero DEF Byte
  <2> QED
    BY <2>1, SeqMonotonic
<1>2. /\ Len(s \o tail) = Len(s) + Len(tail) /\ Len(s) \in Nat /\ Len(tail) \in Nat
      /\ s \o tail \in Seq(Byte)
      /\ \A k \in 1..Len(s) : (s \o tail)[k] = s[k]
      /\ \A k \in 1..Len(tail) : (s \o tail)[Len(s) + k] = tail[k]
  BY <1>1, Joined
<1>3. buffer = s \o tail
  OBVIOUS
<1>4. \A k \in 1..Len(s) : k > Minimum => s[k] # Delimiter
  <2>1. DOMAIN s = 1..Len(s)
    BY <1>1, LenProperties
  <2> QED
    BY <2>1 DEF Cut
<1> HIDE DEF s
<1>5. ASSUME NEW j \in 0 + Minimum + 1 .. Len(buffer) PROVE buffer[j] # Delimiter
  <2>1. j \in Nat /\ j > Minimum /\ j <= Len(s) + Len(tail)
    BY <1>2, <1>3 DEF Minimum
  <2>2. CASE j <= Len(s)
    <3>1. j \in 1..Len(s)
      BY <1>2, <2>1, <2>2 DEF Minimum
    <3> QED
      BY <1>2, <1>3, <1>4, <2>1, <3>1
  <2>3. CASE j > Len(s)
    <3>1. j - Len(s) \in 1..Len(tail) /\ Len(s) + (j - Len(s)) = j
      BY <1>2, <2>1, <2>3
    <3>2. buffer[j] = tail[j - Len(s)] /\ tail[j - Len(s)] >= 128
      BY <1>2, <1>3, <3>1
    <3> QED
      BY <3>2 DEF Delimiter
  <2>4. j <= Len(s) \/ j > Len(s)
    BY <1>2, <2>1
  <2> QED
    BY <2>2, <2>3, <2>4, Zenon
<1>6. Find(0) = npos
  BY <1>5, FindNone
<1>7. Piece(0, npos) = buffer
  <2>1. buffer \in Seq(Byte)
    BY <1>2, <1>3
  <2>2. SubSeq(buffer, 0 + 1, Len(buffer)) = buffer
    BY <2>1, SubSeqFull
  <2> QED
    BY <2>2 DEF Piece
<1>8. Parse(buffer) = m
  <2>1. Plain(m) /\ ~HasVarint(tail)
    BY ReadableIs, Unreadable
  <2>2. Parse(Serialize(m) \o tail) = m
    BY <2>1, ReadsBack
  <2> QED
    BY <2>2
<1> QED
  BY <1>6, <1>7, <1>8

\* One in which the length of the body is taken for a delimiter is two, the
\* first all but the body, the second without a type.
LEMMA HalvedRead ==
  ASSUME NEW m, Readable(m), Cut(m), NEW tail \in Seq(Byte), buffer = Serialize(m) \o tail,
         \A k \in 1..Len(tail) : tail[k] >= 128
  PROVE  LET from == Len(FirstPiece(m))
         IN  /\ from \in Nat /\ Find(0) = from /\ Piece(0, from) = FirstPiece(m)
             /\ Find(from) = npos /\ Piece(from, npos) = SecondPiece(m)
             /\ Parse(FirstPiece(m)) = Bare(m) /\ Parse(SecondPiece(m)).type = SUBSCRIBE
<1> DEFINE first == FirstPiece(m)
           json == m.jsonbody
           count == <<Delimiter>>
           body == count \o json
           second == body \o tail
           n == Len(first)
<1>1. json # <<>> /\ Len(json) = Delimiter /\ Serialize(m) = first \o body /\ n >= Minimum
  BY CutIs
<1>2. /\ first \in Seq(1..255) /\ \A k \in 1..Len(first) : k > Minimum => first[k] # Delimiter
      /\ \A k \in 1..Len(json) : json[k] # Delimiter
  BY <1>1, BodyIs
<1>3. json \in Seq(Letter) /\ Plain(Bare(m))
  BY ReadableIs
<1>4. Letter \subseteq Byte \ {8} /\ Letter \subseteq Byte /\ 1..255 \subseteq Byte
      /\ Delimiter \in Byte \ {8} /\ Byte \ {8} \subseteq Byte
  BY DEF Letter, Byte, Delimiter
<1>5. Parse(first) = Bare(m)
  BY <1>3, ReadsCut DEF FirstPiece
<1>6. buffer = (first \o body) \o tail
  BY <1>1
<1> HIDE DEF first, json
<1>7. first \in Seq(Byte)
  <2>1. first \in Seq(1..255) /\ 1..255 \subseteq Byte
    BY <1>2, <1>4, Zenon
  <2> QED
    BY <2>1, SeqMonotonic
<1>8. json \in Seq(Byte \ {8})
  BY <1>3, <1>4, SeqMonotonic
<1>9. count \in Seq(Byte \ {8}) /\ Len(count) = 1 /\ count[1] = Delimiter
  BY <1>4
<1> HIDE DEF count
<1>10. tail \in Seq(Byte \ {8})
  <2>1. \A k \in 1..Len(tail) : tail[k] \in Byte \ {8}
    <3>1. ASSUME NEW k \in 1..Len(tail) PROVE tail[k] \in Byte \ {8}
      <4>1. tail[k] \in Byte /\ tail[k] >= 128
        BY ElementOfSeq
      <4> QED
        BY <4>1 DEF Byte
    <3> QED
      BY <3>1
  <2>2. tail \in [1..Len(tail) -> Byte \ {8}] /\ Len(tail) \in Nat
    BY <2>1, LenProperties
  <2> QED
    BY <2>2, SeqDef
<1>11. /\ body \in Seq(Byte \ {8}) /\ Len(body) = 1 + Len(json) /\ Len(json) \in Nat
       /\ body[1] = Delimiter
       /\ \A k \in 1..Len(json) : body[1 + k] = json[k]
  <2>1. /\ body \in Seq(Byte \ {8}) /\ Len(body) = Len(count) + Len(json) /\ Len(json) \in Nat
        /\ \A k \in 1..Len(count) : body[k] = count[k]
        /\ \A k \in 1..Len(json) : body[Len(count) + k] = json[k]
    <3>1. count \in Seq(Byte \ {8})
      BY <1>9
    <3> QED
      BY <1>8, <3>1, Joined
  <2> HIDE DEF body
  <2>2. 1 \in 1..Len(count)
    BY <1>9
  <2> QED
    BY <1>9, <2>1, <2>2
<1> HIDE DEF body
<1>12. /\ second \in Seq(Byte \ {8}) /\ Len(second) = Len(body) + Len(tail) /\ Len(tail) \in Nat
       /\ \A k \in 1..Len(body) : second[k] = body[k]
       /\ \A k \in 1..Len(tail) : second[Len(body) + k] = tail[k]
  <2>1. body \in Seq(Byte \ {8})
    BY <1>11
  <2> QED
    BY <1>10, <2>1, Joined
<1>13. buffer = first \o second
  <2>1. body \in Seq(Byte) /\ tail \in Seq(Byte)
    <3>1. body \in Seq(Byte \ {8})
      BY <1>11
    <3> QED
      BY <1>4, <3>1, SeqMonotonic
  <2>2. (first \o body) \o tail = first \o (body \o tail)
    BY <1>7, <2>1, ConcatAssociative
  <2> QED
    BY <1>6, <2>2
<1> HIDE DEF second
<1>14. second \in Seq(Byte)
  <2>1. second \in Seq(Byte \ {8})
    BY <1>12
  <2> QED
    BY <1>4, <2>1, SeqMonotonic
<1>15. /\ buffer \in Seq(Byte) /\ Len(buffer) = n + Len(second) /\ n \in Nat /\ Len(second) \in Nat
       /\ \A k \in 1..n : buffer[k] = first[k]
       /\ \A k \in 1..Len(second) : buffer[n + k] = second[k]
  <2>1. /\ first \o second \in Seq(Byte) /\ Len(first \o second) = Len(first) + Len(second)
        /\ Len(first) \in Nat /\ Len(second) \in Nat
        /\ \A k \in 1..Len(first) : (first \o second)[k] = first[k]
        /\ \A k \in 1..Len(second) : (first \o second)[Len(first) + k] = second[k]
    BY <1>7, <1>14, Joined
  <2> QED
    BY <1>13, <2>1
<1>16. \A k \in 1..Len(second) : k > 1 => second[k] # Delimiter
  <2> SUFFICES ASSUME NEW k \in 1..Len(second), k > 1 PROVE second[k] # Delimiter
    OBVIOUS
  <2>1. CASE k <= Len(body)
    <3>1. k \in 1..Len(body) /\ k - 1 \in 1..Len(json) /\ 1 + (k - 1) = k
      BY <1>11, <2>1
    <3>2. second[k] = json[k - 1]
      BY <1>11, <1>12, <3>1
    <3> QED
      BY <1>2, <3>1, <3>2 DEF json
  <2>2. CASE k > Len(body)
    <3>1. k - Len(body) \in 1..Len(tail) /\ Len(body) + (k - Len(body)) = k
      BY <1>11, <1>12, <2>2
    <3>2. second[k] = tail[k - Len(body)] /\ tail[k - Len(body)] >= 128
      BY <1>12, <3>1
    <3> QED
      BY <3>2 DEF Delimiter
  <2> QED
    BY <1>11, <1>12, <2>1, <2>2
<1>17. Len(second) >= 1 /\ second[1] = Delimiter
  <2>1. 1 \in 1..Len(body)
    BY <1>11
  <2> QED
    BY <1>11, <1>12, <2>1
<1>18. n \in 0 + Minimum .. Len(buffer) - 1 /\ buffer[n + 1] = Delimiter
  <2>1. 1 \in 1..Len(second) /\ n >= Minimum
    BY <1>1, <1>15, <1>17 DEF first
  <2> QED
    BY <1>15, <1>17, <2>1 DEF Minimum
<1>19. Find(0) = n
  <2>1. \A j \in 0 + Minimum + 1 .. n : buffer[j] # Delimiter
    <3> SUFFICES ASSUME NEW j \in 0 + Minimum + 1 .. n PROVE buffer[j] # Delimiter
      OBVIOUS
    <3>1. j \in 1..n /\ j > Minimum
      BY <1>15 DEF Minimum
    <3> QED
      BY <1>2, <1>15, <3>1
  <2> HIDE DEF n
  <2> QED
    BY <1>15, <1>18, <2>1, FindIs
<1>20. Find(n) = npos
  <2>1. \A j \in n + Minimum + 1 .. Len(buffer) : buffer[j] # Delimiter
    <3> SUFFICES ASSUME NEW j \in n + Minimum + 1 .. Len(buffer) PROVE buffer[j] # Delimiter
      OBVIOUS
    <3>1. j - n \in 1..Len(second) /\ j - n > 1 /\ n + (j - n) = j
      BY <1>15 DEF Minimum
    <3> QED
      BY <1>15, <1>16, <3>1
  <2> HIDE DEF n
  <2> QED
    BY <1>15, <2>1, FindNone
<1>21. Piece(0, n) = first
  <2>1. n # npos
    BY <1>15 DEF npos
  <2>2. SubSeq(buffer, 0 + 1, n) = first
    <3> DEFINE b == SubSeq(buffer, 1, n)
    <3>1. b \in Seq(Byte) /\ Len(b) = n /\ \A k \in 1..n : b[k] = buffer[k]
      BY <1>15
    <3> HIDE DEF b
    <3>2. b = first
      BY <1>7, <1>15, <3>1, SeqEqual
    <3>3. SubSeq(buffer, 1, n) = first
      BY <3>2 DEF b
    <3>4. 0 + 1 = 1
      OBVIOUS
    <3> HIDE DEF n
    <3> QED
      BY <3>3, <3>4, Zenon
  <2> QED
    BY <2>1, <2>2 DEF Piece
<1>22. Piece(n, npos) = second /\ SecondPiece(m) = second
  <2>1. SubSeq(buffer, n + 1, Len(buffer)) = second
    BY <1>7, <1>13, <1>14, BehindIs
  <2> QED
    BY <2>1 DEF Piece, SecondPiece, first
<1>23. Parse(second).type = SUBSCRIBE
  BY <1>12, ReadsSubscription
<1> QED
  BY <1>5, <1>15, <1>19, <1>20, <1>21, <1>22, <1>23 DEF first

\* Nothing is received before the first recv.
LEMMA InitLone == Init => LoneInv
<1> SUFFICES ASSUME Init PROVE LoneInv
  OBVIOUS
<1>1. batch = <<>> /\ Len(batch) # 1 /\ batch \in Seq(Outbox)
  BY DEF Init, NotWhole
<1> QED
  BY <1>1, InitSplit DEF LoneInv, BatchInv, WayInv

\* What does not touch the string leaves it a message that has come alone.
LEMMA SameString ==
  ASSUME BatchInv, UNCHANGED <<batch, buffer>>
  PROVE  /\ BatchInv' /\ (CleanTail' <=> CleanTail)
         /\ \A m : SecondPiece(m)' = SecondPiece(m)
<1>1. BatchInv'
  BY DEF BatchInv, Behind
<1>2. CleanTail' <=> CleanTail
  BY DEF CleanTail
<1>3. \A m : SecondPiece(m)' = SecondPiece(m)
  BY DEF SecondPiece
<1> QED
  BY <1>1, <1>2, <1>3

\* The handler has the string, and has split nothing off.
LEMMA ReceiveLone ==
  ASSUME \A m \in Outbox : Readable(m), LoneInv, NEW n \in 1..BufferSize, Receive(n)
  PROVE  LoneInv'
<1>1. SplitInv' /\ BatchInv'
  BY ReceiveSplit, ReceiveBatch DEF LoneInv
<1>2. pc' = "split" /\ calls' = <<>> /\ delimiter' = 0 /\ messages' = <<>>
  BY DEF Receive, LoneInv, SplitInv, TypeOK
<1> QED
  BY <1>1, <1>2 DEF LoneInv, WayInv, Whole, Halved

\* Short sequences, as Append makes them.
LEMMA AppendOne ==
  ASSUME NEW a
  PROVE  Append(<<>>, a) = <<a>>
OBVIOUS

LEMMA AppendTwo ==
  ASSUME NEW S, NEW a \in S, NEW b \in S
  PROVE  Append(<<a>>, b) = <<a, b>>
<1> DEFINE t == Append(<<a>>, b)
<1>1. t \in Seq(S) /\ Len(t) = 2 /\ t[1] = a /\ t[2] = b
  OBVIOUS
<1> HIDE DEF t
<1>2. t = <<a, b>>
  BY <1>1
<1> QED
  BY <1>2 DEF t

\* It splits off what is one or two pieces.
LEMMA SplitLone ==
  ASSUME \A m \in Outbox : Readable(m), LoneInv, Split
  PROVE  LoneInv'
<1> DEFINE m == batch[1]
           first == FirstPiece(m)
           second == SecondPiece(m)
<1>1. SplitInv'
  BY SplitSplit DEF LoneInv
<1>2. /\ pc = "split" /\ delimiter' = Find(delimiter)
      /\ messages' = Append(messages, Piece(delimiter, delimiter'))
      /\ pc' = IF delimiter' # npos THEN "split" ELSE "handle"
      /\ calls' = calls /\ batch' = batch /\ buffer' = buffer
  BY DEF Split, splitVars, wireVars
<1>3. BatchInv' /\ (CleanTail' <=> CleanTail) /\ SecondPiece(m)' = second
  BY <1>2, SameString DEF LoneInv, SecondPiece
<1>4. ASSUME Len(batch) = 1, CleanTail, ~Cut(m)
      PROVE  pc' = "handle" /\ calls' = <<>> /\ messages' = <<buffer>>
  <2>1. Find(0) = npos /\ Piece(0, npos) = buffer
    <3>1. /\ Readable(m)
          /\ \E tail \in Seq(Byte) : /\ buffer = Serialize(m) \o tail
                                     /\ \A k \in 1..Len(tail) : tail[k] >= 128
      BY <1>4, LoneIs DEF LoneInv
    <3> HIDE DEF m
    <3> QED
      BY <1>4, <3>1, WholeRead
  <2>2. calls = <<>> /\ delimiter = 0 /\ messages = <<>>
    BY <1>2, <1>4 DEF LoneInv, WayInv, Whole
  <2>3. Append(<<>>, buffer) = <<buffer>>
    OBVIOUS
  <2> QED
    BY <1>2, <2>1, <2>2, <2>3
<1>5. ASSUME Len(batch) = 1, CleanTail, Cut(m)
      PROVE  \/ /\ pc' = "split" /\ calls' = <<>>
                /\ delimiter' = Len(first) /\ messages' = <<first>>
             \/ pc' = "handle" /\ calls' = <<>> /\ messages' = <<first, second>>
  <2>1. /\ Len(first) \in Nat /\ Find(0) = Len(first) /\ Piece(0, Len(first)) = first
        /\ Find(Len(first)) = npos /\ Piece(Len(first), npos) = second
    <3>1. /\ Readable(m)
          /\ \E tail \in Seq(Byte) : /\ buffer = Serialize(m) \o tail
                                     /\ \A k \in 1..Len(tail) : tail[k] >= 128
      BY <1>5, LoneIs DEF LoneInv
    <3> HIDE DEF m
    <3> QED
      BY <1>5, <3>1, HalvedRead
  <2>2. /\ calls = <<>>
        /\ \/ delimiter = 0 /\ messages = <<>>
           \/ delimiter = Len(first) /\ messages = <<first>>
    BY <1>2, <1>5 DEF LoneInv, WayInv, Halved
  <2> HIDE DEF m, first, second
  <2>3. Append(<<>>, first) = <<first>> /\ Append(<<first>>, second) = <<first, second>>
    <3>1. first \in {first, second} /\ second \in {first, second}
      OBVIOUS
    <3> QED
      BY <3>1, AppendOne, AppendTwo, Zenon
  <2>4. Len(first) # npos
    BY <2>1 DEF npos
  <2> QED
    BY <1>2, <2>1, <2>2, <2>3, <2>4
<1>6. WayInv'
  <2> SUFFICES ASSUME Len(batch') = 1, CleanTail'
               PROVE  (IF Cut(m) THEN Halved(m) ELSE Whole(m))'
    BY DEF WayInv
  <2>1. Len(batch) = 1 /\ CleanTail
    BY <1>2, <1>3
  <2>2. CASE Cut(m)
    BY <1>2, <1>3, <1>5, <2>1, <2>2 DEF Halved
  <2>3. CASE ~Cut(m)
    BY <1>2, <1>4, <2>1, <2>3 DEF Whole
  <2> QED
    BY <2>2, <2>3
<1> QED
  BY <1>1, <1>3, <1>6 DEF LoneInv

\* The calls a piece leads to.
LEMMA CallsAre ==
  ASSUME NEW m
  PROVE  /\ \E S : CallsFor(m) \in Seq(S)
         /\ <<>> \o CallsFor(m) = CallsFor(m)
         /\ m.type = SUBSCRIBE => Len(CallsFor(m)) = 1
<1>1. \A x : <<>> \o <<x>> = <<x>> /\ <<x>> \in Seq({x}) /\ Len(<<x>>) = 1
  OBVIOUS
<1>2. CallsFor(m) = <<>> \/ \E x : CallsFor(m) = <<x>>
  BY DEF CallsFor
<1>3. <<>> \o <<>> = <<>> /\ <<>> \in Seq({})
  OBVIOUS
<1>4. m.type = SUBSCRIBE => \E x : CallsFor(m) = <<x>>
  BY DEF CallsFor
<1> QED
  BY <1>1, <1>2, <1>3, <1>4

\* It handles one piece, or both.
LEMMA HandleLone ==
  ASSUME \A m \in Outbox : Readable(m), LoneInv, Handle
  PROVE  LoneInv'
<1> DEFINE m == batch[1]
           first == FirstPiece(m)
           second == SecondPiece(m)
<1>1. SplitInv'
  BY HandleSplit DEF LoneInv
<1>2. /\ pc = "handle" /\ calls' = calls \o CallsFor(Parse(Head(messages)))
      /\ messages' = Tail(messages)
      /\ pc' = IF messages' = <<>> THEN "recv" ELSE "handle"
      /\ batch' = batch /\ buffer' = buffer
  BY DEF Handle, splitVars, wireVars
<1>3. BatchInv' /\ (CleanTail' <=> CleanTail) /\ SecondPiece(m)' = second
  BY <1>2, SameString DEF LoneInv, SecondPiece
<1>4. ASSUME Len(batch) = 1, CleanTail, ~Cut(m)
      PROVE  pc' = "recv" /\ calls' = CallsFor(m)
  <2>1. Parse(buffer) = m
    <3>1. /\ Readable(m)
          /\ \E tail \in Seq(Byte) : /\ buffer = Serialize(m) \o tail
                                     /\ \A k \in 1..Len(tail) : tail[k] >= 128
      BY <1>4, LoneIs DEF LoneInv
    <3> HIDE DEF m
    <3> QED
      BY <1>4, <3>1, WholeRead
  <2>2. calls = <<>> /\ messages = <<buffer>>
    BY <1>2, <1>4 DEF LoneInv, WayInv, Whole
  <2>3. Head(<<buffer>>) = buffer /\ Tail(<<buffer>>) = <<>>
    OBVIOUS
  <2>4. <<>> \o CallsFor(m) = CallsFor(m)
    BY CallsAre
  <2> HIDE DEF m
  <2> QED
    BY <1>2, <2>1, <2>2, <2>3, <2>4
<1>5. ASSUME Len(batch) = 1, CleanTail, Cut(m)
      PROVE  \/ pc' = "handle" /\ calls' = CallsFor(Bare(m)) /\ messages' = <<second>>
             \/ pc' = "recv" /\ calls' = CallsFor(Bare(m)) \o CallsFor(Parse(second))
  <2>1. Parse(first) = Bare(m)
    <3>1. /\ Readable(m)
          /\ \E tail \in Seq(Byte) : /\ buffer = Serialize(m) \o tail
                                     /\ \A k \in 1..Len(tail) : tail[k] >= 128
      BY <1>5, LoneIs DEF LoneInv
    <3> HIDE DEF m
    <3> QED
      BY <1>5, <3>1, HalvedRead
  <2>2. \/ calls = <<>> /\ messages = <<first, second>>
        \/ calls = CallsFor(Bare(m)) /\ messages = <<second>>
    BY <1>2, <1>5 DEF LoneInv, WayInv, Halved
  <2> DEFINE bare == Bare(m)
  <2>3. <<>> \o CallsFor(bare) = CallsFor(bare)
    BY CallsAre
  <2> HIDE DEF first, second, bare
  <2>4. /\ Head(<<first, second>>) = first /\ Tail(<<first, second>>) = <<second>>
        /\ Head(<<second>>) = second /\ Tail(<<second>>) = <<>> /\ <<second>> # <<>>
    OBVIOUS
  <2>5. Parse(first) = bare
    BY <2>1 DEF bare
  <2>6. CASE calls = <<>> /\ messages = <<first, second>>
    <3>1. calls' = <<>> \o CallsFor(bare) /\ messages' = <<second>>
      BY <1>2, <2>4, <2>5, <2>6
    <3>2. calls' = CallsFor(bare) /\ pc' = "handle"
      BY <1>2, <2>3, <2>4, <3>1
    <3> QED
      BY <3>1, <3>2 DEF bare
  <2>7. CASE calls = CallsFor(Bare(m)) /\ messages = <<second>>
    BY <1>2, <2>4, <2>7
  <2> QED
    BY <2>2, <2>6, <2>7 DEF bare
<1>6. WayInv'
  <2> SUFFICES ASSUME Len(batch') = 1, CleanTail'
               PROVE  (IF Cut(m) THEN Halved(m) ELSE Whole(m))'
    BY DEF WayInv
  <2>1. Len(batch) = 1 /\ CleanTail
    BY <1>2, <1>3
  <2>2. CASE Cut(m)
    BY <1>2, <1>3, <1>5, <2>1, <2>2 DEF Halved
  <2>3. CASE ~Cut(m)
    BY <1>2, <1>4, <2>1, <2>3 DEF Whole
  <2> QED
    BY <2>2, <2>3
<1> QED
  BY <1>1, <1>3, <1>6 DEF LoneInv

\* All steps keep it.
LEMMA NextLone ==
  ASSUME \A m \in Outbox : Readable(m), LoneInv, [Next]_vars
  PROVE  LoneInv'
<1>1. CASE UNCHANGED vars
  <2>1. SplitInv'
    BY NextSplit DEF LoneInv
  <2>2. /\ UNCHANGED <<batch, buffer>>
        /\ UNCHANGED <<pc, calls, delimiter, messages>>
    BY <1>1 DEF vars
  <2>3. BatchInv' /\ (CleanTail' <=> CleanTail) /\ \A m : SecondPiece(m)' = SecondPiece(m)
    BY <2>2, SameString DEF LoneInv
  <2>4. WayInv'
    BY <2>2, <2>3 DEF LoneInv, WayInv, Whole, Halved
  <2> QED
    BY <2>1, <2>3, <2>4 DEF LoneInv
<1> QED
  BY <1>1, ReceiveLone, SplitLone, HandleLone DEF Next

\* One call is made of a message in one piece, and one more than it asks for
\* of a message in two.
LEMMA LoneUnderstood ==
  ASSUME \A m \in Outbox : Readable(m), LoneInv
  PROVE  LoneMessageUnderstood
<1> SUFFICES ASSUME pc = "recv", Len(batch) = 1, CleanTail
             PROVE  calls = CallsFor(batch[1]) <=> ~Cut(batch[1])
  BY DEF LoneMessageUnderstood, Cut
<1> DEFINE m == batch[1]
<1>1. CASE ~Cut(m)
  BY <1>1 DEF LoneInv, WayInv, Whole
<1>2. CASE Cut(m)
  <2> DEFINE bare == Bare(m)
             rest == Parse(SecondPiece(m))
  <2>1. rest.type = SUBSCRIBE /\ Readable(m)
    <3>1. /\ Readable(m)
          /\ \E tail \in Seq(Byte) : /\ buffer = Serialize(m) \o tail
                                     /\ \A k \in 1..Len(tail) : tail[k] >= 128
      BY LoneIs DEF LoneInv
    <3> HIDE DEF m
    <3> QED
      BY <1>2, <3>1, HalvedRead
  <2>2. calls = CallsFor(bare) \o CallsFor(rest)
    BY <1>2 DEF LoneInv, WayInv, Halved
  <2>3. Len(CallsFor(bare)) = Len(CallsFor(m))
    <3>1. bare.type = m.type
      BY <2>1 DEF Bare, Readable, Message
    <3> HIDE DEF bare, m
    <3> QED
      BY <3>1 DEF CallsFor
  <2> HIDE DEF bare, rest
  <2>4. Len(CallsFor(bare) \o CallsFor(rest)) = Len(CallsFor(bare)) + 1 /\ Len(CallsFor(bare)) \in Nat
    <3> DEFINE s == CallsFor(bare)
               t == CallsFor(rest)
    <3>1. (\E S : s \in Seq(S)) /\ (\E T : t \in Seq(T)) /\ Len(t) = 1
      BY <2>1, CallsAre
    <3> HIDE DEF s, t
    <3>2. PICK S, T : s \in Seq(S) /\ t \in Seq(T)
      BY <3>1
    <3>3. s \in Seq(S \cup T) /\ t \in Seq(S \cup T)
      BY <3>2, SeqMonotonic
    <3>4. Len(s \o t) = Len(s) + Len(t) /\ Len(s) \in Nat
      BY <3>3, ConcatProperties, LenProperties
    <3> QED
      BY <3>1, <3>4 DEF s, t
  <2>5. Len(calls) # Len(CallsFor(m))
    BY <2>2, <2>3, <2>4
  <2> QED
    BY <1>2, <2>5
<1> QED
  BY <1>1, <1>2

\* A message that can be read at all, and is received alone with nothing
\* readable behind it, leads to exactly the call it asks for, if and only if the
\* length of its body is not taken for a delimiter: for any such messages, any
\* buffer size, any stack contents and any portions before it.
THEOREM LoneMessagesCorrect ==
  ASSUME \A m \in Outbox : Readable(m)
  PROVE  Spec => []LoneMessageUnderstood
<1>1. Init => LoneInv
  BY InitLone
<1>2. LoneInv /\ [Next]_vars => LoneInv'
  BY NextLone
<1>3. LoneInv => LoneMessageUnderstood
  BY LoneUnderstood
<1> QED
  BY <1>1, <1>2, <1>3, PTL DEF Spec

-----------------------------------------------------------------------------
(* Messages that are received together.                                     *)

Shifting ==
  batch # NotWhole /\ CleanTail /\ \A k \in DOMAIN batch : Splittable(batch[k])

\* A piece has what it finds of a message behind the type, except the first,
\* and the next message's type, or what follows the last one.
Own(k) == IF k = 1 THEN batch[1] ELSE Untagged(batch[k])
Suffix(k) == IF k < Len(batch) THEN WriteType(batch[k + 1].type) ELSE Behind
Pieces == [k \in 1..Len(batch) |-> Serialize(Own(k)) \o Suffix(k)]

\* The message that is read of it, and the calls that are made of them all.
Meant(k) ==
  [batch[k] EXCEPT !.type =
     IF k < Len(batch) /\ batch[k + 1].type # SUBSCRIBE THEN batch[k + 1].type
     ELSE IF k = 1 THEN batch[1].type ELSE SUBSCRIBE]
Asked == [k \in 1..Len(batch) |-> CallsFor(Meant(k))]

\* So many pieces are split off, or so many are handled.
ShiftInv ==
  Shifting =>
    \E j \in 0..Len(batch) :
      \/ pc = "split" /\ j < Len(batch) /\ messages = SubSeq(Pieces, 1, j) /\ calls = <<>>
      \/ /\ pc \in {"handle", "recv"} /\ messages = SubSeq(Pieces, j + 1, Len(batch))
         /\ calls = FlattenSeq(SubSeq(Asked, 1, j))

BatchesInv == SplitInv /\ BatchInv /\ ShiftInv

LEMMA BatchIs ==
  ASSUME \A m \in Outbox : Readable(m), SplitInv, BatchInv, Shifting
  PROVE  /\ batch \in Seq(Outbox) /\ Len(batch) \in Nat \ {0}
         /\ \A k \in 1..Len(batch) : /\ batch[k] \in Outbox
                                     /\ Readable(batch[k]) /\ Splittable(batch[k])
         /\ buffer = Bytes(batch) \o Behind /\ Behind \in Seq(Byte)
         /\ \A k \in 1..Len(Behind) : Behind[k] >= 128
<1>1. batch # <<>> /\ CleanTail /\ \A k \in DOMAIN batch : Splittable(batch[k])
  BY DEF Shifting, NotWhole
<1>2. /\ batch \in Seq(Outbox) /\ buffer = Bytes(batch) \o Behind /\ Behind \in Seq(Byte)
      /\ \A k \in 1..Len(Behind) : Behind[k] >= 128
  BY <1>1, TailIs
<1>3. DOMAIN batch = 1..Len(batch) /\ Len(batch) \in Nat /\ Len(batch) # 0
  BY <1>1, <1>2, LenProperties, EmptySeq
<1>4. \A k \in 1..Len(batch) : batch[k] \in Outbox
  BY <1>2, ElementOfSeq
<1> QED
  BY <1>1, <1>2, <1>3, <1>4

\* What ends a piece holds no delimiter.
LEMMA SuffixIs ==
  ASSUME \A m \in Outbox : Readable(m), SplitInv, BatchInv, Shifting, NEW k \in 1..Len(batch)
  PROVE  /\ Suffix(k) \in Seq(Byte)
         /\ \A i \in 1..Len(Suffix(k)) : Suffix(k)[i] # Delimiter
<1>1. CASE k < Len(batch)
  <2> DEFINE next == batch[k + 1]
             type == next.type
             w == WriteType(type)
  <2>1. Readable(next) /\ Splittable(next)
    <3>1. k + 1 \in 1..Len(batch)
      BY <1>1, BatchIs
    <3> QED
      BY <3>1, BatchIs
  <2>2. Suffix(k) = w
    BY <1>1 DEF Suffix
  <2> HIDE DEF next
  <2>3. w \in Seq(Byte) /\ type # Delimiter /\ w = IF type = 0 THEN <<>> ELSE <<8, type>>
    BY <2>1, UntaggedIs, SplittableIs
  <2> HIDE DEF w, type
  <2>4. \A i \in 1..Len(w) : w[i] # Delimiter
    <3>1. CASE type = 0
      BY <2>3, <3>1
    <3>2. CASE type # 0
      <4>1. Len(w) = 2 /\ w[1] = 8 /\ w[2] = type
        BY <2>3, <3>2
      <4> QED
        BY <2>3, <4>1 DEF Delimiter
    <3> QED
      BY <3>1, <3>2
  <2> QED
    BY <2>2, <2>3, <2>4
<1>2. CASE ~(k < Len(batch))
  <2>1. Suffix(k) = Behind
    BY <1>2 DEF Suffix
  <2>2. Behind \in Seq(Byte) /\ \A i \in 1..Len(Behind) : Behind[i] >= 128
    BY BatchIs
  <2>3. \A i \in 1..Len(Behind) : Behind[i] # Delimiter
    BY <2>2 DEF Delimiter
  <2> QED
    BY <2>1, <2>2, <2>3
<1> QED
  BY <1>1, <1>2

\* A piece is long enough to be split off, and holds a delimiter at most at
\* its beginning, as all but the first do.
LEMMA PieceIs ==
  ASSUME \A m \in Outbox : Readable(m), SplitInv, BatchInv, Shifting, NEW k \in 1..Len(batch)
  PROVE  LET p == Serialize(Own(k)) \o Suffix(k)
         IN  /\ Serialize(Own(k)) \in Seq(Byte) /\ Pieces[k] = p /\ p \in Seq(Byte)
             /\ Len(p) \in Nat /\ Len(p) >= Minimum
             /\ \A i \in 1..Len(p) : i > Minimum => p[i] # Delimiter
             /\ k > 1 => p[1] = Delimiter
<1> DEFINE m == batch[k]
           s == Serialize(Own(k))
           x == Suffix(k)
           p == s \o x
<1>1. Readable(m) /\ Splittable(m) /\ m \in Outbox
  BY BatchIs
<1>2. /\ s \in Seq(Byte) /\ Len(s) \in Nat /\ Len(s) >= Minimum
      /\ \A i \in 1..Len(s) : i > Minimum => s[i] # Delimiter
      /\ k > 1 => s[1] = Delimiter
  <2>1. CASE k = 1
    <3>1. s = Serialize(m)
      BY <2>1 DEF Own
    <3> HIDE DEF m, s
    <3>2. /\ Serialize(m) \in Seq(Byte) /\ Len(Serialize(m)) \in Nat
          /\ Len(Serialize(m)) >= Minimum + 2
          /\ \A i \in 1..Len(Serialize(m)) : i > Minimum => Serialize(m)[i] # Delimiter
      BY <1>1, SerializeType, SplittableIs
    <3> QED
      BY <2>1, <3>1, <3>2 DEF Minimum
  <2>2. CASE k # 1
    <3>1. s = Serialize(Untagged(m))
      BY <2>2 DEF Own
    <3> HIDE DEF m, s
    <3>2. s \in Seq(Byte)
      BY <1>1, <3>1, UntaggedIs
    <3>3. /\ Len(s) \in Nat /\ Len(s) >= Minimum /\ s[1] = Delimiter
          /\ \A i \in 1..Len(s) : i > 1 => s[i] # Delimiter
      BY <1>1, <3>1, SplittableIs
    <3> QED
      BY <3>2, <3>3 DEF Minimum
  <2> QED
    BY <2>1, <2>2
<1>3. x \in Seq(Byte) /\ \A i \in 1..Len(x) : x[i] # Delimiter
  BY SuffixIs
<1>4. Pieces[k] = p
  BY DEF Pieces
<1> HIDE DEF s, x
<1>5. /\ p \in Seq(Byte) /\ Len(p) = Len(s) + Len(x) /\ Len(x) \in Nat
      /\ \A i \in 1..Len(s) : p[i] = s[i]
      /\ \A i \in 1..Len(x) : p[Len(s) + i] = x[i]
  BY <1>2, <1>3, Joined
<1> HIDE DEF p
<1>6. ASSUME NEW i \in 1..Len(p), i > Minimum PROVE p[i] # Delimiter
  <2>1. CASE i <= Len(s)
    <3>1. i \in 1..Len(s)
      BY <1>2, <2>1
    <3> QED
      BY <1>2, <1>5, <1>6, <3>1
  <2>2. CASE i > Len(s)
    <3>1. i - Len(s) \in 1..Len(x) /\ Len(s) + (i - Len(s)) = i
      BY <1>2, <1>5, <2>2
    <3>2. p[i] = x[i - Len(s)]
      BY <1>5, <3>1
    <3> QED
      BY <1>3, <3>1, <3>2
  <2>3. i <= Len(s) \/ i > Len(s)
    BY <1>2
  <2> QED
    BY <2>1, <2>2, <2>3, Zenon
<1>7. ASSUME k > 1 PROVE p[1] = Delimiter
  <2>1. 1 \in 1..Len(s)
    BY <1>2 DEF Minimum
  <2> QED
    BY <1>2, <1>5, <1>7, <2>1
<1>8. Len(p) \in Nat /\ Len(p) >= Minimum
  BY <1>2, <1>5 DEF Minimum
<1> QED
  BY <1>2, <1>4, <1>5, <1>6, <1>7, <1>8 DEF p, s, x

\* It is read as the message with the next one's type, if that has one.
LEMMA PieceReads ==
  ASSUME \A m \in Outbox : Readable(m), SplitInv, BatchInv, Shifting, NEW k \in 1..Len(batch)
  PROVE  Parse(Pieces[k]) = Meant(k)
<1> DEFINE m == batch[k]
           own == Own(k)
           last == IF k = 1 THEN m.type ELSE SUBSCRIBE
<1>1. Readable(m)
  BY BatchIs
<1>2. Pieces[k] = Serialize(own) \o Suffix(k)
  BY DEF Pieces
<1>3. /\ Plain(own) /\ own = [type |-> last, topic |-> m.topic, jsonbody |-> m.jsonbody]
      /\ m = [type |-> m.type, topic |-> m.topic, jsonbody |-> m.jsonbody]
  <2>1. own = IF k = 1 THEN m ELSE Untagged(m)
    BY DEF Own
  <2> HIDE DEF m, own
  <2>2. /\ Plain(m) /\ Plain(Untagged(m))
        /\ Untagged(m) = [type |-> SUBSCRIBE, topic |-> m.topic, jsonbody |-> m.jsonbody]
        /\ m = [type |-> m.type, topic |-> m.topic, jsonbody |-> m.jsonbody]
    BY <1>1, ReadableIs, UntaggedIs
  <2> QED
    BY <2>1, <2>2
<1>4. CASE k < Len(batch)
  <2> DEFINE type == batch[k + 1].type
  <2>1. type \in 0..127
    <3>1. k + 1 \in 1..Len(batch)
      BY <1>4, BatchIs
    <3>2. Readable(batch[k + 1])
      BY <3>1, BatchIs
    <3> QED
      BY <3>2, ReadableIs
  <2>2. Suffix(k) = WriteType(type)
    BY <1>4 DEF Suffix
  <2>3. Meant(k) = [m EXCEPT !.type = IF type # 0 THEN type ELSE last]
    BY <1>4 DEF Meant, SUBSCRIBE
  <2> HIDE DEF m, own, type, last
  <2>4. Parse(Pieces[k]) = IF type = 0 THEN own ELSE [own EXCEPT !.type = type]
    <3>1. Plain(own)
      BY <1>3
    <3>2. Parse(Serialize(own) \o WriteType(type)) = IF type = 0 THEN own ELSE [own EXCEPT !.type = type]
      BY <2>1, <3>1, ReadsRetyped
    <3>3. Pieces[k] = Serialize(own) \o WriteType(type)
      BY <1>2, <2>2
    <3> QED
      BY <3>2, <3>3
  <2>5. \A t : /\ [m EXCEPT !.type = t] = [type |-> t, topic |-> m.topic, jsonbody |-> m.jsonbody]
               /\ [own EXCEPT !.type = t] = [type |-> t, topic |-> m.topic, jsonbody |-> m.jsonbody]
    BY <1>3, SetField
  <2> QED
    BY <1>3, <2>3, <2>4, <2>5
<1>5. CASE ~(k < Len(batch))
  <2>1. Suffix(k) = Behind /\ Behind \in Seq(Byte) /\ ~HasVarint(Behind)
    <3>1. Behind \in Seq(Byte) /\ \A i \in 1..Len(Behind) : Behind[i] >= 128
      BY BatchIs
    <3>2. ~HasVarint(Behind)
      BY <3>1, Unreadable
    <3> QED
      BY <1>5, <3>1, <3>2 DEF Suffix
  <2>2. Meant(k) = [m EXCEPT !.type = last]
    BY <1>5 DEF Meant
  <2> HIDE DEF m, own, last
  <2>3. Parse(Pieces[k]) = own
    BY <1>2, <1>3, <2>1, ReadsBack
  <2>4. [m EXCEPT !.type = last] = [type |-> last, topic |-> m.topic, jsonbody |-> m.jsonbody]
    BY <1>3, SetField
  <2> QED
    BY <1>3, <2>2, <2>3, <2>4
<1> QED
  BY <1>4, <1>5

\* Joined, the pieces are the string.
LEMMA PiecesJoin ==
  ASSUME \A m \in Outbox : Readable(m), SplitInv, BatchInv, Shifting
  PROVE  Pieces \in Seq(Seq(Byte)) /\ Len(Pieces) = Len(batch) /\ FlattenSeq(Pieces) = buffer
<1> DEFINE n == Len(batch)
           all == Pieces
           Begun(j) == Bytes(SubSeq(batch, 1, j))
           Joint(j) == FlattenSeq(SubSeq(all, 1, j))
           T == {j \in 0..n : j # 0 => Begun(j) \o Suffix(j) = Joint(j)}
<1>1. batch \in Seq(Outbox) /\ n \in Nat \ {0} /\ buffer = Bytes(batch) \o Behind
  BY BatchIs
<1>2. all \in Seq(Seq(Byte)) /\ Len(all) = n
  <2>1. \A k \in 1..n : all[k] \in Seq(Byte)
    BY PieceIs
  <2>2. all = [k \in 1..n |-> all[k]]
    BY DEF Pieces
  <2> HIDE DEF all
  <2>3. all \in [1..n -> Seq(Byte)]
    BY <2>1, <2>2
  <2> QED
    BY <1>1, <2>3, SeqDef, LenProperties
<1>3. ASSUME NEW j \in 0..n, j \in T, j < n PROVE j + 1 \in T
  <2> DEFINE i == j + 1
             a == Begun(j)
             s == Serialize(batch[i])
             own == Serialize(Own(i))
             x == Suffix(i)
  <2>1. i \in 1..n /\ i \in 0..n /\ j \in 0..n - 1 /\ j \in 0..Len(all) - 1
    BY <1>1, <1>2, <1>3
  <2>2. Begun(i) = a \o s
    BY <1>1, <2>1, BytesStep
  <2>3. Joint(i) = Joint(j) \o (own \o x)
    <3>1. Joint(i) = Joint(j) \o all[i]
      <4> HIDE DEF all
      <4> QED
        BY <1>2, <2>1, FlattenStep
    <3>2. all[i] = own \o x
      BY <2>1 DEF Pieces
    <3> QED
      BY <3>1, <3>2
  <2>4. a \in Seq(Byte) /\ own \in Seq(Byte) /\ x \in Seq(Byte)
    <3>1. SubSeq(batch, 1, j) \in Seq(Outbox)
      BY <1>1, <1>3
    <3> QED
      BY <2>1, <3>1, BytesType, PieceIs, SuffixIs
  <2>5. (a \o s) \o x = Joint(j) \o (own \o x)
    <3>1. CASE j = 0
      <4>1. own = s
        BY <3>1 DEF Own
      <4>2. a = <<>> /\ Joint(j) = <<>>
        <5>1. SubSeq(batch, 1, 0) = <<>> /\ SubSeq(all, 1, 0) = <<>>
          BY SubSeqEmpty
        <5>2. DOMAIN <<>> = {}
          OBVIOUS
        <5>3. Bytes(<<>>) = <<>>
          BY <5>2, FlattenEmpty DEF Bytes
        <5> QED
          BY <3>1, <5>1, <5>3, FlattenEmpty
      <4> HIDE DEF a, s, own, x, Joint
      <4>3. own \o x \in Seq(Byte)
        BY <2>4, ConcatProperties
      <4> QED
        BY <2>4, <4>1, <4>2, <4>3, ConcatEmptySeq
    <3>2. CASE j # 0
      <4> DEFINE w == WriteType(batch[i].type)
      <4>1. own = Serialize(Untagged(batch[i])) /\ Suffix(j) = w
        BY <1>3, <3>2 DEF Own, Suffix
      <4>2. w \in Seq(Byte) /\ s = w \o own
        <5>1. Readable(batch[i])
          BY <2>1, BatchIs
        <5> QED
          BY <4>1, <5>1, UntaggedIs
      <4>3. Joint(j) = a \o w
        BY <1>3, <3>2, <4>1
      <4> HIDE DEF a, s, own, x, w, Joint
      <4>4. (a \o (w \o own)) \o x = (a \o w) \o (own \o x)
        <5>1. a \in Seq(Byte) /\ w \in Seq(Byte) /\ own \in Seq(Byte) /\ x \in Seq(Byte)
          BY <2>4, <4>2
        <5>2. a \o w \in Seq(Byte)
          BY <5>1, ConcatProperties
        <5>3. a \o (w \o own) = (a \o w) \o own
          BY <5>1, Associative, Zenon
        <5>4. ((a \o w) \o own) \o x = (a \o w) \o (own \o x)
          BY <5>1, <5>2, Associative, Zenon
        <5> QED
          BY <5>3, <5>4
      <4> QED
        BY <4>2, <4>3, <4>4
    <3> QED
      BY <3>1, <3>2
  <2>6. Begun(i) \o Suffix(i) = Joint(i)
    BY <2>2, <2>3, <2>5
  <2> HIDE DEF Begun, Joint
  <2> QED
    BY <2>1, <2>6
<1>4. n \in T
  <2>1. 0 \in T
    BY <1>1
  <2> HIDE DEF T
  <2>2. \A j \in 0..n : j \in T
    BY <1>1, <1>3, <2>1, UpTo
  <2> QED
    BY <1>1, <2>2
<1>5. Begun(n) = Bytes(batch) /\ Joint(n) = FlattenSeq(all) /\ Suffix(n) = Behind
  <2>1. SubSeq(batch, 1, n) = batch
    BY <1>1, SubSeqFull
  <2>2. SubSeq(all, 1, n) = all
    <3> HIDE DEF all
    <3> QED
      BY <1>2, SubSeqFull
  <2>3. Suffix(n) = Behind
    BY <1>1 DEF Suffix
  <2> QED
    BY <2>1, <2>2, <2>3
<1>6. Begun(n) \o Suffix(n) = Joint(n)
  <2> HIDE DEF Begun, Joint
  <2> QED
    BY <1>1, <1>4
<1> QED
  BY <1>1, <1>2, <1>5, <1>6

\* The search finds the end of a piece where the next one begins,
LEMMA FindsNext ==
  ASSUME NEW u \in Seq(Byte), NEW p \in Seq(Byte), NEW v \in Seq(Byte),
         buffer = u \o (p \o v), v # <<>>, v[1] = Delimiter, Len(p) >= Minimum,
         \A i \in 1..Len(p) : i > Minimum => p[i] # Delimiter
  PROVE  LET from == Len(u)
         IN  Find(from) # npos /\ Piece(from, Find(from)) = p
<1> DEFINE w == p \o v
           from == Len(u)
           to == from + Len(p)
<1>1. /\ w \in Seq(Byte) /\ Len(w) = Len(p) + Len(v) /\ Len(p) \in Nat /\ Len(v) \in Nat
      /\ \A i \in 1..Len(p) : w[i] = p[i]
      /\ \A i \in 1..Len(v) : w[Len(p) + i] = v[i]
  BY Joined
<1>2. 1 \in 1..Len(v)
  BY <1>1, EmptySeq
<1> HIDE DEF w
<1>3. /\ u \o w \in Seq(Byte) /\ Len(u \o w) = from + Len(w) /\ from \in Nat
      /\ \A i \in 1..Len(w) : (u \o w)[from + i] = w[i]
  <2>1. w \in Seq(Byte)
    BY <1>1
  <2> QED
    BY <2>1, Joined
<1>4. /\ buffer \in Seq(Byte) /\ Len(buffer) = to + Len(v) /\ to \in Nat
      /\ \A i \in 1..Len(p) : buffer[from + i] = p[i]
      /\ buffer[to + 1] = Delimiter
  <2>1. buffer = u \o w
    BY DEF w
  <2>2. ASSUME NEW i \in 1..Len(p) PROVE buffer[from + i] = p[i]
    <3>1. i \in 1..Len(w)
      BY <1>1
    <3> QED
      BY <1>1, <1>3, <2>1, <3>1
  <2>3. buffer[to + 1] = v[1]
    <3>1. Len(p) + 1 \in 1..Len(w) /\ from + (Len(p) + 1) = to + 1
      BY <1>1, <1>2, <1>3
    <3>2. w[Len(p) + 1] = v[1]
      BY <1>1, <1>2
    <3> QED
      BY <1>3, <2>1, <3>1, <3>2
  <2> QED
    BY <1>1, <1>3, <2>1, <2>2, <2>3
<1>5. Find(from) = to
  <2>1. to \in from + Minimum .. Len(buffer) - 1
    BY <1>1, <1>2, <1>3, <1>4 DEF Minimum
  <2>2. ASSUME NEW k \in from + Minimum + 1 .. to PROVE buffer[k] # Delimiter
    <3>1. k - from \in 1..Len(p) /\ k - from > Minimum /\ from + (k - from) = k
      BY <1>1, <1>3 DEF Minimum
    <3> QED
      BY <1>4, <3>1
  <2> HIDE DEF from, to
  <2> QED
    BY <1>3, <1>4, <2>1, <2>2, FindIs
<1>6. SubSeq(buffer, from + 1, to) = p
  <2> DEFINE s == SubSeq(buffer, from + 1, to)
  <2>1. s \in Seq(Byte) /\ Len(s) = Len(p)
    BY <1>1, <1>3, <1>4
  <2>2. ASSUME NEW k \in 1..Len(p) PROVE s[k] = p[k]
    <3>1. s[k] = buffer[(from + 1) + k - 1] /\ (from + 1) + k - 1 = from + k
      BY <1>1, <1>3, <1>4
    <3> QED
      BY <1>4, <3>1
  <2> HIDE DEF s
  <2>3. s = p
    BY <2>1, <2>2, SeqEqual
  <2> QED
    BY <2>3 DEF s
<1>7. to # npos
  BY <1>4 DEF npos
<1> QED
  BY <1>5, <1>6, <1>7 DEF Piece

\* or says that it is the last.
LEMMA FindsEnd ==
  ASSUME NEW u \in Seq(Byte), NEW p \in Seq(Byte), buffer = u \o p,
         \A i \in 1..Len(p) : i > Minimum => p[i] # Delimiter
  PROVE  Find(Len(u)) = npos /\ Piece(Len(u), npos) = p
<1> DEFINE from == Len(u)
<1>1. /\ Len(u \o p) = from + Len(p) /\ from \in Nat /\ Len(p) \in Nat
      /\ \A i \in 1..Len(p) : (u \o p)[from + i] = p[i]
  BY Joined
<1>2. Find(from) = npos
  <2>1. ASSUME NEW k \in from + Minimum + 1 .. Len(buffer) PROVE buffer[k] # Delimiter
    <3>1. k - from \in 1..Len(p) /\ k - from > Minimum /\ from + (k - from) = k
      BY <1>1 DEF Minimum
    <3> QED
      BY <1>1, <3>1
  <2> HIDE DEF from
  <2> QED
    BY <1>1, <2>1, FindNone
<1>3. SubSeq(buffer, from + 1, Len(buffer)) = p
  BY BehindIs
<1> QED
  BY <1>2, <1>3 DEF Piece

\* What the next piece begins with is what ends the search for this one.
LEMMA SplitsPiece ==
  ASSUME \A m \in Outbox : Readable(m), SplitInv, BatchInv, Shifting, pc = "split",
         NEW j \in 0..Len(batch) - 1, messages = SubSeq(Pieces, 1, j)
  PROVE  /\ Piece(delimiter, Find(delimiter)) = Pieces[j + 1]
         /\ Find(delimiter) = npos <=> j + 1 = Len(batch)
<1> DEFINE n == Len(batch)
           all == Pieces
           u == FlattenSeq(messages)
           p == all[j + 1]
           v == FlattenSeq(SubSeq(all, (j + 1) + 1, n))
<1>1. n \in Nat /\ all \in Seq(Seq(Byte)) /\ Len(all) = n /\ FlattenSeq(all) = buffer
  BY BatchIs, PiecesJoin
<1>2. /\ buffer \in Seq(Byte) /\ messages \in Seq(Seq(Byte)) /\ delimiter \in Nat
      /\ delimiter <= Len(buffer) /\ u = SubSeq(buffer, 1, delimiter)
  BY LenProperties DEF SplitInv, TypeOK, PiecesPartition, Minimum
<1>3. u \in Seq(Byte) /\ Len(u) = delimiter
  <2> HIDE DEF u
  <2>1. Len(buffer) \in Nat
    BY <1>2, LenProperties
  <2> QED
    BY <1>2, <2>1
<1>4. j + 1 \in 1..n /\ j \in 0..n /\ j + 1 \in 0..n
  BY <1>1
<1>5. /\ p \in Seq(Byte) /\ Len(p) >= Minimum
      /\ \A i \in 1..Len(p) : i > Minimum => p[i] # Delimiter
  <2> DEFINE k == j + 1
             piece == Pieces[k]
  <2>1. k \in 1..n
    BY <1>4
  <2> HIDE DEF k, all
  <2>2. /\ piece \in Seq(Byte) /\ Len(piece) >= Minimum
        /\ \A i \in 1..Len(piece) : i > Minimum => piece[i] # Delimiter
    BY <2>1, PieceIs
  <2> QED
    BY <2>2 DEF k, all
<1>6. j + 1 < n => j + 2 \in 1..n /\ all[j + 2][1] = Delimiter /\ Len(all[j + 2]) >= Minimum
  <2> SUFFICES ASSUME j + 1 < n
               PROVE  j + 2 \in 1..n /\ all[j + 2][1] = Delimiter /\ Len(all[j + 2]) >= Minimum
    OBVIOUS
  <2> DEFINE k == j + 2
  <2>1. k \in 1..n /\ k > 1
    BY <1>1
  <2> HIDE DEF k, all
  <2>2. Pieces[k][1] = Delimiter /\ Len(Pieces[k]) >= Minimum
    BY <2>1, PieceIs
  <2> QED
    BY <2>1, <2>2 DEF k, all
<1> HIDE DEF all
<1>7. buffer = u \o (p \o v) /\ v \in Seq(Byte)
  <2>1. /\ SubSeq(all, (j + 1) + 1, n) \in Seq(Seq(Byte))
        /\ FlattenSeq(all) = FlattenSeq(SubSeq(all, 1, j)) \o FlattenSeq(SubSeq(all, j + 1, n))
    BY <1>1, <1>4, FlattenSplit
  <2>2. FlattenSeq(SubSeq(all, j + 1, n)) = p \o v
    BY <1>1, FlattenFrom
  <2>3. u = FlattenSeq(SubSeq(all, 1, j))
    BY DEF all
  <2> QED
    BY <1>1, <2>1, <2>2, <2>3, FlattenType
<1>8. CASE j + 1 < n
  <2> DEFINE next == all[j + 2]
             rest == FlattenSeq(SubSeq(all, (j + 2) + 1, n))
  <2>1. j + 1 \in 0..n - 1 /\ (j + 1) + 1 = j + 2 /\ j + 2 \in 0..n
    BY <1>1, <1>4, <1>8
  <2>2. v = next \o rest
    <3> DEFINE k == j + 1
    <3>1. k \in 0..n - 1
      BY <2>1
    <3> HIDE DEF k
    <3>2. FlattenSeq(SubSeq(all, k + 1, n)) = all[k + 1] \o FlattenSeq(SubSeq(all, (k + 1) + 1, n))
      BY <1>1, <3>1, FlattenFrom
    <3> QED
      BY <2>1, <3>2 DEF k
  <2>3. next \in Seq(Byte) /\ rest \in Seq(Byte)
    <3>1. SubSeq(all, (j + 2) + 1, n) \in Seq(Seq(Byte))
      BY <1>1, <2>1, FlattenSplit
    <3>2. next \in Seq(Byte)
      BY <1>1, <1>6, <1>8, ElementOfSeq
    <3> QED
      BY <3>1, <3>2, FlattenType
  <2>4. next[1] = Delimiter /\ Len(next) >= Minimum
    BY <1>6, <1>8
  <2> HIDE DEF next, rest, v
  <2>5. v # <<>> /\ v[1] = Delimiter
    <3>1. /\ Len(next \o rest) = Len(next) + Len(rest) /\ Len(next) \in Nat /\ Len(rest) \in Nat
          /\ \A i \in 1..Len(next) : (next \o rest)[i] = next[i]
      BY <2>3, Joined
    <3>2. 1 \in 1..Len(next)
      BY <2>4, <3>1 DEF Minimum
    <3>3. v[1] = Delimiter /\ Len(v) # 0
      BY <2>2, <2>4, <3>1, <3>2
    <3> QED
      BY <3>3
  <2> HIDE DEF u, p
  <2>6. Find(Len(u)) # npos /\ Piece(Len(u), Find(Len(u))) = p
    BY <1>3, <1>5, <1>7, <2>5, FindsNext
  <2> QED
    BY <1>1, <1>3, <1>8, <2>6 DEF p, all
<1>9. CASE j + 1 = n
  <2>1. v = <<>>
    <3>1. SubSeq(all, (j + 1) + 1, n) = <<>>
      BY <1>1, <1>9, SubSeqEmpty
    <3> QED
      BY <3>1, FlattenEmpty
  <2> HIDE DEF u, p, v
  <2>2. buffer = u \o p
    <3>1. p \o <<>> = p
      BY <1>5, ConcatEmptySeq
    <3> QED
      BY <1>7, <2>1, <3>1
  <2>3. Find(Len(u)) = npos /\ Piece(Len(u), npos) = p
    BY <1>3, <1>5, <2>2, FindsEnd
  <2> QED
    BY <1>3, <1>9, <2>3 DEF p, all
<1> QED
  BY <1>1, <1>4, <1>8, <1>9

\* The calls are sequences of them.
LEMMA AskedIs ==
  ASSUME NEW n, n = Len(batch), n \in Nat
  PROVE  \E S : Asked \in Seq(Seq(S)) /\ Len(Asked) = n
<1> DEFINE S == {CallsFor(Meant(k))[1] : k \in 1..n}
<1>1. Asked = [k \in 1..n |-> CallsFor(Meant(k))]
  BY DEF Asked
<1>2. ASSUME NEW k \in 1..n PROVE CallsFor(Meant(k)) \in Seq(S)
  <2> DEFINE calling == CallsFor(Meant(k))
  <2>1. calling[1] \in S
    OBVIOUS
  <2>2. calling = <<>> \/ \E x : calling = <<x>>
    BY DEF CallsFor
  <2> HIDE DEF calling, S
  <2>3. calling = <<>> \/ calling = <<calling[1]>>
    BY <2>2
  <2> DEFINE first == calling[1]
  <2>4. first \in S /\ (calling = <<>> \/ calling = <<first>>)
    BY <2>1, <2>3
  <2> HIDE DEF first
  <2>5. <<>> \in Seq(S) /\ <<first>> \in Seq(S)
    BY <2>4
  <2> QED
    BY <2>4, <2>5 DEF calling
<1> HIDE DEF S
<1>3. Asked \in [1..n -> Seq(S)]
  BY <1>1, <1>2
<1>4. Asked \in Seq(Seq(S)) /\ Len(Asked) = n
  BY <1>3, SeqDef, LenProperties
<1> QED
  BY <1>4

\* Nothing is received before the first recv.
LEMMA InitBatches == Init => BatchesInv
<1> SUFFICES ASSUME Init PROVE BatchesInv
  OBVIOUS
<1>1. batch = NotWhole /\ batch = <<>> /\ batch \in Seq(Outbox)
  BY DEF Init, NotWhole
<1> QED
  BY <1>1, InitSplit DEF BatchesInv, BatchInv, ShiftInv, Shifting

\* What does not touch the string leaves the pieces what they are.
LEMMA SamePieces ==
  ASSUME BatchInv, UNCHANGED <<batch, buffer>>
  PROVE  BatchInv' /\ (Shifting' => Shifting) /\ Pieces' = Pieces /\ Asked' = Asked
<1>1. BatchInv' /\ (CleanTail' <=> CleanTail)
  BY SameString
<1>2. Shifting' => Shifting
  BY <1>1 DEF Shifting
<1>3. Behind' = Behind
  BY DEF Behind
<1>4. Pieces' = Pieces
  BY <1>3 DEF Pieces, Own, Suffix
<1>5. Asked' = Asked
  BY DEF Asked, Meant
<1> QED
  BY <1>1, <1>2, <1>4, <1>5

\* The handler has the string, and has split nothing off.
LEMMA ReceiveBatches ==
  ASSUME \A m \in Outbox : Readable(m), BatchesInv, NEW n \in 1..BufferSize, Receive(n)
  PROVE  BatchesInv'
<1>1. SplitInv' /\ BatchInv'
  BY ReceiveSplit, ReceiveBatch DEF BatchesInv
<1>2. pc' = "split" /\ calls' = <<>> /\ messages' = <<>>
  BY DEF Receive, BatchesInv, SplitInv, TypeOK
<1>3. ShiftInv'
  <2> SUFFICES ASSUME Shifting'
               PROVE  0 \in 0..Len(batch') /\ 0 < Len(batch') /\ messages' = SubSeq(Pieces', 1, 0)
    BY <1>2 DEF ShiftInv
  <2>1. batch' \in Seq(Outbox) /\ batch' # <<>>
    BY <1>1 DEF BatchInv, Shifting, NotWhole
  <2>2. Len(batch') \in Nat /\ Len(batch') # 0
    BY <2>1, LenProperties, EmptySeq
  <2>3. SubSeq(Pieces', 1, 0) = <<>>
    BY SubSeqEmpty
  <2> QED
    BY <1>2, <2>2, <2>3
<1> QED
  BY <1>1, <1>3 DEF BatchesInv

\* One more piece is split off, or the last.
LEMMA SplitBatches ==
  ASSUME \A m \in Outbox : Readable(m), BatchesInv, Split
  PROVE  BatchesInv'
<1>1. /\ pc = "split" /\ UNCHANGED <<batch, buffer, calls>>
      /\ messages' = Append(messages, Piece(delimiter, Find(delimiter)))
      /\ pc' = IF Find(delimiter) # npos THEN "split" ELSE "handle"
  BY DEF Split, splitVars, wireVars
<1>2. SplitInv'
  BY SplitSplit DEF BatchesInv
<1>3. BatchInv' /\ (Shifting' => Shifting) /\ Pieces' = Pieces /\ Asked' = Asked
  BY <1>1, SamePieces DEF BatchesInv
<1>4. ShiftInv'
  <2> SUFFICES ASSUME Shifting'
               PROVE  \E i \in 0..Len(batch) :
                        \/ /\ pc' = "split" /\ i < Len(batch) /\ messages' = SubSeq(Pieces, 1, i)
                           /\ calls = <<>>
                        \/ /\ pc' \in {"handle", "recv"}
                           /\ messages' = SubSeq(Pieces, i + 1, Len(batch))
                           /\ calls = FlattenSeq(SubSeq(Asked, 1, i))
    BY <1>1, <1>3 DEF ShiftInv
  <2>1. SplitInv /\ BatchInv /\ Shifting
    BY <1>3 DEF BatchesInv
  <2> DEFINE n == Len(batch)
  <2>2. n \in Nat /\ Pieces \in Seq(Seq(Byte)) /\ Len(Pieces) = n
    BY <2>1, BatchIs, PiecesJoin
  <2>3. PICK j \in 0..n : j < n /\ messages = SubSeq(Pieces, 1, j) /\ calls = <<>>
    BY <1>1, <1>3 DEF BatchesInv, ShiftInv
  <2>4. j \in 0..n - 1 /\ j + 1 \in 0..n
    BY <2>2, <2>3
  <2>5. /\ Piece(delimiter, Find(delimiter)) = Pieces[j + 1]
        /\ Find(delimiter) = npos <=> j + 1 = n
    BY <1>1, <2>1, <2>3, <2>4, SplitsPiece
  <2>6. messages' = SubSeq(Pieces, 1, j + 1)
    <3>1. SubSeq(Pieces, 1, j + 1) = Append(SubSeq(Pieces, 1, j), Pieces[j + 1])
      BY <2>2, <2>4, SubSeqStep
    <3> QED
      BY <1>1, <2>3, <2>5, <3>1
  <2>7. CASE j + 1 < n
    <3>1. pc' = "split"
      BY <1>1, <2>2, <2>5, <2>7
    <3> QED
      BY <2>3, <2>4, <2>6, <2>7, <3>1
  <2>8. CASE j + 1 = n
    <3>1. pc' = "handle"
      BY <1>1, <2>5, <2>8
    <3>2. messages' = SubSeq(Pieces, 0 + 1, n)
      BY <2>6, <2>8
    <3>3. calls = FlattenSeq(SubSeq(Asked, 1, 0))
      <4>1. SubSeq(Asked, 1, 0) = <<>>
        BY SubSeqEmpty
      <4> QED
        BY <2>3, <4>1, FlattenEmpty
    <3>4. 0 \in 0..n
      BY <2>2
    <3> QED
      BY <3>1, <3>2, <3>3, <3>4
  <2> QED
    BY <2>2, <2>4, <2>7, <2>8
<1> QED
  BY <1>2, <1>3, <1>4 DEF BatchesInv

\* One more piece is handled.
LEMMA HandleBatches ==
  ASSUME \A m \in Outbox : Readable(m), BatchesInv, Handle
  PROVE  BatchesInv'
<1>1. /\ pc = "handle" /\ UNCHANGED <<batch, buffer>> /\ messages # <<>>
      /\ calls' = calls \o CallsFor(Parse(Head(messages))) /\ messages' = Tail(messages)
      /\ pc' \in {"handle", "recv"}
  BY DEF Handle, splitVars, wireVars, BatchesInv, SplitInv, TypeOK
<1>2. SplitInv'
  BY HandleSplit DEF BatchesInv
<1>3. BatchInv' /\ (Shifting' => Shifting) /\ Pieces' = Pieces /\ Asked' = Asked
  BY <1>1, SamePieces DEF BatchesInv
<1>4. ShiftInv'
  <2> SUFFICES ASSUME Shifting'
               PROVE  \E i \in 0..Len(batch) :
                        /\ messages' = SubSeq(Pieces, i + 1, Len(batch))
                        /\ calls' = FlattenSeq(SubSeq(Asked, 1, i))
    BY <1>1, <1>3 DEF ShiftInv
  <2>1. SplitInv /\ BatchInv /\ Shifting
    BY <1>3 DEF BatchesInv
  <2> DEFINE n == Len(batch)
  <2>2. n \in Nat /\ Pieces \in Seq(Seq(Byte)) /\ Len(Pieces) = n
    BY <2>1, BatchIs, PiecesJoin
  <2>3. PICK S : Asked \in Seq(Seq(S)) /\ Len(Asked) = n
    BY <2>2, AskedIs
  <2>4. PICK j \in 0..n : /\ messages = SubSeq(Pieces, j + 1, n)
                          /\ calls = FlattenSeq(SubSeq(Asked, 1, j))
    BY <1>1, <1>3 DEF BatchesInv, ShiftInv
  <2>5. j \in 0..n - 1 /\ j + 1 \in 1..n /\ j + 1 \in 0..n
    <3>1. j # n
      <4> SUFFICES ASSUME j = n PROVE FALSE
        OBVIOUS
      <4>1. SubSeq(Pieces, n + 1, n) = <<>>
        BY <2>2, SubSeqEmpty
      <4> QED
        BY <1>1, <2>4, <4>1
    <3> QED
      BY <2>2, <3>1
  <2>6. /\ Head(messages) = Pieces[j + 1] /\ messages' = SubSeq(Pieces, (j + 1) + 1, n)
    BY <1>1, <2>2, <2>4, <2>5, FlattenFrom
  <2>7. CallsFor(Parse(Head(messages))) = Asked[j + 1]
    <3>1. Parse(Pieces[j + 1]) = Meant(j + 1)
      BY <2>1, <2>5, PieceReads
    <3>2. Asked[j + 1] = CallsFor(Meant(j + 1))
      BY <2>5 DEF Asked
    <3> QED
      BY <2>6, <3>1, <3>2
  <2>8. calls' = FlattenSeq(SubSeq(Asked, 1, j + 1))
    <3>1. FlattenSeq(SubSeq(Asked, 1, j + 1)) = FlattenSeq(SubSeq(Asked, 1, j)) \o Asked[j + 1]
      BY <2>3, <2>5, FlattenStep
    <3> QED
      BY <1>1, <2>4, <2>7, <3>1
  <2> QED
    BY <2>5, <2>6, <2>8
<1> QED
  BY <1>2, <1>3, <1>4 DEF BatchesInv

\* All steps keep it.
LEMMA NextBatches ==
  ASSUME \A m \in Outbox : Readable(m), BatchesInv, [Next]_vars
  PROVE  BatchesInv'
<1>1. CASE UNCHANGED vars
  <2>1. SplitInv'
    BY NextSplit DEF BatchesInv
  <2>2. UNCHANGED <<batch, buffer>> /\ UNCHANGED <<pc, calls, messages>>
    BY <1>1 DEF vars
  <2>3. BatchInv' /\ (Shifting' => Shifting) /\ Pieces' = Pieces /\ Asked' = Asked
    BY <2>2, SamePieces DEF BatchesInv
  <2>4. ShiftInv'
    BY <2>2, <2>3 DEF BatchesInv, ShiftInv
  <2> QED
    BY <2>1, <2>3, <2>4 DEF BatchesInv
<1> QED
  BY <1>1, ReceiveBatches, SplitBatches, HandleBatches DEF Next

\* When all pieces are handled, the calls are those of all messages.
LEMMA BatchesShifted ==
  ASSUME \A m \in Outbox : Readable(m), BatchesInv
  PROVE  TypesShiftInBatch
<1> SUFFICES ASSUME pc = "recv", Shifting PROVE calls = FlattenSeq(Asked)
  BY DEF TypesShiftInBatch, Shifting, Asked, Meant
<1> DEFINE n == Len(batch)
<1>1. n \in Nat /\ Pieces \in Seq(Seq(Byte)) /\ Len(Pieces) = n
  BY BatchIs, PiecesJoin DEF BatchesInv
<1>2. PICK S : Asked \in Seq(Seq(S)) /\ Len(Asked) = n
  BY <1>1, AskedIs
<1>3. PICK j \in 0..n : /\ messages = SubSeq(Pieces, j + 1, n)
                        /\ calls = FlattenSeq(SubSeq(Asked, 1, j))
  BY DEF BatchesInv, ShiftInv
<1>4. messages = <<>>
  BY DEF BatchesInv, SplitInv, TypeOK
<1>5. j = n
  <2> SUFFICES ASSUME j # n PROVE FALSE
    OBVIOUS
  <2>1. j \in 0..Len(Pieces) - 1
    BY <1>1
  <2>2. SubSeq(Pieces, j + 1, n) # <<>>
    BY <1>1, <2>1, FlattenFrom
  <2> QED
    BY <1>3, <1>4, <2>2
<1>6. SubSeq(Asked, 1, n) = Asked
  BY <1>2, SubSeqFull
<1> QED
  BY <1>3, <1>5, <1>6

\* Messages that can be read at all, that a delimiter divides only at their
\* topics and that arrive together whole, with nothing readable behind them,
\* each take the type of the one behind: for any number of such messages, any
\* buffer size, any stack contents and any portions before them.
THEOREM BatchesShiftTypes ==
  ASSUME \A m \in Outbox : Readable(m)
  PROVE  Spec => []TypesShiftInBatch
<1>1. Init => BatchesInv
  BY InitBatches
<1>2. BatchesInv /\ [Next]_vars => BatchesInv'
  BY NextBatches
<1>3. BatchesInv => TypesShiftInBatch
  BY BatchesShifted
<1> QED
  BY <1>1, <1>2, <1>3, PTL DEF Spec
=============================================================================
