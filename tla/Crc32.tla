-------------------------------- MODULE Crc32 --------------------------------
(***************************************************************************)
(* Algorithm::CRC32, a step for each turn of its two loops.  A word is the *)
(* set of its bits that are one, bit 0 the lowest.                         *)
(***************************************************************************)
EXTENDS Integers, Sequences, SequencesExt

CONSTANTS
  Chars,      \* the chars that occur, as sets of bits 0 to 7
  MaxLength,  \* bound on the length of the buffer
  NoResult    \* the call has not returned

ASSUME CharsHaveEightBits == \A b \in Chars : b \subseteq 0..7
ASSUME MaxLengthNat == MaxLength \in Nat

VARIABLES
  buffer,  \* the argument, and how much of it has been read
  read,
  crc,
  k,       \* turns of the inner loop to go
  result

vars == <<buffer, read, crc, k, result>>

Bits == 0..31

\* Fault: 0x04c11db7, the generator with its highest exponent in bit 31.
POLYUnreflected == {26, 23, 22, 16, 12, 11, 10, 8, 7, 5, 4, 2, 1, 0}

\* 0xedb88320
POLY == {31, 30, 29, 27, 26, 24, 23, 21, 20, 19, 15, 9, 8, 5}

Init ==
  /\ buffer \in BoundedSeq(Chars, MaxLength)
  /\ read = 0
  /\ crc = {}
  /\ k = 0
  /\ result = NoResult

\* char is signed, in the builds this program is for: its conversion to
\* uint32_t repeats the highest bit.
Widen(b) == IF 7 \in b THEN b \cup 8..31 ELSE b

\* crc ^= *buffer++
NextByte ==
  /\ k = 0 /\ read < Len(buffer)
  /\ crc' = SymDiff(crc, Widen(buffer[read + 1]))
  /\ read' = read + 1
  /\ k' = 8
  /\ UNCHANGED <<buffer, result>>

ShiftRight(word) == {i - 1 : i \in word \ {0}}

Shift ==
  /\ k > 0
  /\ crc' = IF 0 \in crc THEN SymDiff(ShiftRight(crc), POLY) ELSE ShiftRight(crc)
  /\ k' = k - 1
  /\ UNCHANGED <<buffer, read, result>>

\* return ~crc
Return ==
  /\ k = 0 /\ read = Len(buffer) /\ result = NoResult
  /\ result' = Bits \ crc
  /\ UNCHANGED <<buffer, read, crc, k>>

Next == NextByte \/ Shift \/ Return

Spec == Init /\ [][Next]_vars

-----------------------------------------------------------------------------
(* Polynomials over the field of two elements, as sets of exponents.       *)

\* The generator of CRC-32.
Generator == {32, 26, 23, 22, 16, 12, 11, 10, 8, 7, 5, 4, 2, 1, 0}

\* One step of long division, which removes the exponent d.
Cancel(p, d) ==
  IF d \in p THEN SymDiff(p, {d - 32 + e : e \in Generator}) ELSE p

\* Long division, from the highest exponent down.
Remainder(poly, degree) ==
  LET divided[n \in 0..degree - 31] ==
        IF n = 0 THEN poly ELSE Cancel(divided[n - 1], degree + 1 - n)
  IN  divided[degree - 31]

\* Each char of the buffer follows the ones before it by eight places, its
\* lowest bit first; the sign of a char runs on over the 24 places behind it,
\* which makes this differ from the CRC of the buffer's bits.
Followed(p, b) ==
  SymDiff({d + 8 : d \in p},
          {39 - i : i \in b} \cup {39 - i : i \in IF 7 \in b THEN 8..31 ELSE {}})

Polynomial(chars) ==
  LET first[n \in 0..Len(chars)] ==
        IF n = 0 THEN {} ELSE Followed(first[n - 1], chars[n])
  IN  first[Len(chars)]

(* The result is the complement of the remainder of the buffer's polynomial *)
(* by the CRC-32 generator, the highest exponent in the lowest bit, with    *)
(* nothing before the buffer: leading zero bytes do not count.  After each  *)
(* turn of the loops the register is that remainder of what has been read.  *)
RegisterIsRemainder ==
  LET soFar == {d - k : d \in Polynomial(SubSeq(buffer, 1, read))}
      reg == {31 - d : d \in Remainder(soFar, 8 * read + 32)}
  IN  /\ crc = reg
      /\ result # NoResult => read = Len(buffer) /\ Bits \ result = reg
=============================================================================
