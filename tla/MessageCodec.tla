----------------------------- MODULE MessageCodec -----------------------------
(***************************************************************************)
(* The wire format of Message.proto as Message.pb.cc writes and reads it,  *)
(* over sequences of bytes.                                                *)
(*                                                                         *)
(* Varints of more than one byte do not occur: lengths stay below 128, and *)
(* the only larger bytes are a debugger's fill, which reaches to the end   *)
(* of the input, where the varint it begins cannot be read.                *)
(***************************************************************************)
EXTENDS Integers, Sequences, SequencesExt

Byte == 0..255

SUBSCRIBE == 0
PUBLISH == 1
DATA == 2

Message == [type : Byte, topic : Seq(Byte), jsonbody : Seq(Byte)]

\* Fault: a message without a type is a publication.
NewMessagePublishing == [type |-> PUBLISH, topic |-> <<>>, jsonbody |-> <<>>]

\* The message before anything is read into it.
NewMessage == [type |-> SUBSCRIBE, topic |-> <<>>, jsonbody |-> <<>>]

\* Fields that have their default value are not written.
WriteString(tag, text) == IF text = <<>> THEN <<>> ELSE <<tag, Len(text)>> \o text

Serialize(m) ==
  (IF m.type # 0 THEN <<8, m.type>> ELSE <<>>)
    \o WriteString(18, m.topic) \o WriteString(26, m.jsonbody)

-----------------------------------------------------------------------------
(* Reading.  A state is what is left of the input, the message so far, and *)
(* whether the loop goes on; it ends in success or failure alike, the      *)
(* caller ignoring which.                                                  *)

State(input, message, more) == [input |-> input, message |-> message, more |-> more]

HasVarint(input) == input # <<>> /\ input[1] < 128
Beyond(input, size) == SubSeq(input, size + 1, Len(input))
Stop(s) == State(s.input, s.message, FALSE)

\* A field of the given size, unread.
Skip(s, size) == State(Beyond(s.input, size), s.message, size <= Len(s.input))

ReadEnum(s) ==
  IF HasVarint(s.input)
  THEN State(Beyond(s.input, 1), [s.message EXCEPT !.type = s.input[1]], TRUE)
  ELSE Stop(s)

\* The text as far as it is there; reading goes on if it is complete and
\* proper UTF-8.
ReadString(s, field) ==
  IF HasVarint(s.input)
  THEN LET size == s.input[1]
           text == SubSeq(s.input, 2, Min({size + 1, Len(s.input)}))
       IN  State(Beyond(s.input, size + 1), [s.message EXCEPT ![field] = text],
                 size < Len(s.input) /\ \A k \in DOMAIN text : text[k] < 128)
  ELSE Stop(s)

\* WireFormatLite::SkipField.  (Groups have no end here, and field 0 is illegal.)
SkipField(s, tag) ==
  CASE tag < 8                           -> Stop(s)
    [] tag % 8 = 0 /\ HasVarint(s.input) -> Skip(s, 1)
    [] tag % 8 = 1                       -> Skip(s, 8)
    [] tag % 8 = 2 /\ HasVarint(s.input) -> Skip(s, s.input[1] + 1)
    [] tag % 8 = 5                       -> Skip(s, 4)
    [] OTHER                             -> Stop(s)

\* One round of MergePartialFromCodedStream's loop.
ReadField(s) ==
  IF s.more /\ HasVarint(s.input)
  THEN LET tag == s.input[1]
           rest == Skip(s, 1)
       IN  CASE tag = 8  -> ReadEnum(rest)
             [] tag = 18 -> ReadString(rest, "topic")
             [] tag = 26 -> ReadString(rest, "jsonbody")
             [] OTHER    -> SkipField(rest, tag)
  ELSE Stop(s)

\* ParseFromArray: no input has more fields than bytes.
Parse(bytes) ==
  LET after[n \in 0..Len(bytes)] ==
        IF n = 0 THEN State(bytes, NewMessage, TRUE)
        ELSE ReadField(after[n - 1])
  IN  after[Len(bytes)].message
=============================================================================
