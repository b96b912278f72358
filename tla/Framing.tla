------------------------------- MODULE Framing -------------------------------
(***************************************************************************)
(* How a connection handler turns received bytes into broker calls (the    *)
(* receive loop of SocketServer::handleConnection).                        *)
(*                                                                         *)
(* recv fills the front of a buffer on the stack and leaves the rest as it *)
(* was: stack contents at first, later what earlier rounds received.  The  *)
(* buffer is read as a C string, split at each byte 0x12 (what the literal *)
(* '\b\x1\x12' converts to) that lies nine or more bytes behind the last   *)
(* split, and each piece is parsed as a message.                           *)
(*                                                                         *)
(* TCP hands the bytes a client sends over in any portions, several        *)
(* messages at once or part of one, so that it does not matter when each   *)
(* message was sent.  Offsets count from 0 as in the code.                 *)
(***************************************************************************)
EXTENDS MessageCodec, FiniteSets

CONSTANTS
  Outbox,       \* the messages a client may send
  Fills,        \* what may be on the stack where the buffer comes to lie
  BufferSize,   \* BUFFER_SIZE
  JsonTexts,    \* the texts that are JSON, as rapidjson writes them
  MaxSent,      \* bound on the messages a client sends
  MaxReceives   \* bound on the calls of recv

ASSUME BufferSizeNat == BufferSize \in Nat
ASSUME BoundsNat == MaxSent \in Nat /\ MaxReceives \in Nat
ASSUME FillsAreBytes == Fills \subseteq Byte

\* Lengths take one byte.
ASSUME OutboxIsShort ==
  \A m \in Outbox : m \in Message /\ Len(m.topic) < 128 /\ Len(m.jsonbody) < 128

VARIABLES
  unread,     \* the client's messages, from the first that is not received whole
  offset,     \* how many bytes of the first of them are received
  recvBuffer, \* the array of that name
  buffer,     \* the string of that name
  delimiter,  \* the int of that name
  messages,   \* the vector of that name, less what has been dealt with
  pc,         \* where the handler is
  calls,      \* broker calls made for the bytes of the last recv
  batch,      \* history: the messages these bytes were, if they were whole
  receives    \* history: number of recv calls

splitVars == <<recvBuffer, buffer>>
wireVars == <<unread, offset, batch, receives>>
vars == <<unread, offset, recvBuffer, buffer, delimiter, messages, pc, calls,
          batch, receives>>

Delimiter == 18
Minimum == 9
npos == -1
NotWhole == <<>>

Init ==
  /\ unread \in BoundedSeq(Outbox, MaxSent)
  /\ offset = 0
  /\ \E b \in Fills : recvBuffer = [k \in 1..BufferSize |-> b]
  /\ buffer = <<>>
  /\ delimiter = 0
  /\ messages = <<>>
  /\ pc = "recv"
  /\ calls = <<>>
  /\ batch = NotWhole
  /\ receives = 0

-----------------------------------------------------------------------------

\* The bytes of a sequence of messages.
Bytes(ms) == FlattenSeq([k \in DOMAIN ms |-> Serialize(ms[k])])

\* std::string(recvBuffer).  (A zero is taken to follow the array.)
CString(bytes) == SubSeq(bytes, 1, SelectInSeq(bytes \o <<0>>, LAMBDA b : b = 0) - 1)

\* recv returns n bytes.
Receive(n) ==
  LET through == offset + n
      done == CHOOSE k \in 0..Len(unread) :
                /\ Len(Bytes(SubSeq(unread, 1, k))) <= through
                /\ k < Len(unread) => Len(Bytes(SubSeq(unread, 1, k + 1))) > through
      rest == through - Len(Bytes(SubSeq(unread, 1, done)))
  IN  /\ pc = "recv"
      /\ receives < MaxReceives
      /\ through <= Len(Bytes(unread))
      /\ receives' = receives + 1
      /\ recvBuffer' = [k \in 1..BufferSize |->
                          IF k <= n THEN Bytes(unread)[offset + k] ELSE recvBuffer[k]]
      /\ unread' = SubSeq(unread, done + 1, Len(unread))
      /\ offset' = rest
      /\ batch' = IF offset = 0 /\ rest = 0 THEN SubSeq(unread, 1, done) ELSE NotWhole
      /\ buffer' = CString(recvBuffer')
      /\ delimiter' = 0
      /\ calls' = <<>>
      /\ pc' = "split"
      /\ UNCHANGED messages

\* Fault: the search goes on right behind the last cut.
FindRightBehind(old) ==
  SelectInSubSeq(buffer, old + 2, Len(buffer), LAMBDA b : b = Delimiter) - 1

\* buffer.find(c, old + 9), from any offset, even behind the end.
Find(old) ==
  SelectInSubSeq(buffer, old + Minimum + 1, Len(buffer), LAMBDA b : b = Delimiter) - 1

\* Fault: substr is given the end of the piece, not its length.
PieceToEnd(from, to) ==
  SubSeq(buffer, from + 1, IF to = npos THEN Len(buffer) ELSE from + to)

\* buffer.substr(from, to - from); npos - from is more than there is.
Piece(from, to) == SubSeq(buffer, from + 1, IF to = npos THEN Len(buffer) ELSE to)

\* One round of the splitting loop.
Split ==
  /\ pc = "split"
  /\ delimiter' = Find(delimiter)
  /\ messages' = Append(messages, Piece(delimiter, delimiter'))
  /\ pc' = IF delimiter' # npos THEN "split" ELSE "handle"
  /\ UNCHANGED <<splitVars, wireVars, calls>>

\* JSON goes through a rapidjson document; what it cannot parse is null.
Rewritten(json) == IF json \in JsonTexts THEN json ELSE <<110, 117, 108, 108>>

\* The switch over type().
CallsFor(m) ==
  CASE m.type = SUBSCRIBE -> <<[name |-> "AddSubscription", topic |-> m.topic]>>
    [] m.type = PUBLISH   -> <<[name |-> "EnqueueMessage", topic |-> m.topic,
                                body |-> Rewritten(m.jsonbody)]>>
    [] OTHER              -> <<>>

\* Fault: only the first piece is looked at.
HandleFirst ==
  /\ pc = "handle"
  /\ calls' = calls \o CallsFor(Parse(Head(messages)))
  /\ messages' = Tail(messages)
  /\ pc' = "recv"
  /\ UNCHANGED <<splitVars, wireVars, delimiter>>

\* One round of the loop over the pieces.
Handle ==
  /\ pc = "handle"
  /\ calls' = calls \o CallsFor(Parse(Head(messages)))
  /\ messages' = Tail(messages)
  /\ pc' = IF messages' = <<>> THEN "recv" ELSE "handle"
  /\ UNCHANGED <<splitVars, wireVars, delimiter>>

Next ==
  \/ \E n \in 1..BufferSize : Receive(n)
  \/ Split
  \/ Handle

Spec == Init /\ [][Next]_vars

-----------------------------------------------------------------------------

(* Types.  The pieces are handled before the next recv, each of them.       *)
TypeOK ==
  /\ unread \in Seq(Outbox)
  /\ offset \in Nat
  /\ recvBuffer \in [1..BufferSize -> Byte]
  /\ buffer \in Seq(Byte)
  /\ delimiter \in Int
  /\ messages \in Seq(Seq(Byte))
  /\ pc \in {"recv", "split", "handle"}
  /\ receives \in 0..MaxReceives
  /\ pc = "recv" => messages = <<>>
  /\ pc = "handle" => messages # <<>>

(* Whatever bytes were received, the splitting loop loses, repeats and      *)
(* reorders none of the string; it stays inside the string, so that substr  *)
(* does not throw, and it ends: each round but the last moves at least nine *)
(* bytes on.  npos, an unsigned value that becomes a negative int, never    *)
(* serves as an offset.                                                     *)
PiecesPartition ==
  /\ pc = "split" =>
       /\ Minimum * Len(messages) <= delimiter /\ delimiter <= Len(buffer)
       /\ FlattenSeq(messages) = SubSeq(buffer, 1, delimiter)
  /\ pc = "handle" => IsSuffix(FlattenSeq(messages), buffer)

\* The string ends with the received messages, or debugger's fill follows.
CleanTail == \A k \in DOMAIN buffer : k > Len(Bytes(batch)) => buffer[k] >= 128

(* A message that is received alone, with nothing readable behind it, leads *)
(* to exactly the call it asks for, if and only if the byte 0x12 occurs in  *)
(* it at no offset from nine on: not as the length of its JSON, for one.    *)
LoneMessageUnderstood ==
  (pc = "recv" /\ Len(batch) = 1 /\ CleanTail) =>
    LET bytes == Serialize(batch[1])
    IN  calls = CallsFor(batch[1])
          <=> \A k \in DOMAIN bytes : k > Minimum => bytes[k] # Delimiter

\* A message that can be read back: the type has one byte, and the texts hold
\* no zero, no type's tag and no delimiter, as printable text does not.
Letter == (1..127) \ {8, Delimiter}
Readable(m) ==
  m \in Message /\ m.type < 128
    /\ \A t \in {m.topic, m.jsonbody} : t \in Seq(Letter) /\ Len(t) < 128

\* Long enough to be split off, and without a delimiter but its topic's tag.
Splittable(m) ==
  LET bytes == Serialize(m)
  IN  /\ Len(bytes) >= Minimum + 2
      /\ m.topic # <<>>
      /\ Cardinality({k \in DOMAIN bytes : bytes[k] = Delimiter}) = 1

(* Messages that arrive together are split two bytes late, behind the type  *)
(* of the next one: each keeps its topic and body, and takes the type of    *)
(* its successor, if that has one on the wire.  The second of two           *)
(* publications becomes a subscription.                                     *)
TypesShiftInBatch ==
  (pc = "recv" /\ batch # NotWhole /\ CleanTail /\ \A k \in DOMAIN batch : Splittable(batch[k])) =>
    LET n == Len(batch)
        shifted(k) ==
          IF k < n /\ batch[k + 1].type # SUBSCRIBE THEN batch[k + 1].type
          ELSE IF k = 1 THEN batch[1].type ELSE SUBSCRIBE
    IN  calls = FlattenSeq([k \in 1..n |-> CallsFor([batch[k] EXCEPT !.type = shifted(k)])])
=============================================================================
