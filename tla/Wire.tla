---------------------------------- MODULE Wire ----------------------------------
(***************************************************************************)
(* The control frames between Edge and agent: the encoding of messages     *)
(* (putString, putU32, Marshal and Parse of every message type), WriteFrame*)
(* with its two writes under a deadline, and ReadFrame on a stream that    *)
(* delivers bytes in order but in pieces of any size.                      *)
(*                                                                         *)
(* A byte has W values (256 in the code) and MaxPayloadSize is a parameter,*)
(* so that the bounds are met with short messages.  One direction of one   *)
(* stream is modelled; module UdpHub has the messages of both directions.  *)
(***************************************************************************)
EXTENDS Naturals, Sequences, SequencesExt

CONSTANTS
  W,               \* values of a byte
  MaxPayloadSize,
  Message,         \* the messages a sender may want to send
  MaxSent          \* how many it sends: a bound for TLC

Byte == 0..(W - 1)

Version == 1
headerSize == 8
AssocIDSize == 4

-----------------------------------------------------------------------------
\* Integers and strings.

\* v shifted to the right by 0 to n bytes.
Shift(v, n) ==
  LET s[j \in 0..n] == IF j = 0 THEN v ELSE s[j - 1] \div W
  IN  s

\* The n bytes of v, most significant first.
Digits(v, n) == [i \in 1..n |-> Shift(v, n)[n - i] % W]

\* The integers that n bytes hold.
IsUint(v, n) == v \in Nat /\ Shift(v, n)[n] = 0

ValueOf(b) ==
  LET v[i \in 0..Len(b)] == IF i = 0 THEN 0 ELSE v[i - 1] * W + b[i]
  IN  v[Len(b)]

\* A field is put by its kind; "rest" is what a Datagram carries.
Put(kind, v) ==
  CASE kind = "byte" -> <<v>>
    [] kind = "flag" -> <<IF v THEN 1 ELSE 0>>
    [] kind = "u32" -> Digits(v, 4)
    [] kind = "u64" -> Digits(v, 8)
    [] kind = "string" -> Digits(Len(v), 2) \o v
    [] kind = "rest" -> v

\* "string too long" and "datagram too large".
Fits(kind, v) ==
  CASE kind = "string" -> IsUint(Len(v), 2)
    [] kind = "rest" -> Len(v) <= MaxPayloadSize - AssocIDSize
    [] OTHER -> TRUE

\* How many bytes at the start of b the next field takes.
Width(kind, b) ==
  CASE kind \in {"byte", "flag"} -> 1
    [] kind = "u32" -> 4
    [] kind = "u64" -> 8
    [] kind = "string" -> 2 + (IF Len(b) < 2 THEN 0 ELSE ValueOf(SubSeq(b, 1, 2)))
    [] kind = "rest" -> Len(b)

\* Mutant: a string begins within its length.
ValueOffByOne(kind, b) ==
  CASE kind = "byte" -> b[1]
    [] kind = "flag" -> b[1] = 1
    [] kind \in {"u32", "u64"} -> ValueOf(b)
    [] kind = "string" -> SubSeq(b, 2, Len(b) - 1)
    [] kind = "rest" -> b

Value(kind, b) ==
  CASE kind = "byte" -> b[1]
    [] kind = "flag" -> b[1] = 1
    [] kind \in {"u32", "u64"} -> ValueOf(b)
    [] kind = "string" -> SubSeq(b, 3, Len(b))
    [] kind = "rest" -> b

-----------------------------------------------------------------------------
\* Messages: the kinds of the fields, in the order of Marshal.

AuthRequest == <<"string", "string">>
AuthResponse == <<"flag", "string">>
OpenMeta == <<"byte", "string", "string", "string">>
OpenAck == <<"flag", "string">>
Ping == <<"u64">>
OpenAssoc == <<"u32", "string">>
OpenAssocAck == <<"u32", "flag", "string">>
Datagram == <<"u32", "rest">>
CloseAssoc == <<"u32">>

\* The message types, numbered as on the wire; nobody sends CloseStream (5) or
\* ConfigPush (8).
Fields ==
  [t \in {1, 2, 3, 4, 6, 7, 9, 10, 11, 12} |->
     CASE t = 1 -> AuthRequest [] t = 2 -> AuthResponse
       [] t = 3 -> OpenMeta [] t = 4 -> OpenAck
       [] t \in {6, 7} -> Ping
       [] t = 9 -> OpenAssoc [] t = 10 -> OpenAssocAck
       [] t = 11 -> Datagram [] t = 12 -> CloseAssoc]

\* The types of the fields in the code, and its messages.
IsField(kind, v) ==
  CASE kind = "byte" -> v \in Byte
    [] kind = "flag" -> v \in BOOLEAN
    [] kind = "u32" -> IsUint(v, 4)
    [] kind = "u64" -> IsUint(v, 8)
    [] kind \in {"string", "rest"} -> v \in Seq(Byte)

IsMessage(m) ==
  /\ m \in [type : DOMAIN Fields, fields : {m.fields}]
  /\ m.fields = [i \in DOMAIN Fields[m.type] |-> m.fields[i]]
  /\ \A i \in DOMAIN m.fields : IsField(Fields[m.type][i], m.fields[i])

\* A byte holds a message type, the header holds the length of a payload.
ASSUME ByteAssumption == W \in Nat /\ W > 12
ASSUME SizeAssumption == IsUint(MaxPayloadSize, 4)
ASSUME MessageAssumption == \A m \in Message : IsMessage(m)

Marshal(m) ==
  FlattenSeq([i \in DOMAIN m.fields |-> Put(Fields[m.type][i], m.fields[i])])

Marshals(m) == \A i \in DOMAIN m.fields : Fits(Fields[m.type][i], m.fields[i])

\* Where in payload the fields begin, one after the other, and the last one ends.
Starts(type, payload) ==
  LET start[i \in 1..(Len(Fields[type]) + 1)] ==
        IF i = 1 THEN 1
        ELSE start[i - 1] +
             Width(Fields[type][i - 1], SubSeq(payload, start[i - 1], Len(payload)))
  IN  start

\* A truncated field and trailing bytes are errors.
Parses(type, payload) ==
  /\ type \in DOMAIN Fields
  /\ Starts(type, payload)[Len(Fields[type]) + 1] = Len(payload) + 1

Parse(type, payload) ==
  LET start == Starts(type, payload)
  IN  [type |-> type,
       fields |-> [i \in DOMAIN Fields[type] |->
                     Value(Fields[type][i], SubSeq(payload, start[i], start[i + 1] - 1))]]

-----------------------------------------------------------------------------
VARIABLES
  writer,     \* "idle", "header", "payload", "failed", "closed"
  out,        \* bytes of the frame that are not written yet
  sent,       \* messages whose frame was begun
  torn,       \* a frame was begun after one that is incomplete on the stream
  pipe,       \* bytes on the stream
  reader,     \* "header", "payload", "probe", "bad", "eof"
  need,       \* length of the piece that is being read
  type,       \* type of the frame that is being read
  buf,        \* bytes of that piece
  delivered   \* messages that were read

writing == <<writer, out, sent, torn>>
reading == <<reader, need, type, buf, delivered>>
vars == <<writer, out, sent, torn, pipe, reader, need, type, buf, delivered>>

TypeOK ==
  /\ writer \in {"idle", "header", "payload", "failed", "closed"}
  /\ out \in Seq(Byte)
  /\ sent \in Seq(Message)
  /\ torn \in BOOLEAN
  /\ pipe \in Seq(Byte)
  /\ reader \in {"header", "payload", "probe", "bad", "eof"}
  /\ need \in 0..MaxPayloadSize \/ need = headerSize
  /\ type \in Byte
  /\ buf \in Seq(Byte) /\ Len(buf) <= need
  /\ \A i \in DOMAIN delivered : delivered[i].type \in DOMAIN Fields

Init ==
  /\ writer = "idle"
  /\ out = <<>>
  /\ sent = <<>>
  /\ torn = FALSE
  /\ pipe = <<>>
  /\ reader = "header"
  /\ need = headerSize
  /\ type = 0
  /\ buf = <<>>
  /\ delivered = <<>>

-----------------------------------------------------------------------------
\* WriteFrame.

Header(m) == <<Version, m.type, 0, 0>> \o Digits(Len(Marshal(m)), 4)

\* Mutant: only Datagram.Marshal looks at the size.
SendsAnything(m) == Marshals(m)

\* Marshal and WriteFrame refuse what is too long before a byte is written.
Sends(m) == Marshals(m) /\ Len(Marshal(m)) <= MaxPayloadSize

\* udpHub and udpStream write to the same stream again after a write that
\* failed; OpenData, AckData, the handshakes and the pings close theirs.
HubType == 9..12
GoesOn(m) == Last(sent).type \in HubType /\ m.type \in HubType

Begin(m) ==
  /\ writer = "idle" \/ (writer = "failed" /\ GoesOn(m))
  /\ Len(sent) < MaxSent
  /\ Sends(m)
  /\ writer' = "header"
  /\ out' = Header(m) \o Marshal(m)
  /\ sent' = Append(sent, m)
  /\ torn' = (torn \/ out # <<>>)
  /\ UNCHANGED <<pipe, reading>>

\* The first k bytes of the frame get onto the stream.
Emit(k) ==
  /\ pipe' = pipe \o SubSeq(out, 1, k)
  /\ out' = SubSeq(out, k + 1, Len(out))

WriteHeader ==
  /\ writer = "header"
  /\ Emit(headerSize)
  /\ writer' = "payload"
  /\ UNCHANGED <<sent, torn, reading>>

WritePayload ==
  /\ writer = "payload"
  /\ Emit(Len(out))
  /\ writer' = "idle"
  /\ UNCHANGED <<sent, torn, reading>>

\* A bound for TLC: on a stream that is out of step already no write fails.
TearsOnce == ~torn

\* The deadline passes or the stream fails in one of the two writes.
WriteFails(k) ==
  /\ writer \in {"header", "payload"}
  /\ TearsOnce
  /\ k <= (IF writer = "header" THEN headerSize ELSE Len(out))
  /\ Emit(k)
  /\ writer' = "failed"
  /\ UNCHANGED <<sent, torn, reading>>

\* The stream is closed, after a failure or at the end of its use.
Close ==
  /\ writer \in {"idle", "failed"}
  /\ writer' = "closed"
  /\ UNCHANGED <<out, sent, torn, pipe, reading>>

-----------------------------------------------------------------------------
\* ReadFrame.

\* io.ReadFull takes what there is, up to what it needs: one or more of
\* these steps.
ReadByte ==
  /\ reader \in {"header", "payload"} /\ Len(buf) < need
  /\ pipe # <<>>
  /\ buf' = Append(buf, Head(pipe))
  /\ pipe' = Tail(pipe)
  /\ UNCHANGED <<writing, reader, need, type, delivered>>

Acceptable(hdr) == hdr[1] = Version /\ ValueOf(SubSeq(hdr, 5, 8)) <= MaxPayloadSize

\* Mutant: the length is not looked at.
HeaderReadUnbounded ==
  /\ reader = "header" /\ Len(buf) = need
  /\ IF buf[1] = Version
     THEN reader' = "payload" /\ need' = ValueOf(SubSeq(buf, 5, 8)) /\ type' = buf[2]
     ELSE reader' = "probe" /\ UNCHANGED <<need, type>>
  /\ buf' = <<>>
  /\ UNCHANGED <<writing, pipe, delivered>>

\* Version and length are checked: ErrProbe.
HeaderRead ==
  /\ reader = "header" /\ Len(buf) = need
  /\ IF Acceptable(buf)
     THEN reader' = "payload" /\ need' = ValueOf(SubSeq(buf, 5, 8)) /\ type' = buf[2]
     ELSE reader' = "probe" /\ UNCHANGED <<need, type>>
  /\ buf' = <<>>
  /\ UNCHANGED <<writing, pipe, delivered>>

\* Mutant: the frame is only returned when bytes of the next one are there.
FrameReadLate ==
  /\ reader = "payload" /\ Len(buf) = need
  /\ pipe # <<>>
  /\ IF Parses(type, buf)
     THEN /\ delivered' = Append(delivered, Parse(type, buf))
          /\ reader' = "header"
     ELSE reader' = "bad" /\ UNCHANGED delivered
  /\ need' = headerSize
  /\ buf' = <<>>
  /\ UNCHANGED <<writing, pipe, type>>

\* The frame is complete; the caller parses it.
FrameRead ==
  /\ reader = "payload" /\ Len(buf) = need
  /\ IF Parses(type, buf)
     THEN /\ delivered' = Append(delivered, Parse(type, buf))
          /\ reader' = "header"
     ELSE reader' = "bad" /\ UNCHANGED delivered
  /\ need' = headerSize
  /\ buf' = <<>>
  /\ UNCHANGED <<writing, pipe, type>>

\* End of file, within a frame or between two.
EndOfFile ==
  /\ reader \in {"header", "payload"} /\ Len(buf) < need
  /\ writer = "closed" /\ pipe = <<>>
  /\ reader' = "eof"
  /\ UNCHANGED <<writing, pipe, need, type, buf, delivered>>

-----------------------------------------------------------------------------
Reads == ReadByte \/ HeaderRead \/ FrameRead \/ EndOfFile

Next ==
  \/ \E m \in Message : Begin(m)
  \/ WriteHeader \/ WritePayload
  \/ \E k \in 0..Len(out) : WriteFails(k)
  \/ Close
  \/ Reads

Spec == Init /\ [][Next]_vars

\* A goroutine blocks in ReadFrame, and bytes on a stream arrive.
FairSpec == Spec /\ WF_vars(Reads)

-----------------------------------------------------------------------------
\* Properties.

\* Until a sender goes on after a frame it could not complete, the receiver
\* gets what was sent, field by field and in order, however the bytes are cut
\* into pieces, and whenever a write fails.
InStep == ~torn => IsPrefix(delivered, sent)

\* A peer that speaks the protocol is never taken for a probe (ErrProbe, which
\* bans for good) nor for one that sends malformed messages, even if it loses
\* its connection in the middle of a frame.
NoFalseProbe == reader \in {"probe", "bad"} => torn

\* A frame whose two writes succeeded is read, unless the stream is torn.
FramesArrive ==
  \A n \in 1..MaxSent :
    (writer = "idle" /\ Len(sent) = n) ~> (torn \/ Len(delivered) >= n)

\* Nothing is delivered that was not sent: a write that fails concerns the
\* association it was made for, and no other.
SentOnly == Range(delivered) \subseteq Range(sent)
=============================================================================
