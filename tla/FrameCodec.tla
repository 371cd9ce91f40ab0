------------------------------ MODULE FrameCodec ------------------------------
(***************************************************************************)
(* core/petkit_core.c, from bytes to what they say: frames, the pending    *)
(* counter and the records of the history - on the way the fountain's      *)
(* frames take in esp32/main/pk_ble.c.  A notification carries at most     *)
(* MTU - 3 bytes, so a frame that is longer arrives cut off at its end;    *)
(* neither the end byte nor the header can stand for a whole frame, since  *)
(* both occur in payloads.                                                 *)
(*                                                                         *)
(* Bytes are numbers, and a buffer is a sequence from 1 on.                *)
(***************************************************************************)
EXTENDS Integers, Sequences, SequencesExt

CONSTANTS
  Payloads,  \* bound: what the fountain's frames carry
  Tags,      \* bound: the cmd, typ, seq and flag bytes of a frame
  Sizes,     \* bound: what a notification can hold
  Counters,  \* bound: values of the pending counter
  Backlogs,  \* bound: lists of visits
  Room       \* how many visits there is room for

Byte == 0..255

ASSUME CodecAssumption ==
  /\ Payloads \subseteq Seq(Byte)
  /\ \A p \in Payloads : Len(p) < 65536
  /\ Tags \subseteq Byte
  /\ Sizes \subseteq 0..288  \* the handler's buffer
  /\ Counters \subseteq Nat
  /\ Backlogs \subseteq Seq([ts : Nat, sec : Nat])
  /\ Room \in Nat

VARIABLES
  size,  \* the bytes of one notification: the MTU in effect, less 3
  said,  \* the frame the fountain has sent; {} if none yet
  spent, \* the bytes it took on the air
  heard  \* what became of it in BLE_GAP_EVENT_NOTIFY_RX; {} if nothing did

vars == <<size, said, spent, heard>>

-----------------------------------------------------------------------------
(* Frames *)

Hdr0 == 250
Hdr1 == 252
HdrCmd == 253
HdrStream == 254
End == 251

Frame == [stream : BOOLEAN, cmd : Byte, typ : Byte, seq : Byte, payload : Seq(Byte)]

\* What comes before the payload: marks, fields, and the payload's length, least
\* significant byte first.  A streamed frame has a flag more.
Header(f, flag) ==
  LET n == Len(f.payload)
  IN  IF f.stream
      THEN <<Hdr0, Hdr1, HdrStream, f.cmd, f.typ, f.seq, flag, n % 256, n \div 256>>
      ELSE <<Hdr0, Hdr1, HdrCmd, f.cmd, f.typ, f.seq, n % 256, n \div 256>>

Encoded(f, flag) == Header(f, flag) \o f.payload \o <<End>>

HeaderLen(stream) == IF stream THEN 9 ELSE 8

\* Whether pk_frame_parse takes b for a frame.
IsFrame(b) ==
  /\ Len(b) >= 9
  /\ b[Len(b)] = End
  /\ b[1] = Hdr0 /\ b[2] = Hdr1
  /\ b[3] \in {HdrCmd, HdrStream}

IsStream(b) == b[3] = HdrStream

\* Fault: the length is read in the order of the records.
PayloadLenSwapped(b) ==
  LET at == HeaderLen(IsStream(b)) - 1
  IN  b[at + 1] + 256 * b[at]

\* The length is little-endian, unlike everything else.
PayloadLen(b) ==
  LET at == HeaderLen(IsStream(b)) - 1
  IN  b[at] + 256 * b[at + 1]

\* Fault: the length is not compared with what arrived.
FitsUnchecked(b) == TRUE

\* The handler's bound on the payload of a frame that parsed.
Fits(b) == PayloadLen(b) <= Len(b) - HeaderLen(IsStream(b)) - 1

\* What pk_frame_parse and the handler make of a notification.  What lies
\* behind the notification is no byte of it: -1.
Received(b) ==
  LET from == HeaderLen(IsStream(b))
  IN  [stream |-> IsStream(b), cmd |-> b[4], typ |-> b[5], seq |-> b[6],
       payload |-> [i \in 1..PayloadLen(b) |->
                      IF from + i <= Len(b) THEN b[from + i] ELSE -1]]

Heard(b) == IF IsFrame(b) /\ Fits(b) THEN {Received(b)} ELSE {}

-----------------------------------------------------------------------------
(* What payloads say *)

\* be16, be32: most significant byte first.  The top byte of a time is below
\* 128 until 2038.
Be16(b, at) == 256 * b[at] + b[at + 1]
Be32(b, at) == 65536 * Be16(b, at) + Be16(b, at + 2)

\* Fault: the counter is read one byte early.
SyncPendingEarly(p) == IF Len(p) < 5 THEN -1 ELSE Be32(p, 1)

\* pk_sync_pending: 01, then the counter.
SyncPending(p) == IF Len(p) < 5 THEN -1 ELSE Be32(p, 2)

\* pk_history_decode: six bytes a record, as many as there is room for; what is
\* left over is no record.
HistoryDecode(b, max) ==
  LET records == Len(b) \div 6
  IN  [k \in 1..(IF records < max THEN records ELSE max) |->
         [ts |-> Be32(b, 6 * k - 5), sec |-> Be16(b, 6 * k - 1)]]

-----------------------------------------------------------------------------
(* The link *)

\* A new link, with an MTU of its own.
Reconnect ==
  /\ said # {}
  /\ size' \in Sizes
  /\ said' = {} /\ heard' = {} /\ spent' = 0

Delivered(b) == SubSeq(b, 1, IF Len(b) < size THEN Len(b) ELSE size)

\* The fountain sends a frame and the handler takes what arrives of it.
Notify ==
  /\ said = {}
  /\ \E f \in [stream : BOOLEAN, cmd : Tags, typ : Tags, seq : Tags, payload : Payloads],
        flag \in Tags :
       /\ said' = {f}
       /\ spent' = Len(Encoded(f, flag))
       /\ heard' = Heard(Delivered(Encoded(f, flag)))
  /\ UNCHANGED size

Init == size \in Sizes /\ said = {} /\ heard = {} /\ spent = 0

Next == Reconnect \/ Notify

Spec == Init /\ [][Next]_vars

-----------------------------------------------------------------------------
(* Properties *)

TypeOK ==
  /\ size \in Sizes /\ spent \in Nat
  /\ said \subseteq Frame /\ heard \subseteq Frame

\* A frame is heard exactly as it was said or not at all: one that was cut off
\* is never taken for another, wherever it was cut and whatever byte its
\* payload has there, and no byte behind the notification is read.
HeardIsSaid == heard \subseteq said

\* A frame that fits in a notification is heard, whatever its payload.
WholeIsHeard == spent <= size => heard = said

\* The counter of CMD 212 and a list of visits, as the fountain writes them.
Bytes16(v) == <<v \div 256, v % 256>>
Bytes32(v) == Bytes16(v \div 65536) \o Bytes16(v % 65536)
CounterPayload(v) == <<1>> \o Bytes32(v)
VisitBytes(v) == Bytes32(v.ts) \o Bytes16(v.sec)
VisitPayload(visits) ==
  [i \in 1..(6 * Len(visits)) |->
     VisitBytes(visits[(i - 1) \div 6 + 1])[((i - 1) % 6) + 1]]

\* What is heard is understood: the counter is the fountain's, and the visits
\* are the first ones there is room for.
Understood ==
  \A f \in heard :
    /\ \A v \in Counters :
         f.payload = CounterPayload(v) => SyncPending(f.payload) = v
    /\ \A vs \in Backlogs :
         f.payload = VisitPayload(vs) =>
           HistoryDecode(f.payload, Room)
             = SubSeq(vs, 1, IF Len(vs) < Room THEN Len(vs) ELSE Room)
=============================================================================
