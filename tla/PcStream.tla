------------------------------ MODULE PcStream ------------------------------
(***************************************************************************)
(* petkit_pc.py: the same read of the history stream on a PC, against the  *)
(* fountain of ChunkStream.                                                *)
(*                                                                         *)
(* One asyncio thread runs everything, so a notification comes only where  *)
(* the loop awaits: while it sleeps and while a reply is written.  Frames  *)
(* are appended to a list for the whole poll and never removed: the bytes  *)
(* of all chunks are kept, and the newest request is there to be found     *)
(* again after it was answered.  total, blob, ackReq and ackSeq stand for  *)
(* what the loop finds in the list, have for its own copy of the bytes.    *)
(***************************************************************************)
EXTENDS ChunkStream

CONSTANT MaxRecords  \* max_n of history_decode

ASSUME PcAssumption == MaxRecords \in Nat \ {0}

\* on_notify
Append68(data) ==
  /\ total' = total + Len(data)
  /\ blob' = blob \o data
  /\ UNCHANGED <<ackReq, ackSeq>>

OnNotify ==
  /\ pc \in {"wait", "send"}
  /\ air # <<>>
  /\ air' = Tail(air)
  /\ LET n == Head(air) IN IF n.ask > 0 THEN TakeAsk(n.ask) ELSE Append68(n.data)
  /\ UNCHANGED <<fountain, missed, dataLost, pc, counts, seq, result, replies>>

\* Bytes came since the last reply, and a request is in the list.
MayReply == have' > 0 /\ have' > ackedAt /\ ackReq

\* asyncio.sleep returns; the loop goes to its end without awaiting.
Turn ==
  /\ pc = "wait"
  /\ waited < Timeout
  /\ prompt => Idle
  /\ have' = total
  /\ quiet' = IF total > have THEN 0 ELSE quiet + 1
  /\ \/ have' >= pending /\ pc' = "stop" /\ UNCHANGED <<waited, seq>>
     \/ have' < pending /\ MayReply /\ pc' = "send" /\ seq' = ackSeq /\ UNCHANGED waited
     \/ /\ have' < pending /\ ~MayReply
        /\ UNCHANGED seq
        /\ IF quiet' >= Quiet THEN pc' = "stop" /\ UNCHANGED waited ELSE NextTurn
  /\ Elapse
  /\ UNCHANGED <<chunks, prompt, cur, frame, air, missed, dataLost, shared, lastLen,
                 ackedAt, result, replies>>

\* Fault: everything promised counts as answered.
RepliedForGood ==
  /\ pc = "send"
  /\ TakeReply(seq)
  /\ ackedAt' = pending
  /\ quiet' = 0
  /\ replies' = Append(replies, [seq |-> seq, bytes |-> total])
  /\ NextTurn
  /\ UNCHANGED <<chunks, prompt, air, missed, dataLost, shared, have, lastLen, seq, result>>

\* ack_chunk
Replied == AckSent

\* write_gatt_char raises, and with it the poll fails.
ReplyRaises ==
  /\ pc = "send"
  /\ Miss
  /\ visits' = <<>> /\ short' = TRUE
  /\ pc' = "done"
  /\ UNCHANGED <<fountain, air, dataLost, shared, counts, seq, replies>>

\* Fault: all that has arrived by now is decoded, behind the loop's last look.
DecodeUnpromised ==
  /\ pc = "stop"
  /\ visits' = Records(blob)
  /\ short' = FALSE
  /\ pc' = "done"
  /\ UNCHANGED <<fountain, air, missed, dataLost, shared, counts, seq, replies>>

\* history_decode takes the first MaxRecords of what the loop has.
Decode ==
  /\ pc = "stop"
  /\ LET all == Records(SubSeq(blob, 1, have))
     IN  visits' = SubSeq(all, 1, IF Len(all) > MaxRecords THEN MaxRecords ELSE Len(all))
  /\ short' = (have < pending)
  /\ pc' = "done"
  /\ UNCHANGED <<fountain, air, missed, dataLost, shared, counts, seq, replies>>

-----------------------------------------------------------------------------
PcNext ==
  \/ SendFrame \/ Ask \/ LoseNotification \/ OnNotify
  \/ Start \/ Turn \/ TimeIsUp \/ Replied \/ ReplyRaises \/ Decode

PcSpec == Init /\ [][PcNext]_vars

-----------------------------------------------------------------------------
(* Properties *)

PcPromise ==
  INSTANCE HistoryRead WITH
    Room <- MaxRecords, backlog <- pending \div RecLen, lost <- dataLost,
    over <- (pc = "done"), flagged <- short,
    list <- [n \in DOMAIN visits |-> Position(visits[n])]

\* As long as the backlog has no more records than history_decode takes, the
\* PC's read promises the core what the board's does.
PcKeepsHistoryRead == PcPromise!ReadSpec

\* A prompt fountain's backlog is read to the end when nothing goes missing.
PcPromptReadCompletes == pc = "done" /\ prompt /\ missed = 0 => ~short
=============================================================================
