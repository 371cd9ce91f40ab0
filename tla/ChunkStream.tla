----------------------------- MODULE ChunkStream -----------------------------
(***************************************************************************)
(* esp32/main/pk_ble.c: reading the history stream inside one poll.        *)
(*                                                                         *)
(* The fountain sends its backlog in chunks.  Behind each chunk it sends a *)
(* request (CMD 67) and repeats it every AskEvery until it is answered;    *)
(* only then does the next chunk come.  Notifications are handled by the   *)
(* NimBLE host task, which preempts the polling task on the board's one    *)
(* core and runs to completion: its handler is one action here, and the    *)
(* polling loop is split where the handler can come between its reads and  *)
(* writes of the shared variables.                                         *)
(*                                                                         *)
(* Time is counted in wake-ups of the loop.  A prompt fountain has         *)
(* everything that is due delivered between two wake-ups; otherwise        *)
(* notifications stay in the air for as long as they like.  A byte is its  *)
(* position in the backlog.                                                *)
(***************************************************************************)
EXTENDS Integers, Sequences

CONSTANTS
  Backlogs,   \* what the fountain may hold: per chunk, its frames' lengths
  RecLen,     \* bytes of one record, 6 in C
  BlobMax,    \* MAX_STREAM_BLOB_LEN
  AskEvery,   \* the fountain's 3 s, in wake-ups
  Quiet,      \* STREAM_QUIET_MS, in wake-ups
  Timeout,    \* STREAM_TIMEOUT_MS, in wake-ups
  AirMax,     \* bound: notifications in the air
  MaxMissed   \* bound: notifications and replies that go missing

\* The bytes of the first n frames of a chunk, and of the first n chunks.
BytesIn(frames, n) ==
  LET sum[k \in 0..Len(frames)] == IF k = 0 THEN 0 ELSE sum[k - 1] + frames[k]
  IN  sum[n]

BytesUpTo(chunks, n) ==
  BytesIn([c \in DOMAIN chunks |-> BytesIn(chunks[c], Len(chunks[c]))], n)

ASSUME StreamAssumption ==
  /\ Backlogs \subseteq Seq(Seq(Nat \ {0}))
  /\ {RecLen, BlobMax, AskEvery, Quiet, Timeout, AirMax} \subseteq Nat \ {0}
  /\ MaxMissed \in Nat
  /\ BlobMax % RecLen = 0
  /\ \A b \in Backlogs : BytesUpTo(b, Len(b)) % RecLen = 0
  /\ \A b \in Backlogs : \A i \in DOMAIN b : \A j \in DOMAIN b[i] :
       b[i][j] + RecLen <= BlobMax

VARIABLES
  \* the fountain and the air
  chunks,   \* the backlog
  prompt,   \* everything due arrives between two wake-ups
  cur,      \* the chunk it is on; also the seq of its request
  frame,    \* the next frame of that chunk
  due,      \* wake-ups until it may ask (again)
  air,      \* notifications under way
  missed,   \* how many notifications and replies went missing
  dataLost, \* whether one of them was a data frame
  \* shared between the handler and the loop
  total,    \* s_stream_total
  blob,     \* s_stream_blob
  ackReq,   \* s_ack_req
  ackSeq,   \* s_ack_seq
  \* the loop's own
  pc, have, lastLen, ackedAt, quiet, waited, seq,
  visits, short,    \* the result of the read
  replies           \* every reply sent, and the bytes received by then

fountain == <<chunks, prompt, cur, frame, due>>
shared == <<total, blob, ackReq, ackSeq>>
counts == <<have, lastLen, ackedAt, quiet, waited>>
result == <<visits, short>>
vars == <<fountain, air, missed, dataLost, shared, pc, counts, seq, result, replies>>

pending == BytesUpTo(chunks, Len(chunks))

Miss == missed < MaxMissed /\ missed' = missed + 1

-----------------------------------------------------------------------------
(* The fountain *)

Streaming == pc \notin {"start", "done"}
Sending == cur <= Len(chunks) /\ frame <= Len(chunks[cur])
Waiting == ~Sending

SendFrame ==
  LET sent == BytesUpTo(chunks, cur - 1) + BytesIn(chunks[cur], frame - 1)
  IN  /\ Streaming /\ Sending
      /\ Len(air) < AirMax
      /\ air' = Append(air, [data |-> [i \in 1..chunks[cur][frame] |-> sent + i],
                             ask |-> 0])
      /\ frame' = frame + 1
      /\ UNCHANGED <<chunks, prompt, cur, due, missed, dataLost, shared, pc, counts,
                     seq, result, replies>>

Ask ==
  /\ Streaming /\ Waiting
  /\ due = 0
  /\ Len(air) < AirMax
  /\ air' = Append(air, [data |-> <<>>, ask |-> cur])
  /\ due' = AskEvery
  /\ UNCHANGED <<chunks, prompt, cur, frame, missed, dataLost, shared, pc, counts, seq,
                 result, replies>>

\* A reply that does not echo the seq of the open request is ignored.
TakeReply(s) ==
  IF Waiting /\ s = cur /\ cur <= Len(chunks)
  THEN cur' = cur + 1 /\ frame' = 1 /\ due' = 0
  ELSE UNCHANGED <<cur, frame, due>>

Idle == air = <<>> /\ Waiting /\ due > 0

\* One wake-up period passes for the fountain.
Elapse == due' = IF due > 0 THEN due - 1 ELSE 0

LoseNotification ==
  /\ air # <<>>
  /\ Miss
  /\ dataLost' = (dataLost \/ Head(air).ask = 0)
  /\ air' = Tail(air)
  /\ UNCHANGED <<fountain, shared, pc, counts, seq, result, replies>>

-----------------------------------------------------------------------------
(* The NimBLE host task: BLE_GAP_EVENT_NOTIFY_RX *)

\* Fault: nothing is dropped.
CollectAll(b, data) == b \o data

\* Fault: as many bytes are dropped as are over, whole records or not.
CollectUnaligned(b, data) ==
  LET over == Len(b) + Len(data) - BlobMax
  IN  SubSeq(b, (IF over > 0 THEN over ELSE 0) + 1, Len(b)) \o data

\* The newest bytes are kept; what is dropped in front is whole records.
Collect(b, data) ==
  LET over == Len(b) + Len(data) - BlobMax
      want == IF over > 0 THEN ((over + RecLen - 1) \div RecLen) * RecLen ELSE 0
      drop == IF want > Len(b) THEN Len(b) ELSE want
  IN  SubSeq(b, drop + 1, Len(b)) \o data

TakeData(data) ==
  /\ IF pc \in {"finish", "done"}
     THEN UNCHANGED <<total, blob>>
     ELSE total' = total + Len(data) /\ blob' = Collect(blob, data)
  /\ UNCHANGED <<ackReq, ackSeq>>

TakeAsk(s) ==
  /\ ackSeq' = s /\ ackReq' = TRUE
  /\ UNCHANGED <<total, blob>>

NotifyRx ==
  /\ air # <<>>
  /\ air' = Tail(air)
  /\ LET n == Head(air) IN IF n.ask > 0 THEN TakeAsk(n.ask) ELSE TakeData(n.data)
  /\ UNCHANGED <<fountain, missed, dataLost, pc, counts, seq, result, replies>>

-----------------------------------------------------------------------------
(* The polling task *)

\* The shared variables are reset, collection starts, CMD 80 goes out.
Start ==
  /\ pc = "start"
  /\ total' = 0 /\ blob' = <<>> /\ ackReq' = FALSE
  /\ pc' = "wait"
  /\ UNCHANGED <<fountain, air, missed, dataLost, ackSeq, counts, seq, result, replies>>

\* vTaskDelay returns; the byte count is read once for the whole turn.
Wake ==
  /\ pc = "wait"
  /\ waited < Timeout
  /\ prompt => Idle
  /\ have' = total
  /\ lastLen' = total
  /\ quiet' = IF total # lastLen THEN 0 ELSE quiet + 1
  /\ pc' = IF total >= pending THEN "stop" ELSE "check"
  /\ Elapse
  /\ UNCHANGED <<chunks, prompt, cur, frame, air, missed, dataLost, shared, ackedAt,
                 waited, seq, result, replies>>

TimeIsUp ==
  /\ pc = "wait"
  /\ waited = Timeout
  /\ pc' = "stop"
  /\ UNCHANGED <<fountain, air, missed, dataLost, shared, counts, seq, result, replies>>

MayAnswer == ackReq /\ have > 0 /\ have > ackedAt

CheckRequest ==
  /\ pc = "check"
  /\ MayAnswer
  /\ pc' = "take"
  /\ UNCHANGED <<fountain, air, missed, dataLost, shared, counts, seq, result, replies>>

NoRequest ==
  /\ pc = "check"
  /\ ~MayAnswer
  /\ IF quiet >= Quiet THEN pc' = "stop" /\ UNCHANGED waited
                       ELSE pc' = "wait" /\ waited' = waited + 1
  /\ UNCHANGED <<fountain, air, missed, dataLost, shared, have, lastLen, ackedAt,
                 quiet, seq, result, replies>>

\* Fault: the replies are numbered by the gateway, not echoed.
TakeSeqCounted ==
  /\ pc = "take"
  /\ seq' = Len(replies) + 1
  /\ pc' = "clear"
  /\ UNCHANGED <<fountain, air, missed, dataLost, shared, counts, result, replies>>

TakeSeq ==
  /\ pc = "take"
  /\ seq' = ackSeq
  /\ pc' = "clear"
  /\ UNCHANGED <<fountain, air, missed, dataLost, shared, counts, result, replies>>

ClearRequest ==
  /\ pc = "clear"
  /\ ackReq' = FALSE
  /\ pc' = "send"
  /\ UNCHANGED <<fountain, air, missed, dataLost, total, blob, ackSeq, counts, seq,
                 result, replies>>

NextTurn == pc' = "wait" /\ waited' = waited + 1

AckSent ==
  /\ pc = "send"
  /\ TakeReply(seq)
  /\ ackedAt' = have
  /\ quiet' = 0
  /\ replies' = Append(replies, [seq |-> seq, bytes |-> total])
  /\ NextTurn
  /\ UNCHANGED <<chunks, prompt, air, missed, dataLost, shared, have, lastLen, seq, result>>

\* Fault: a reply that could not be written counts as given.
AckFailedForgotten ==
  /\ pc = "send"
  /\ Miss
  /\ ackedAt' = have
  /\ NextTurn
  /\ UNCHANGED <<fountain, air, dataLost, shared, have, lastLen, quiet, seq, result,
                 replies>>

\* ble_gattc_write_no_rsp_flat returns an error.
AckFailed ==
  /\ pc = "send"
  /\ Miss
  /\ NextTurn
  /\ UNCHANGED <<fountain, air, dataLost, shared, have, lastLen, ackedAt, quiet, seq,
                 result, replies>>

StopCollecting ==
  /\ pc = "stop"
  /\ pc' = "finish"
  /\ UNCHANGED <<fountain, air, missed, dataLost, shared, counts, seq, result, replies>>

Records(b) ==
  [i \in 1..(Len(b) \div RecLen) |-> SubSeq(b, (i - 1) * RecLen + 1, i * RecLen)]

Finish ==
  /\ pc = "finish"
  /\ visits' = Records(blob)
  /\ short' = (total < pending \/ total % RecLen # 0)
  /\ pc' = "done"
  /\ UNCHANGED <<fountain, air, missed, dataLost, shared, counts, seq, replies>>

-----------------------------------------------------------------------------
Init ==
  /\ chunks \in Backlogs
  /\ prompt \in BOOLEAN
  /\ cur = 1 /\ frame = 1 /\ due = 0
  /\ air = <<>> /\ missed = 0 /\ dataLost = FALSE
  /\ total = 0 /\ blob = <<>> /\ ackReq = FALSE /\ ackSeq = 0
  /\ pc = "start"
  /\ have = 0 /\ lastLen = -1 /\ ackedAt = -1 /\ quiet = 0 /\ waited = 0
  /\ seq = 0
  /\ visits = <<>> /\ short = FALSE
  /\ replies = <<>>

Loop ==
  \/ Start \/ Wake \/ TimeIsUp \/ CheckRequest \/ NoRequest
  \/ TakeSeq \/ ClearRequest \/ AckSent \/ AckFailed \/ StopCollecting \/ Finish

Next == SendFrame \/ Ask \/ LoseNotification \/ NotifyRx \/ Loop

Spec == Init /\ [][Next]_vars

-----------------------------------------------------------------------------
(* Properties *)

TypeOK ==
  /\ chunks \in Backlogs /\ prompt \in BOOLEAN
  /\ cur \in 1..(Len(chunks) + 1) /\ frame \in Nat /\ due \in 0..AskEvery
  /\ Len(air) <= AirMax
  /\ {total, have, quiet, waited, seq, ackSeq, missed} \subseteq Nat
  /\ {lastLen, ackedAt} \subseteq Nat \cup {-1}
  /\ ackReq \in BOOLEAN /\ short \in BOOLEAN /\ dataLost \in BOOLEAN
  /\ Len(blob) <= BlobMax
  /\ pc \in {"start", "wait", "check", "take", "clear", "send", "stop", "finish", "done"}

\* "Only once that chunk's bytes are in hand": no reply goes out for a chunk
\* of which the handler has not counted every byte.
AckCoversChunk ==
  ~dataLost => \A i \in DOMAIN replies :
    replies[i].bytes >= BytesUpTo(chunks, replies[i].seq)

\* "7 s is two misses": a prompt fountain's backlog is read to the end although
\* two requests, or two replies, fail.
PromptReadCompletes ==
  pc = "done" /\ prompt /\ ~dataLost => ~short

\* The records of the result as positions in the backlog; 0 for one that is torn.
Position(r) ==
  IF /\ \A j \in 2..RecLen : r[j] = r[1] + j - 1
     /\ r[RecLen] % RecLen = 0
  THEN r[RecLen] \div RecLen ELSE 0

\* pk_ble.c:718-720: of a short read the whole records are decoded, "keeping the
\* good part".  What is handed over are records that the fountain holds.
OnlyGoodRecords ==
  pc = "done" => \A n \in DOMAIN visits : Position(visits[n]) # 0

Promise ==
  INSTANCE HistoryRead WITH
    Room <- BlobMax \div RecLen, backlog <- pending \div RecLen, lost <- dataLost,
    over <- (pc = "done"), flagged <- short,
    list <- [n \in DOMAIN visits |-> Position(visits[n])]

\* The loop, the handler and the window between them keep the promise of
\* HistoryRead.
KeepsHistoryRead == Promise!ReadSpec
=============================================================================
