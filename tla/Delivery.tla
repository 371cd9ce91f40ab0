------------------------------ MODULE Delivery ------------------------------
(***************************************************************************)
(* esp32/main/main.c on top of WifiStation: what becomes of a message from *)
(* the moment the core has queued it.  The main task gets itself a clock,  *)
(* then polls and opens one radio window per cycle: the outbox first, then *)
(* the queue, then the updates and the reply to them, then the clock.      *)
(* Messages are numbers; the core and the fountain are left out, and so is *)
(* a restart (Gateway has both).                                           *)
(*                                                                         *)
(* fed counts the seconds since the task watchdog was last reset, each     *)
(* call that blocks taken at its longest.                                  *)
(***************************************************************************)
EXTENDS WifiStation, SequencesExt

CONSTANTS
  OutboxMax,   \* OUTBOX_MAX
  MaxAttempt,  \* the 3 of pk_net_telegram_send
  MaxBatch,    \* bound: messages of one round
  MaxMade      \* bound: messages in all

ASSUME DeliveryAssumption ==
  {OutboxMax, MaxAttempt, MaxBatch, MaxMade} \subseteq Nat \ {0}

VARIABLES
  pc,       \* where the main task is
  window,   \* what the radio window is for: the clock, the banner or a round
  rtc,      \* pk_net_time_valid
  made,     \* messages queued so far
  queue,    \* g_core.msg
  outbox,   \* s_outbox
  source,   \* the loop that is sending: send_outbox or send_queued
  i,        \* its index, from 1
  attempt,
  asked,    \* the queue holds the reply
  arrived,  \* messages that reached Telegram
  dropped,  \* messages that fell out of a full outbox
  fed       \* seconds since esp_task_wdt_reset

clock == <<window, rtc>>
sending == <<source, i, attempt, asked>>
mail == <<made, queue, outbox, arrived, dropped>>
main == <<pc, clock, sending, mail, fed>>
vars == <<wifi, main>>

\* The longest each call blocks, in seconds: pk_ble_poll up to its first reset
\* or its end, pk_net_wifi_sta_start, one attempt of pk_net_telegram_send,
\* getUpdates, SNTP; and what the watchdog allows.
PollTime == 71
JoinTime == 20
AttemptTime == 20
Backoff(n) == IF n < MaxAttempt THEN 3 * n ELSE 0
UpdatesTime == 15
SntpTime == 15
BannerTime == 69
WatchdogTime == 180

Reset == fed' = 0
Block(t) == fed' = fed + t

-----------------------------------------------------------------------------
(* A clock before anything else *)

ClockWindow ==
  /\ pc = "clock"
  /\ StartCall
  /\ window' = "clock"
  /\ pc' = "join"
  /\ UNCHANGED <<rtc, sending, mail, fed>>

Sntp ==
  /\ pc = "sntp"
  /\ \E ok \in BOOLEAN : rtc' = (rtc \/ ok)
  /\ Block(SntpTime)
  /\ pc' = "stop"
  /\ UNCHANGED <<wifi, window, sending, mail>>

ClockCheck ==
  /\ pc = "check"
  /\ pc' = IF rtc THEN "first" ELSE "clock"
  /\ Reset
  /\ UNCHANGED <<wifi, clock, sending, mail>>

\* The first poll's messages are dropped; if it worked a banner goes out.
FirstPoll ==
  /\ pc = "first"
  /\ pc' \in {"banner", "sleep"}
  /\ Block(PollTime)
  /\ UNCHANGED <<wifi, clock, sending, mail>>

BannerWindow ==
  /\ pc = "banner"
  /\ StartCall
  /\ window' = "banner"
  /\ Reset
  /\ pc' = "join"
  /\ UNCHANGED <<rtc, sending, mail>>

\* Whether it arrives is not looked at.
SendBanner ==
  /\ pc = "greet"
  /\ Block(BannerTime)
  /\ pc' = "stop"
  /\ UNCHANGED <<wifi, clock, sending, mail>>

-----------------------------------------------------------------------------
(* A round *)

\* pk_ble_poll, pk_poll_ok or pk_poll_fail, pk_tick.
Poll ==
  /\ pc = "poll"
  /\ \E n \in 0..MaxBatch :
       /\ made + n <= MaxMade
       /\ made' = made + n
       /\ queue' = [k \in 1..n |-> made + k]
  /\ Block(PollTime)
  /\ pc' = "window"
  /\ UNCHANGED <<wifi, clock, sending, outbox, arrived, dropped>>

RoundWindow ==
  /\ pc = "window"
  /\ StartCall
  /\ window' = "round"
  /\ Reset
  /\ pc' = "join"
  /\ UNCHANGED <<rtc, sending, mail>>

Loop(name) == source' = name /\ i' = 1 /\ attempt' = 1 /\ pc' = "loop"

Joined ==
  /\ pc = "join"
  /\ StartOk
  /\ Block(JoinTime)
  /\ \/ window = "clock" /\ pc' = "sntp" /\ UNCHANGED <<source, i, attempt>>
     \/ window = "banner" /\ pc' = "greet" /\ UNCHANGED <<source, i, attempt>>
     \/ window = "round" /\ Loop("outbox")
  /\ UNCHANGED <<clock, asked, mail>>

NotJoined ==
  /\ pc = "join"
  /\ StartFails
  /\ Block(JoinTime)
  /\ i' = 1
  /\ \/ window = "clock" /\ pc' = "check"
     \/ window = "banner" /\ pc' = "sleep"
     \/ window = "round" /\ pc' = "spill"
  /\ UNCHANGED <<clock, source, attempt, asked, mail>>

\* Fault: the newest message is what a full outbox loses.
PushNewestLost(m) ==
  IF Len(outbox) < OutboxMax
  THEN outbox' = Append(outbox, m) /\ UNCHANGED dropped
  ELSE dropped' = dropped \cup {m} /\ UNCHANGED outbox

\* outbox_push
Push(m) ==
  IF Len(outbox) < OutboxMax
  THEN outbox' = Append(outbox, m) /\ UNCHANGED dropped
  ELSE /\ outbox' = Append(Tail(outbox), m)
       /\ dropped' = dropped \cup {Head(outbox)}

\* No window: everything goes to the outbox.
Spill ==
  /\ pc = "spill"
  /\ i <= Len(queue)
  /\ Push(queue[i])
  /\ i' = i + 1
  /\ UNCHANGED <<wifi, pc, clock, source, attempt, asked, made, queue, arrived, fed>>

Spilt ==
  /\ pc = "spill"
  /\ i > Len(queue)
  /\ queue' = <<>>
  /\ i' = 1
  /\ pc' = "sleep"
  /\ UNCHANGED <<wifi, clock, source, attempt, asked, made, outbox, arrived, dropped, fed>>

-----------------------------------------------------------------------------
(* send_outbox and send_queued *)

Line == IF source = "outbox" THEN outbox ELSE queue

\* Fault: the watchdog is not reset in the loop.
SendNextUnfed ==
  /\ pc = "loop"
  /\ i <= Len(Line)
  /\ pc' = "try"
  /\ UNCHANGED <<wifi, clock, sending, mail, fed>>

SendNext ==
  /\ pc = "loop"
  /\ i <= Len(Line)
  /\ Reset
  /\ pc' = "try"
  /\ UNCHANGED <<wifi, clock, sending, mail>>

AttemptOk ==
  /\ pc = "try"
  /\ driver = "up"
  /\ arrived' = arrived \cup {Line[i]}
  /\ i' = i + 1 /\ attempt' = 1
  /\ Block(AttemptTime)
  /\ pc' = "loop"
  /\ UNCHANGED <<wifi, clock, source, asked, made, queue, outbox, dropped>>

\* No answer, or one of 5xx; the message may have arrived all the same.
AttemptFails ==
  /\ pc = "try"
  /\ attempt < MaxAttempt
  /\ attempt' = attempt + 1
  /\ \E m \in SUBSET (IF driver = "up" THEN {Line[i]} ELSE {}) :
       arrived' = arrived \cup m
  /\ Block(AttemptTime + Backoff(attempt))
  /\ UNCHANGED <<wifi, pc, clock, source, i, asked, made, queue, outbox, dropped>>

\* The loop over the outbox ends at a message that failed, and what was sent
\* before it is removed.
OutboxStops ==
  /\ source = "outbox"
  /\ outbox' = SubSeq(outbox, i, Len(outbox))
  /\ Loop("queue")
  /\ UNCHANGED dropped

\* Fault: a message that could not be sent is not kept.
QueueGoesOnForgetting ==
  /\ source = "queue"
  /\ i' = i + 1 /\ attempt' = 1
  /\ pc' = "loop"
  /\ UNCHANGED <<outbox, dropped, source>>

\* The queue goes on with the next message.
QueueGoesOn ==
  /\ source = "queue"
  /\ Push(queue[i])
  /\ i' = i + 1 /\ attempt' = 1
  /\ pc' = "loop"
  /\ UNCHANGED source

\* The last attempt fails; or there is no other, because Telegram answered 4xx
\* or no HTTP client could be made.
SendFails ==
  /\ pc = "try"
  /\ \/ /\ attempt = MaxAttempt
        /\ \E m \in SUBSET (IF driver = "up" THEN {Line[i]} ELSE {}) :
             arrived' = arrived \cup m
     \/ UNCHANGED arrived
  /\ Block(AttemptTime)
  /\ OutboxStops \/ QueueGoesOn
  /\ UNCHANGED <<wifi, clock, asked, made, queue>>

OutboxSent ==
  /\ pc = "loop" /\ source = "outbox"
  /\ i > Len(outbox)
  /\ outbox' = <<>>
  /\ Loop("queue")
  /\ UNCHANGED <<wifi, clock, asked, made, queue, arrived, dropped, fed>>

QueueSent ==
  /\ pc = "loop" /\ source = "queue"
  /\ i > Len(queue)
  /\ queue' = <<>>
  /\ pc' = IF asked THEN "sync" ELSE "updates"
  /\ asked' = FALSE
  /\ i' = 1
  /\ UNCHANGED <<wifi, clock, source, attempt, made, outbox, arrived, dropped, fed>>

-----------------------------------------------------------------------------
(* The rest of the window *)

NoUpdates ==
  /\ pc = "updates"
  /\ Block(UpdatesTime)
  /\ pc' = "sync"
  /\ UNCHANGED <<wifi, clock, sending, mail>>

\* Whatever the user asked, there is one answer, and send_queued sends it.
Answer ==
  /\ pc = "updates"
  /\ made < MaxMade
  /\ made' = made + 1
  /\ queue' = <<made + 1>>
  /\ Block(UpdatesTime)
  /\ asked' = TRUE
  /\ Loop("queue")
  /\ UNCHANGED <<wifi, clock, outbox, arrived, dropped>>

Resync ==
  /\ pc = "sync"
  /\ fed' \in {0, SntpTime}
  /\ pc' = "stop"
  /\ UNCHANGED <<wifi, clock, sending, mail>>

\* The clock window resets the watchdog only after it.
Stop ==
  /\ pc = "stop"
  /\ IF window = "clock" THEN UNCHANGED fed ELSE Reset
  /\ StopCall \/ Disconnect
  /\ UNCHANGED <<pc, clock, sending, mail>>

Stopped ==
  /\ pc = "stop"
  /\ Halt
  /\ pc' = IF window = "clock" THEN "check" ELSE "sleep"
  /\ UNCHANGED <<clock, sending, mail, fed>>

\* What must last is saved, and the task sleeps in slices of ten seconds.
Sleep ==
  /\ pc = "sleep"
  /\ Reset
  /\ pc' = "poll"
  /\ UNCHANGED <<wifi, clock, sending, mail>>

-----------------------------------------------------------------------------
Init ==
  /\ WifiInit
  /\ pc = "clock" /\ window = "clock" /\ rtc \in BOOLEAN
  /\ made = 0 /\ queue = <<>> /\ outbox = <<>>
  /\ source = "outbox" /\ i = 1 /\ attempt = 1 /\ asked = FALSE
  /\ arrived = {} /\ dropped = {}
  /\ fed = 0

Boot ==
  ClockWindow \/ Sntp \/ ClockCheck \/ FirstPoll \/ BannerWindow \/ SendBanner

Window ==
  \/ Joined \/ NotJoined \/ Spill \/ Spilt
  \/ SendNext \/ AttemptFails \/ SendFails \/ OutboxSent \/ QueueSent
  \/ NoUpdates \/ Answer \/ Resync \/ Stop \/ Stopped

Main == Boot \/ Poll \/ RoundWindow \/ Window \/ AttemptOk \/ Sleep

Radio == (GotIp \/ Air \/ HandleEvent) /\ UNCHANGED main

Next == Main \/ Radio

\* The tasks are scheduled.  The access point takes the board in, and Telegram
\* takes a message, again and again if they are asked again and again; SNTP
\* answers in the end.
Fairness ==
  /\ WF_vars(Main)
  /\ WF_vars(HandleEvent /\ UNCHANGED main)
  /\ SF_vars(GotIp /\ UNCHANGED main)
  /\ SF_vars(AttemptOk)
  /\ SF_vars(Sntp /\ rtc')

Spec == Init /\ [][Next]_vars /\ Fairness

-----------------------------------------------------------------------------
(* Properties *)

TypeOK ==
  /\ WifiTypeOK
  /\ pc \in {"clock", "join", "sntp", "check", "first", "banner", "greet", "poll",
             "window", "spill", "loop", "try", "updates", "sync", "stop", "sleep"}
  /\ window \in {"clock", "banner", "round"}
  /\ rtc \in BOOLEAN /\ asked \in BOOLEAN
  /\ made \in 0..MaxMade
  /\ queue \in Seq(1..made) /\ Len(queue) <= MaxBatch
  /\ outbox \in Seq(1..made) /\ Len(outbox) <= OutboxMax
  /\ source \in {"outbox", "queue"}
  /\ i \in Nat \ {0} /\ attempt \in 1..MaxAttempt
  /\ arrived \subseteq 1..made /\ dropped \subseteq 1..made
  /\ fed \in Nat

\* "180 s clears the worst legitimate case": however many messages wait and
\* however slowly everything fails, the watchdog is reset in time.
WatchdogFed == fed <= WatchdogTime

\* What waits is the outbox, then what the current loop over the queue has not
\* dealt with.
InQueue == pc = "spill" \/ (pc \in {"loop", "try"} /\ source = "queue")
Start == IF InQueue THEN i ELSE 1
Waiting == outbox \o SubSeq(queue, Start, Len(queue))

Promise ==
  INSTANCE Mailbox WITH
    Room <- OutboxMax, Batch <- MaxBatch, queued <- made, waiting <- Waiting

\* The outbox and the two send loops keep the promise of Mailbox: nothing is
\* removed that was not sent, only the oldest is ever sacrificed and only when
\* the outbox is full, and what waits stays in order.
KeepsPromise == Promise!MailSpec

\* Every message reaches the user or is displaced by newer ones, however often
\* sends and whole windows fail, as long as the network comes back in the end.
Delivered ==
  \A m \in 1..MaxMade : m <= made ~> m \in arrived \cup dropped
=============================================================================
