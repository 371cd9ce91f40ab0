--------------------------- MODULE Delivery_proofs ---------------------------
(***************************************************************************)
(* What pk_net.c guarantees about the Wi-Fi station, for every retry limit *)
(* and any number of dropouts, whoever calls it, and what the main loop of *)
(* main.c guarantees about a message, the Wi-Fi and the watchdog, for      *)
(* every size of the outbox and of a round's messages.                     *)
(* The refinement of Mailbox is proved step by step: DStep says that every *)
(* step of Delivery is a step of Mailbox or no step of it at all.          *)
(***************************************************************************)
EXTENDS Delivery, SequenceTheorems, TLAPS

-----------------------------------------------------------------------------
(* The Wi-Fi station, whoever calls it *)

Posted(e) == \E k \in 1..Len(events) : events[k] = e

\* An address reported or a bit set belongs to this window.
IpInv == ("connected" \in bits \/ Posted("sta_got_ip") \/ call = "up") => gotIp

\* Every retry counted was caused by a link lost in this window.
RetryInv == s_retry_num <= lost /\ FailIsEarned

\* The start event of the driver is handled before any other, and while
\* pk_net_wifi_sta_start waits: it cannot meet a shutdown.
StartInv ==
  \A k \in 1..Len(events) :
    events[k] = "sta_start" => k = 1 /\ bits = {} /\ call = "waiting"

\* The handler is told of a shutdown before the shutdown posts anything.
StopInv == tries = 0 /\ (call \in Stopping => s_stopping)

WifiInv == WifiTypeOK /\ IpInv /\ RetryInv /\ StartInv /\ StopInv

\* Events are handled in the order they were posted in: taking the first one
\* leaves the others, each one place further to the front.
LEMMA TakeFirst ==
  ASSUME WifiTypeOK, events # <<>>, events' = Tail(events)
  PROVE  /\ events' \in Seq(WifiEvents)
         /\ Len(events') = Len(events) - 1
         /\ \A k \in 1..Len(events') : k + 1 \in 1..Len(events) /\ events'[k] = events[k + 1]
         /\ 1 \in 1..Len(events) /\ Head(events) = events[1]
  BY SMT, HeadTailProperties, LenProperties, EmptySeq DEF WifiTypeOK

\* A new event comes last.
LEMMA PostLast ==
  ASSUME WifiTypeOK, NEW e \in WifiEvents, events' = Append(events, e)
  PROVE  /\ events' \in Seq(WifiEvents)
         /\ Len(events') = Len(events) + 1
         /\ \A k \in 1..Len(events) : events'[k] = events[k]
         /\ events'[Len(events')] = e
         /\ Len(events) \in Nat
  BY AppendProperties, LenProperties DEF WifiTypeOK

\* A driver that leaves its access point posts nothing but a dropout.
LEMMA LeaveKeeps ==
  ASSUME WifiInv, NEW to \in {"off", "started"}, Leave(to),
         UNCHANGED <<bits, s_retry_num, gotIp, lost, tries>>,
         s_stopping' \in BOOLEAN, drops' \in Nat,
         call' \in {"down", "waiting", "up"} \cup Stopping,
         \* A call that ends leaves no start event behind.
         call' = call \/ bits # {} \/ events = <<>> \/ call \in Stopping,
         call' = "up" => call = "up",
         call' \in Stopping => s_stopping'
  PROVE  WifiInv'
<1> USE DEF WifiInv
<1> DEFINE d == "sta_disconnected"
<1>1. d \in WifiEvents
  BY DEF WifiEvents
<1>2. /\ events' \in Seq(WifiEvents)
      /\ \/ events' = events
         \/ /\ Len(events) \in Nat
            /\ Len(events') = Len(events) + 1
            /\ \A k \in 1..Len(events) : events'[k] = events[k]
            /\ events'[Len(events')] = d
  BY <1>1, PostLast DEF Leave, WifiTypeOK
<1>3. WifiTypeOK'
  BY <1>2 DEF WifiTypeOK, Leave
<1>4. \A k \in 1..Len(events') :
        events'[k] = d \/ (k \in 1..Len(events) /\ events'[k] = events[k])
  BY <1>2
<1>5. IpInv'
  BY <1>4 DEF IpInv, Posted
<1>6. RetryInv'
  BY DEF RetryInv, FailIsEarned
<1>7. StartInv'
  <2>1. ASSUME NEW k \in 1..Len(events'), events'[k] = "sta_start"
        PROVE  k = 1 /\ bits' = {} /\ call' = "waiting"
    <3>1. k \in 1..Len(events) /\ events[k] = "sta_start"
      BY <2>1, <1>4
    <3>2. k = 1 /\ bits = {} /\ call = "waiting"
      BY <3>1 DEF StartInv
    <3>3. events # <<>>
      BY <3>1, EmptySeq
    <3>4. QED
      BY <3>2, <3>3 DEF Stopping
  <2>2. QED
    BY <2>1 DEF StartInv
<1>8. StopInv'
  BY DEF StopInv
<1>9. QED
  BY <1>3, <1>5, <1>6, <1>7, <1>8

-----------------------------------------------------------------------------
LEMMA WifiInitially == WifiInit => WifiInv
<1> SUFFICES ASSUME WifiInit PROVE WifiInv
  OBVIOUS
<1>1. events \in Seq(WifiEvents) /\ Len(events) = 0
  BY EmptySeq DEF WifiInit
<1>2. WifiTypeOK
  <2>1. s_stopping \in BOOLEAN /\ gotIp \in BOOLEAN
    BY DEF WifiInit
  <2>2. s_retry_num \in 0..MaxRetry /\ {lost, tries, drops} \subseteq Nat
    BY WifiAssumption DEF WifiInit
  <2>3. QED
    BY <1>1, <2>1, <2>2 DEF WifiInit, WifiTypeOK
<1>5. RetryInv /\ StopInv
  BY DEF WifiInit, RetryInv, FailIsEarned, StopInv, Stopping
<1>3. IpInv /\ StartInv
  BY <1>1 DEF WifiInit, IpInv, StartInv, Posted
<1>4. QED
  BY <1>2, <1>3, <1>5 DEF WifiInv

\* The driver and the air, whatever the caller is doing.
LEMMA AirKeeps ==
  ASSUME WifiInv, GotIp \/ JoinFails \/ Dropout
  PROVE  WifiInv'
<1>1. CASE GotIp
  <2>1. "sta_got_ip" \in WifiEvents
    BY DEF WifiEvents
  <2>2. /\ events' \in Seq(WifiEvents)
        /\ Len(events) \in Nat /\ Len(events') = Len(events) + 1
        /\ \A k \in 1..Len(events) : events'[k] = events[k]
        /\ events'[Len(events')] = "sta_got_ip"
    BY <1>1, <2>1, PostLast DEF WifiInv, GotIp
  <2>3. WifiTypeOK' /\ IpInv' /\ RetryInv' /\ StopInv'
    BY <1>1, <2>2
       DEF GotIp, WifiInv, WifiTypeOK, IpInv, RetryInv, FailIsEarned, StopInv
  <2>4. StartInv'
    BY <1>1, <2>2 DEF GotIp, WifiInv, StartInv
  <2>5. QED
    BY <2>3, <2>4 DEF WifiInv
<1>2. CASE JoinFails
  BY <1>2, LeaveKeeps DEF JoinFails, WifiInv, WifiTypeOK, StopInv
<1>3. CASE Dropout
  BY <1>3, LeaveKeeps DEF Dropout, WifiInv, WifiTypeOK, StopInv
<1>4. QED
  BY <1>1, <1>2, <1>3

\* wifi_event_handler, whichever event is next and whatever call is running.
LEMMA HandlerKeeps ==
  ASSUME WifiInv, HandleEvent
  PROVE  WifiInv'
<1> USE DEF WifiInv, HandleEvent
<1>1. /\ events' \in Seq(WifiEvents)
      /\ \A k \in 1..Len(events') : k + 1 \in 1..Len(events) /\ events'[k] = events[k + 1]
      /\ 1 \in 1..Len(events) /\ Head(events) = events[1]
  BY TakeFirst
<1>2. \A k \in 1..Len(events') : events'[k] # "sta_start"
  BY <1>1 DEF StartInv
<1>3. StartInv'
  BY <1>2 DEF StartInv
<1>4. Posted("sta_got_ip")' => Posted("sta_got_ip")
  BY <1>1 DEF Posted
<1>5. CASE Head(events) = "sta_start" /\ HandleStart
  <2>1. call = "waiting"
    BY <1>5, <1>1 DEF StartInv
  <2>2. QED
    BY <1>1, <1>3, <1>4, <1>5, <2>1
       DEF HandleStart, Connect, Stopping, WifiTypeOK, IpInv, RetryInv, FailIsEarned, StopInv
<1>6. CASE Head(events) = "sta_got_ip" /\ HandleGotIp
  <2>1. gotIp
    BY <1>6, <1>1 DEF IpInv, Posted
  <2>2. QED
    BY <1>1, <1>3, <1>4, <1>6, <2>1, WifiAssumption
       DEF HandleGotIp, WifiTypeOK, IpInv, RetryInv, FailIsEarned, StopInv
<1>7. CASE Head(events) = "sta_disconnected" /\ HandleDisconnected
  <2>1. WifiTypeOK' /\ RetryInv'
    <3>1. driver' \in {"off", "started", "joining", "up"} /\ tries' \in Nat
      BY <1>7 DEF HandleDisconnected, Connect, WifiTypeOK
    <3>2. bits' \subseteq {"connected", "fail"}
      BY <1>7 DEF HandleDisconnected, WifiTypeOK
    <3>3. CASE s_stopping
      BY <1>1, <1>7, <3>1, <3>2, <3>3
         DEF HandleDisconnected, WifiTypeOK, RetryInv, FailIsEarned
    <3>4. CASE ~s_stopping /\ s_retry_num < MaxRetry
      BY <1>1, <1>7, <3>1, <3>2, <3>4, WifiAssumption
         DEF HandleDisconnected, WifiTypeOK, RetryInv, FailIsEarned
    <3>5. CASE ~s_stopping /\ s_retry_num >= MaxRetry
      BY <1>1, <1>7, <3>1, <3>2, <3>5, WifiAssumption
         DEF HandleDisconnected, WifiTypeOK, RetryInv, FailIsEarned
    <3>6. QED
      BY <1>7, <3>3, <3>4, <3>5 DEF HandleDisconnected
  <2>2. IpInv' /\ StopInv'
    BY <1>4, <1>7 DEF HandleDisconnected, Connect, IpInv, StopInv
  <2>3. QED
    BY <1>3, <2>1, <2>2
<1>8. QED
  BY <1>5, <1>6, <1>7

\* pk_net_wifi_sta_start and pk_net_wifi_sta_stop, at each of their steps.
LEMMA CallKeeps ==
  ASSUME WifiInv, StartCall \/ StartOk \/ StartFails \/ StopCall \/ Disconnect \/ Halt
  PROVE  WifiInv'
<1>1. CASE StartCall
  <2>1. /\ events' \in Seq(WifiEvents)
        /\ \A k \in 1..Len(events') : k = 1 /\ events'[k] = "sta_start"
    BY <1>1 DEF StartCall, WifiEvents
  <2>2. s_stopping' \in BOOLEAN /\ gotIp' \in BOOLEAN
    BY <1>1 DEF StartCall
  <2>3. s_retry_num' \in 0..MaxRetry /\ {lost, tries, drops}' \subseteq Nat
    BY <1>1, WifiAssumption DEF StartCall, WifiInv, WifiTypeOK
  <2>4. WifiTypeOK'
    BY <1>1, <2>1, <2>2, <2>3 DEF StartCall, WifiTypeOK
  <2>5. IpInv' /\ StartInv'
    BY <1>1, <2>1 DEF StartCall, IpInv, StartInv, Posted
  <2>6. RetryInv' /\ StopInv'
    BY <1>1 DEF StartCall, RetryInv, FailIsEarned, StopInv, Stopping
  <2>7. QED
    BY <2>4, <2>5, <2>6 DEF WifiInv
<1>2. CASE StartOk
  BY <1>2 DEF StartOk, WifiInv, WifiTypeOK, IpInv, RetryInv, FailIsEarned, StartInv,
              StopInv, Posted, Stopping
<1>3. CASE StartFails
  BY <1>3, LeaveKeeps DEF StartFails, WifiInv, WifiTypeOK, StopInv, Stopping
<1>4. CASE StopCall
  BY <1>4 DEF StopCall, WifiInv, WifiTypeOK, IpInv, RetryInv, FailIsEarned, StartInv,
              StopInv, Posted, Stopping
<1>5. CASE Disconnect
  BY <1>5, LeaveKeeps DEF Disconnect, WifiInv, WifiTypeOK, StopInv, Stopping
<1>6. CASE Halt
  BY <1>6, LeaveKeeps DEF Halt, WifiInv, WifiTypeOK, StopInv, Stopping
<1>7. QED
  BY <1>1, <1>2, <1>3, <1>4, <1>5, <1>6

LEMMA WifiKeeps ==
  ASSUME WifiInv, [WifiNext]_wifi
  PROVE  WifiInv'
<1>1. CASE WifiNext
  BY <1>1, AirKeeps, HandlerKeeps, CallKeeps DEF WifiNext, Air
<1>2. CASE UNCHANGED wifi
  BY <1>2 DEF wifi, WifiInv, WifiTypeOK, IpInv, RetryInv, FailIsEarned, StartInv, StopInv, Posted
<1>3. QED
  BY <1>1, <1>2

\* What the invariant is for.
LEMMA WifiImplies == WifiInv => StartOkMeansIp /\ FailIsEarned /\ QuietAfterStop
  BY DEF WifiInv, IpInv, RetryInv, StopInv, StartOkMeansIp, QuietAfterStop

-----------------------------------------------------------------------------
(* The main loop *)

\* The two halves of TypeOK that are not about the Wi-Fi.
MailType ==
  /\ made \in 0..MaxMade
  /\ queue \in Seq(1..made) /\ Len(queue) <= MaxBatch
  /\ outbox \in Seq(1..made) /\ Len(outbox) <= OutboxMax
  /\ arrived \subseteq 1..made /\ dropped \subseteq 1..made

LoopType ==
  /\ pc \in {"clock", "join", "sntp", "check", "first", "banner", "greet", "poll",
             "window", "spill", "loop", "try", "updates", "sync", "stop", "sleep"}
  /\ window \in {"clock", "banner", "round"}
  /\ rtc \in BOOLEAN /\ asked \in BOOLEAN
  /\ source \in {"outbox", "queue"}
  /\ i \in Nat \ {0} /\ attempt \in 1..MaxAttempt

\* The index never leaves the line it runs over.
IndexInv ==
  /\ pc = "try" => i <= Len(Line)
  /\ pc = "loop" => i <= Len(Line) + 1
  /\ pc = "spill" => i <= Len(queue) + 1

\* Behind the index of send_outbox everything has arrived, since it stops at
\* the first message that fails: this is what makes removing it safe.
BehindInv ==
  pc \in {"loop", "try"} /\ source = "outbox" => \A k \in 1..(i - 1) : outbox[k] \in arrived

\* The queue is empty when a poll or an answer fills it.
QueueInv ==
  queue = <<>> \/ pc \in {"window", "spill", "loop", "try"} \/ (pc = "join" /\ window = "round")

MailInv == MailType /\ LoopType /\ IndexInv /\ BehindInv /\ QueueInv

\* How long the attempts before this one of the same message may have taken.
Spent == <<0, 23, 49, 78, 110, 145>>

\* How long ago the watchdog was reset at the latest, by where the task is.
FedInv ==
  /\ fed \in Nat
  /\ pc \in {"clock", "first", "poll", "join"} => fed = 0
  /\ pc \in {"sntp", "greet", "spill"} => fed <= JoinTime
  /\ pc \in {"banner", "window"} => fed <= PollTime
  /\ pc \in {"check", "stop", "sleep"} => fed <= JoinTime + BannerTime
  /\ pc = "try" => fed <= Spent[attempt]
  /\ pc = "loop" => fed <= 165 + (IF asked THEN UpdatesTime ELSE 0)
  /\ pc = "updates" => fed <= 165
  /\ pc = "sync" => fed <= 180
-----------------------------------------------------------------------------
(* The Wi-Fi *)

\* The main loop uses the Wi-Fi by its calls only.
LEMMA WifiSteps == [Next]_vars => [WifiNext]_wifi
<1> SUFFICES ASSUME [Next]_vars PROVE [WifiNext]_wifi
  OBVIOUS
<1>1. CASE Boot
  BY <1>1 DEF Boot, ClockWindow, Sntp, ClockCheck, FirstPoll, BannerWindow, SendBanner, WifiNext
<1>2. CASE Window
  BY <1>2 DEF Window, Joined, NotJoined, Spill, Spilt, SendNext, AttemptFails, SendFails,
              OutboxSent, QueueSent, NoUpdates, Answer, Resync, Stop, Stopped, WifiNext
<1>3. CASE Poll \/ RoundWindow \/ AttemptOk \/ Sleep
  BY <1>3 DEF Poll, RoundWindow, AttemptOk, Sleep, WifiNext
<1>4. CASE Radio
  BY <1>4 DEF Radio, WifiNext
<1>5. CASE UNCHANGED vars
  BY <1>5 DEF vars
<1>6. QED
  BY <1>1, <1>2, <1>3, <1>4, <1>5 DEF Next, Main

LEMMA WifiAlways == Spec => []WifiInv
<1>1. Init => WifiInv
  BY WifiInitially DEF Init
<1>2. WifiInv /\ [Next]_vars => WifiInv'
  BY WifiSteps, WifiKeeps
<1>3. QED
  BY <1>1, <1>2, PTL DEF Spec

\* An ESP_OK of pk_net_wifi_sta_start is earned in its own window.
THEOREM StartOkCorrect == Spec => []StartOkMeansIp
  BY WifiAlways, WifiImplies, PTL

\* The fail bit is set only after as many lost links as the retries allow.
THEOREM FailCorrect == Spec => []FailIsEarned
  BY WifiAlways, WifiImplies, PTL

\* No connection is attempted from the start of a shutdown to the next window.
THEOREM QuietCorrect == Spec => []QuietAfterStop
  BY WifiAlways, WifiImplies, PTL

-----------------------------------------------------------------------------
(* Types *)

LEMMA BootLoopType ==
  ASSUME LoopType, Boot
  PROVE  LoopType' /\ UNCHANGED <<mail, sending>>
<1>1. CASE ClockWindow
  BY <1>1 DEF ClockWindow, LoopType, sending
<1>2. CASE Sntp
  BY <1>2 DEF Sntp, LoopType, sending
<1>3. CASE ClockCheck
  BY <1>3 DEF ClockCheck, LoopType, sending, clock
<1>4. CASE FirstPoll
  BY <1>4 DEF FirstPoll, LoopType, sending, clock
<1>5. CASE BannerWindow
  BY <1>5 DEF BannerWindow, LoopType, sending
<1>6. CASE SendBanner
  BY <1>6 DEF SendBanner, LoopType, sending, clock
<1>7. QED
  BY <1>1, <1>2, <1>3, <1>4, <1>5, <1>6 DEF Boot

LEMMA FirstAttempt == MaxAttempt \in Nat /\ 1 \in 1..MaxAttempt
  BY DeliveryAssumption

LEMMA LoopTypeKeeps ==
  ASSUME LoopType, [Next]_vars
  PROVE  LoopType'
<1> USE FirstAttempt
<1>1. CASE Poll \/ RoundWindow \/ AttemptOk \/ Sleep
  BY <1>1 DEF Poll, RoundWindow, AttemptOk, Sleep, LoopType, sending, clock
<1>2. CASE Joined \/ NotJoined \/ Spill \/ Spilt
  BY <1>2 DEF Joined, NotJoined, Spill, Spilt, Loop, LoopType, clock
<1>3. CASE SendNext \/ AttemptFails \/ SendFails
  <2>1. CASE SendNext \/ AttemptFails
    BY <2>1 DEF SendNext, AttemptFails, LoopType, sending, clock
  <2>2. CASE SendFails
    BY <2>2 DEF SendFails, OutboxStops, QueueGoesOn, Loop, LoopType, clock
  <2>3. QED
    BY <1>3, <2>1, <2>2
<1>4. CASE OutboxSent \/ QueueSent
  <2>1. CASE OutboxSent
    BY <2>1 DEF OutboxSent, Loop, LoopType, clock
  <2>2. CASE QueueSent
    <3>1. pc' \in {"sync", "updates"} /\ asked' \in BOOLEAN
      BY <2>2 DEF QueueSent
    <3>2. QED
      BY <2>2, <3>1 DEF QueueSent, LoopType, clock
  <2>3. QED
    BY <1>4, <2>1, <2>2
<1>5. CASE NoUpdates \/ Answer \/ Resync \/ Stop \/ Stopped
  <2>1. CASE Answer
    BY <2>1 DEF Answer, Loop, LoopType, clock
  <2>2. CASE NoUpdates \/ Resync \/ Stop \/ Stopped
    BY <2>2 DEF NoUpdates, Resync, Stop, Stopped, LoopType, sending, clock
  <2>3. QED
    BY <1>5, <2>1, <2>2
<1>6. CASE Radio \/ UNCHANGED vars
  BY <1>6 DEF Radio, vars, main, LoopType, sending, clock
<1>7. QED
  BY <1>1, <1>2, <1>3, <1>4, <1>5, <1>6, BootLoopType DEF Next, Main, Window

LEMMA LoopTypeAlways == Spec => []LoopType
<1>1. Init => LoopType
  <2>1. 1 \in Nat \ {0} /\ 1 \in 1..MaxAttempt /\ FALSE \in BOOLEAN
    BY FirstAttempt
  <2>2. QED
    BY <2>1 DEF Init, LoopType
<1>2. QED
  BY <1>1, LoopTypeKeeps, PTL DEF Spec

-----------------------------------------------------------------------------
(* The watchdog *)

\* Six attempts fit between two resets: an attempt more adds its own time and
\* the wait before it.
LEMMA SpentGrows ==
  ASSUME MaxAttempt <= 6, NEW a \in 1..MaxAttempt
  PROVE  /\ Spent[a] \in Nat /\ Spent[a] + AttemptTime <= 165
         /\ a < MaxAttempt => Spent[a] + AttemptTime + Backoff(a) <= Spent[a + 1]
<1>1. a \in 1..6 /\ MaxAttempt \in Nat
  BY FirstAttempt
<1>2. /\ Spent[1] = 0 /\ Spent[2] = 23 /\ Spent[3] = 49
      /\ Spent[4] = 78 /\ Spent[5] = 110 /\ Spent[6] = 145
  BY DEF Spent
<1>3. a = 1 \/ a = 2 \/ a = 3 \/ a = 4 \/ a = 5 \/ a = 6
  BY <1>1
<1>4. a < MaxAttempt => a + 1 <= 6 /\ Backoff(a) = 3 * a
  BY <1>1 DEF Backoff
<1>5. QED
  BY <1>1, <1>2, <1>3, <1>4 DEF AttemptTime

LEMMA FedKeeps ==
  ASSUME MaxAttempt <= 6, LoopType, FedInv, [Next]_vars
  PROVE  FedInv'
<1> USE DEF FedInv, Reset, Block, PollTime, JoinTime, UpdatesTime, SntpTime, BannerTime
<1>1. CASE Boot
  BY <1>1 DEF Boot, ClockWindow, Sntp, ClockCheck, FirstPoll, BannerWindow, SendBanner
<1>2. CASE Poll \/ RoundWindow \/ Sleep
  BY <1>2 DEF Poll, RoundWindow, Sleep
<1>3. CASE Joined \/ NotJoined \/ Spill \/ Spilt
  BY <1>3 DEF Joined, NotJoined, Spill, Spilt, Loop
<1>4. CASE SendNext \/ AttemptOk \/ AttemptFails \/ SendFails
  <2>1. attempt \in 1..MaxAttempt
    BY DEF LoopType
  <2>2. CASE SendNext
    <3>1. Spent[attempt'] \in Nat
      BY <2>1, <2>2, SpentGrows DEF SendNext, sending
    <3>2. QED
      BY <2>2, <3>1 DEF SendNext
  <2>3. CASE AttemptOk \/ SendFails
    <3>1. pc = "try" /\ pc' = "loop" /\ fed' = fed + AttemptTime
      BY <2>3 DEF AttemptOk, SendFails, OutboxStops, QueueGoesOn, Loop
    <3>2. fed' \in Nat /\ fed' <= 165
      BY <2>1, <3>1, SpentGrows DEF AttemptTime
    <3>3. QED
      BY <3>1, <3>2
  <2>4. CASE AttemptFails
    <3>1. pc = "try" /\ pc' = "try" /\ attempt < MaxAttempt /\ attempt' = attempt + 1
      BY <2>4 DEF AttemptFails
    <3>2. fed' = fed + (AttemptTime + 3 * attempt) /\ Backoff(attempt) = 3 * attempt
      BY <2>4 DEF AttemptFails, Backoff
    <3>3. fed' \in Nat /\ fed' <= Spent[attempt']
      <4>1. Spent[attempt] \in Nat /\ Spent[attempt] + AttemptTime + 3 * attempt <= Spent[attempt + 1]
        BY <2>1, <3>1, <3>2, SpentGrows
      <4>2. attempt + 1 \in 1..MaxAttempt /\ Spent[attempt + 1] \in Nat
        BY <2>1, <3>1, SpentGrows, FirstAttempt
      <4>3. QED
        BY <2>1, <3>1, <3>2, <4>1, <4>2 DEF AttemptTime
    <3>4. QED
      BY <3>1, <3>3
  <2>5. QED
    BY <1>4, <2>2, <2>3, <2>4
<1>5. CASE OutboxSent \/ QueueSent \/ NoUpdates \/ Answer \/ Resync
  BY <1>5 DEF OutboxSent, QueueSent, NoUpdates, Answer, Resync, Loop
<1>6. CASE Stop \/ Stopped
  BY <1>6 DEF Stop, Stopped
<1>7. CASE Radio \/ UNCHANGED vars
  BY <1>7 DEF Radio, vars, main, sending
<1>8. QED
  BY <1>1, <1>2, <1>3, <1>4, <1>5, <1>6, <1>7 DEF Next, Main, Window

\* With up to six attempts for a message (the code makes three), and whatever
\* blocks for as long as it can, the task watchdog is never late.
THEOREM WatchdogCorrect == ASSUME MaxAttempt <= 6 PROVE Spec => []WatchdogFed
<1>1. Init => FedInv
  BY DEF Init, FedInv
<1>2. LoopType /\ FedInv /\ [Next]_vars => FedInv'
  BY FedKeeps
<1>3. LoopType /\ FedInv => WatchdogFed
  <2> SUFFICES ASSUME LoopType, FedInv PROVE fed <= 180
    BY DEF WatchdogFed, WatchdogTime
  <2>1. CASE pc = "try"
    BY <2>1, SpentGrows DEF LoopType, FedInv, AttemptTime
  <2>2. CASE pc # "try"
    BY <2>2 DEF LoopType, FedInv, PollTime, JoinTime, BannerTime, UpdatesTime
  <2>3. QED
    BY <2>1, <2>2
<1>4. QED
  BY <1>1, <1>2, <1>3, LoopTypeAlways, PTL DEF Spec

-----------------------------------------------------------------------------
(* Sequences cut and put together *)

\* What is left of a queue q from its n-th element on, and its parts.
LEMMA Rest ==
  ASSUME NEW S, NEW q \in Seq(S), NEW n \in Nat \ {0}
  PROVE  /\ SubSeq(q, n, Len(q)) \in Seq(S)
         /\ Len(SubSeq(q, n, Len(q))) = IF n <= Len(q) THEN Len(q) - n + 1 ELSE 0
         /\ \A k \in 1..(Len(q) - n + 1) : SubSeq(q, n, Len(q))[k] = q[n + k - 1]
<1>1. Len(q) \in Nat
  BY LenProperties
<1>2. \A k \in n..Len(q) : q[k] \in S
  BY <1>1, ElementOfSeq
<1>3. n \in Int /\ Len(q) \in Int
  BY <1>1
<1>4. QED
  BY <1>1, <1>2, <1>3, SubSeqProperties

\* A message moved from the head of the queue's rest to the end of the outbox
\* keeps its place in the whole line.
LEMMA MoveOne ==
  ASSUME NEW S, NEW s \in Seq(S), NEW q \in Seq(S), NEW n \in 1..Len(q)
  PROVE  Append(s, q[n]) \o SubSeq(q, n + 1, Len(q)) = s \o SubSeq(q, n, Len(q))
<1>1. Len(q) \in Nat /\ n \in Nat /\ n + 1 \in Nat \ {0} /\ q[n] \in S
  BY LenProperties, ElementOfSeq
<1>2. SubSeq(q, n, Len(q)) = <<q[n]>> \o SubSeq(q, n + 1, Len(q))
  BY <1>1, SubSeqRecursiveFirst
<1>3. Append(s, q[n]) = s \o <<q[n]>>
  BY <1>1, AppendIsConcat
<1>4. <<q[n]>> \in Seq(S) /\ SubSeq(q, n + 1, Len(q)) \in Seq(S)
  BY <1>1, Rest
<1>5. (s \o <<q[n]>>) \o SubSeq(q, n + 1, Len(q)) = s \o (<<q[n]>> \o SubSeq(q, n + 1, Len(q)))
  <2> DEFINE one == <<q[n]>>
             rest == SubSeq(q, n + 1, Len(q))
  <2>1. one \in Seq(S) /\ rest \in Seq(S)
    BY <1>4
  <2> HIDE DEF one, rest
  <2>2. (s \o one) \o rest = s \o (one \o rest)
    BY <2>1, ConcatAssociative, SMTT(60)
  <2>3. QED
    BY <2>2 DEF one, rest
<1>6. QED
  BY <1>2, <1>3, <1>5

LEMMA TailOfConcat ==
  ASSUME NEW S, NEW s \in Seq(S), NEW t \in Seq(S), s # <<>>
  PROVE  /\ s \o t # <<>> /\ Head(s \o t) = Head(s) /\ Tail(s \o t) = Tail(s) \o t
<1>1. Len(s) \in Nat \ {0} /\ Len(t) \in Nat
  BY EmptySeq, LenProperties
<1>2. /\ s \o t \in Seq(S) /\ Len(s \o t) = Len(s) + Len(t)
      /\ \A k \in 1..(Len(s) + Len(t)) :
           (s \o t)[k] = IF k <= Len(s) THEN s[k] ELSE t[k - Len(s)]
  BY ConcatProperties
<1>3. s \o t # <<>>
  BY <1>1, <1>2, EmptySeq
<1>4. /\ Tail(s) \in Seq(S) /\ Len(Tail(s)) = Len(s) - 1
      /\ \A k \in 1..Len(Tail(s)) : Tail(s)[k] = s[k + 1]
  BY HeadTailProperties
<1>5. /\ Tail(s \o t) \in Seq(S) /\ Len(Tail(s \o t)) = Len(s) + Len(t) - 1
      /\ \A k \in 1..Len(Tail(s \o t)) : Tail(s \o t)[k] = (s \o t)[k + 1]
  BY <1>2, <1>3, HeadTailProperties
<1>6. /\ Tail(s) \o t \in Seq(S) /\ Len(Tail(s) \o t) = Len(s) - 1 + Len(t)
      /\ \A k \in 1..(Len(s) - 1 + Len(t)) :
           (Tail(s) \o t)[k] = IF k <= Len(s) - 1 THEN Tail(s)[k] ELSE t[k - (Len(s) - 1)]
  BY <1>4, ConcatProperties
<1>7. ASSUME NEW k \in 1..Len(Tail(s \o t)) PROVE Tail(s \o t)[k] = (Tail(s) \o t)[k]
  BY <1>1, <1>2, <1>4, <1>5, <1>6
<1>8. Tail(s \o t) = Tail(s) \o t
  BY <1>1, <1>5, <1>6, <1>7, SeqEqual
<1>9. Head(s \o t) = Head(s)
  BY <1>1, <1>2, <1>3
<1>10. QED
  BY <1>3, <1>8, <1>9

\* What Mailbox's Retire leaves of w: the messages behind the first a are gone,
\* up to the b-th.  Three lemmas say how the two send loops come to it.
Cut(w, a, b) == SubSeq(w, 1, a) \o SubSeq(w, b + 1, Len(w))

LEMMA CutNone ==
  ASSUME NEW S, NEW w \in Seq(S)
  PROVE  w = Cut(w, 0, 0)
<1>1. SubSeq(w, 0 + 1, Len(w)) = w
  BY SubSeqFull
<1>2. SubSeq(w, 1, 0) = <<>>
  BY SubSeqEmpty
<1>3. QED
  BY <1>1, <1>2, ConcatEmptySeq DEF Cut

\* send_outbox: a prefix goes.
LEMMA CutFront ==
  ASSUME NEW S, NEW s \in Seq(S), NEW t \in Seq(S), NEW n \in 1..(Len(s) + 1)
  PROVE  SubSeq(s, n, Len(s)) \o t = Cut(s \o t, 0, n - 1)
<1> DEFINE w == s \o t
           u == SubSeq(s, n, Len(s))
           v == SubSeq(w, n, Len(w))
<1>1. Len(s) \in Nat /\ Len(t) \in Nat /\ n \in Nat \ {0}
  BY LenProperties
<1>2. /\ w \in Seq(S) /\ Len(w) = Len(s) + Len(t)
      /\ \A k \in 1..(Len(s) + Len(t)) : w[k] = IF k <= Len(s) THEN s[k] ELSE t[k - Len(s)]
  BY ConcatProperties
<1>3. /\ u \in Seq(S) /\ Len(u) = Len(s) - n + 1
      /\ \A k \in 1..(Len(s) - n + 1) : u[k] = s[n + k - 1]
  BY <1>1, Rest
<1>4. /\ v \in Seq(S) /\ Len(v) = Len(w) - n + 1
      /\ \A k \in 1..(Len(w) - n + 1) : v[k] = w[n + k - 1]
  BY <1>1, <1>2, Rest
<1>5. /\ u \o t \in Seq(S) /\ Len(u \o t) = Len(u) + Len(t)
      /\ \A k \in 1..(Len(u) + Len(t)) : (u \o t)[k] = IF k <= Len(u) THEN u[k] ELSE t[k - Len(u)]
  BY <1>3, ConcatProperties
<1>6. Len(u \o t) = Len(v)
  BY <1>1, <1>2, <1>3, <1>4, <1>5
<1>7. ASSUME NEW k \in 1..Len(v) PROVE (u \o t)[k] = v[k]
  <2>1. v[k] = w[n + k - 1] /\ n + k - 1 \in 1..(Len(s) + Len(t))
    BY <1>1, <1>2, <1>4
  <2>2. CASE k <= Len(u)
    BY <1>1, <1>2, <1>3, <1>5, <1>6, <2>1, <2>2
  <2>3. CASE k > Len(u)
    <3>1. (u \o t)[k] = t[k - Len(u)]
      BY <1>1, <1>3, <1>4, <1>5, <1>6, <2>3
    <3>2. w[n + k - 1] = t[n + k - 1 - Len(s)] /\ n + k - 1 - Len(s) = k - Len(u)
      BY <1>1, <1>2, <1>3, <2>1, <2>3
    <3>3. QED
      BY <2>1, <3>1, <3>2
  <2>4. QED
    BY <1>1, <1>3, <2>2, <2>3
<1>8. u \o t = v
  BY <1>4, <1>5, <1>6, <1>7, SeqEqual
<1>9. SubSeq(w, 1, 0) = <<>> /\ <<>> \o v = v
  BY <1>4, SubSeqEmpty, ConcatEmptySeq
<1>10. n - 1 + 1 = n
  BY <1>1
<1>11. QED
  BY <1>8, <1>9, <1>10 DEF Cut

\* send_queued: the message behind the whole outbox goes.
LEMMA CutOne ==
  ASSUME NEW S, NEW s \in Seq(S), NEW q \in Seq(S), NEW n \in 1..Len(q)
  PROVE  LET w == s \o SubSeq(q, n, Len(q))
         IN  /\ Len(s) + 1 \in 1..Len(w) /\ w[Len(s) + 1] = q[n]
             /\ s \o SubSeq(q, n + 1, Len(q)) = Cut(w, Len(s), Len(s) + 1)
<1> DEFINE w == s \o SubSeq(q, n, Len(q))
           t == SubSeq(q, n, Len(q))
           r == SubSeq(q, n + 1, Len(q))
           v == SubSeq(w, Len(s) + 2, Len(w))
<1>1. Len(s) \in Nat /\ Len(q) \in Nat /\ n \in Nat \ {0} /\ n + 1 \in Nat \ {0}
  BY LenProperties
<1>2. /\ t \in Seq(S) /\ Len(t) = Len(q) - n + 1
      /\ \A k \in 1..(Len(q) - n + 1) : t[k] = q[n + k - 1]
  BY <1>1, Rest
<1>3. /\ r \in Seq(S) /\ Len(r) = Len(q) - n
      /\ \A k \in 1..(Len(q) - n) : r[k] = q[n + k]
  BY <1>1, Rest
<1>4. /\ w \in Seq(S) /\ Len(w) = Len(s) + Len(t)
      /\ \A k \in 1..(Len(s) + Len(t)) : w[k] = IF k <= Len(s) THEN s[k] ELSE t[k - Len(s)]
  BY <1>2, ConcatProperties
<1>5. Len(s) + 1 \in 1..Len(w) /\ w[Len(s) + 1] = q[n]
  BY <1>1, <1>2, <1>4
<1>6. SubSeq(w, 1, Len(s)) = s
  <2> DEFINE h == SubSeq(w, 1, Len(s))
  <2>1. /\ h \in Seq(S) /\ Len(h) = Len(s)
        /\ \A k \in 1..Len(s) : h[k] = w[k]
    <3>1. \A k \in 1..Len(s) : w[k] \in S
      BY <1>1, <1>4, ElementOfSeq
    <3>2. /\ h \in Seq(S) /\ Len(h) = IF 1 <= Len(s) THEN Len(s) - 1 + 1 ELSE 0
          /\ \A k \in 1..(Len(s) - 1 + 1) : h[k] = w[1 + k - 1]
      BY <1>1, <3>1, SubSeqProperties
    <3>3. QED
      BY <1>1, <3>2
  <2>2. \A k \in 1..Len(s) : w[k] = s[k]
    BY <1>1, <1>2, <1>4
  <2>3. QED
    BY <2>1, <2>2, SeqEqual
<1>7. v = r
  <2>1. Len(s) + 2 \in Nat \ {0}
    BY <1>1
  <2>2. /\ v \in Seq(S) /\ Len(v) = Len(q) - n
        /\ \A k \in 1..(Len(q) - n) : v[k] = w[Len(s) + 2 + k - 1]
    BY <1>1, <1>2, <1>4, <2>1, Rest
  <2>3. ASSUME NEW k \in 1..Len(v) PROVE v[k] = r[k]
    <3>1. v[k] = w[Len(s) + 2 + k - 1] /\ k \in 1..(Len(q) - n)
      BY <2>2
    <3>2. w[Len(s) + 2 + k - 1] = t[k + 1]
      BY <1>1, <1>2, <1>4, <3>1
    <3>3. t[k + 1] = q[n + k]
      <4>1. k + 1 \in 1..(Len(q) - n + 1) /\ n + (k + 1) - 1 = n + k
        BY <1>1, <3>1
      <4>2. QED
        BY <1>2, <4>1
    <3>4. r[k] = q[n + k]
      BY <1>3, <3>1
    <3>5. QED
      BY <3>1, <3>2, <3>3, <3>4
  <2>4. QED
    BY <1>3, <2>2, <2>3, SeqEqual
<1>8. Len(s) + 1 + 1 = Len(s) + 2
  BY <1>1
<1>9. QED
  BY <1>5, <1>6, <1>7, <1>8 DEF Cut

-----------------------------------------------------------------------------
(* The steps of Mailbox, in terms of Delivery's state *)

MailStep == [Promise!MailNext]_(Promise!mail)

\* Nothing is queued, sent or given up: moving a message is no step.
LEMMA NoStep ==
  ASSUME UNCHANGED <<made, Waiting, arrived, dropped>>
  PROVE  MailStep
  BY DEF MailStep, Promise!mail

LEMMA QueueStep ==
  ASSUME NEW n \in 1..MaxBatch, made' = made + n,
         Waiting' = Waiting \o [k \in 1..n |-> made + k], UNCHANGED <<arrived, dropped>>
  PROVE  MailStep
  BY DEF MailStep, Promise!MailNext, Promise!Queue

\* Messages arrive, and of those that have arrived a run is given up.
LEMMA RetireStep ==
  ASSUME NEW ms \in SUBSET ToSet(Waiting), arrived' = arrived \cup ms,
         NEW a \in 0..Len(Waiting), NEW b \in 0..Len(Waiting), a <= b,
         \A k \in a + 1..b : Waiting[k] \in arrived',
         Waiting' = Cut(Waiting, a, b),
         UNCHANGED <<made, dropped>>
  PROVE  MailStep
<1>1. Promise!Arrivals
  BY DEF Promise!Arrivals, Promise!ToSet, ToSet
<1>2. Promise!Retire
  BY <1>1, Zenon DEF Promise!Retire, Cut
<1>3. QED
  BY <1>2 DEF MailStep, Promise!MailNext

LEMMA ArriveStep ==
  ASSUME NEW ms \in SUBSET ToSet(Waiting), arrived' = arrived \cup ms,
         NEW S, Waiting \in Seq(S), UNCHANGED <<made, Waiting, dropped>>
  PROVE  MailStep
<1> DEFINE a == 0
<1>1. a \in 0..Len(Waiting) /\ a <= a
  BY LenProperties
<1>2. \A k \in a + 1..a : Waiting[k] \in arrived'
  BY <1>1
<1>3. Waiting' = Cut(Waiting, a, a)
  BY CutNone
<1> HIDE DEF a
<1>4. QED
  BY <1>1, <1>2, <1>3, RetireStep

LEMMA DropStep ==
  ASSUME NEW ms \in SUBSET ToSet(Waiting), arrived' = arrived \cup ms,
         Len(Waiting) > OutboxMax, Waiting' = Tail(Waiting),
         dropped' = dropped \cup {Head(Waiting)}, UNCHANGED made
  PROVE  MailStep
<1>1. Promise!Arrivals
  BY DEF Promise!Arrivals, Promise!ToSet, ToSet
<1>2. Promise!DropOldest
  BY <1>1 DEF Promise!DropOldest
<1>3. QED
  BY <1>2 DEF MailStep, Promise!MailNext

-----------------------------------------------------------------------------
(* Each step of the main loop keeps MailInv and is a MailStep *)

MailKept == MailType' /\ IndexInv' /\ BehindInv' /\ QueueInv' /\ MailStep

LEMMA Positions ==
  ASSUME MailType
  PROVE  /\ Len(queue) \in Nat /\ Len(outbox) \in Nat /\ made \in Nat
         /\ \A k \in 1..Len(queue) : queue[k] \in 1..made
         /\ \A k \in 1..Len(outbox) : outbox[k] \in 1..made
         /\ OutboxMax \in Nat \ {0} /\ MaxBatch \in Nat \ {0} /\ MaxMade \in Nat \ {0}
<1>1. {OutboxMax, MaxBatch, MaxMade} \subseteq Nat \ {0}
  BY DeliveryAssumption
<1>2. queue \in Seq(1..made) /\ outbox \in Seq(1..made) /\ made \in Nat
  BY <1>1 DEF MailType
<1>3. Len(queue) \in Nat /\ Len(outbox) \in Nat
  BY <1>2, LenProperties
<1>4. \A k \in 1..Len(queue) : queue[k] \in 1..made
  BY <1>2, ElementOfSeq
<1>5. \A k \in 1..Len(outbox) : outbox[k] \in 1..made
  BY <1>2, ElementOfSeq
<1>6. QED
  BY <1>1, <1>2, <1>3, <1>4, <1>5

\* The message the queue's loop is at waits behind the whole outbox.
LEMMA CurrentWaits ==
  ASSUME MailType, InQueue, i \in 1..Len(queue)
  PROVE  /\ Len(outbox) + 1 \in 1..Len(Waiting) /\ Waiting[Len(outbox) + 1] = queue[i]
         /\ outbox \o SubSeq(queue, i + 1, Len(queue))
              = Cut(Waiting, Len(outbox), Len(outbox) + 1)
<1>1. Waiting = outbox \o SubSeq(queue, i, Len(queue))
  BY DEF Waiting, Start
<1>2. outbox \in Seq(1..made) /\ queue \in Seq(1..made)
  BY DEF MailType
<1> DEFINE S == 1..made
<1> HIDE DEF S
<1>3. outbox \in Seq(S) /\ queue \in Seq(S)
  BY <1>2 DEF S
<1> DEFINE w == outbox \o SubSeq(queue, i, Len(queue))
<1>4. /\ Len(outbox) + 1 \in 1..Len(w) /\ w[Len(outbox) + 1] = queue[i]
      /\ outbox \o SubSeq(queue, i + 1, Len(queue)) = Cut(w, Len(outbox), Len(outbox) + 1)
  BY <1>3, CutOne
<1> HIDE DEF w
<1>5. Waiting = w
  BY <1>1 DEF w
<1>6. QED
  BY <1>4, <1>5

LEMMA Unmoved ==
  ASSUME MailType, UNCHANGED mail, Start' = Start
  PROVE  MailType' /\ MailStep
<1>1. UNCHANGED <<made, queue, outbox, arrived, dropped>>
  BY DEF mail
<1>2. Waiting' = Waiting
  BY <1>1 DEF Waiting
<1>3. MailType'
  BY <1>1 DEF MailType
<1>4. QED
  BY <1>1, <1>2, <1>3, NoStep

LEMMA BootKeeps ==
  ASSUME MailInv, Boot
  PROVE  MailKept
<1>1. UNCHANGED mail
  BY BootLoopType DEF MailInv
<1>2. /\ pc \in {"clock", "sntp", "check", "first", "banner", "greet"}
      /\ pc' \in {"join", "stop", "first", "clock", "banner", "sleep"}
  BY DEF Boot, ClockWindow, Sntp, ClockCheck, FirstPoll, BannerWindow, SendBanner
<1>3. Start' = Start
  BY <1>2 DEF Start, InQueue
<1>4. IndexInv' /\ BehindInv'
  BY <1>2 DEF IndexInv, BehindInv
<1>5. QueueInv'
  BY <1>1, <1>2 DEF MailInv, QueueInv, mail
<1>6. QED
  BY <1>1, <1>3, <1>4, <1>5, Unmoved DEF MailInv, MailKept

\* Opening a window, or giving it up.
LEMMA WindowKeeps ==
  ASSUME MailInv, RoundWindow \/ Joined \/ NotJoined
  PROVE  MailKept
<1>1. UNCHANGED mail /\ pc \in {"window", "join"}
  BY DEF RoundWindow, Joined, NotJoined
<1>2. Start = 1
  BY <1>1 DEF Start, InQueue
<1>3. \/ pc' = "join" /\ window' = "round"
      \/ pc' \in {"sntp", "greet", "check", "sleep"} /\ pc = "join" /\ window # "round"
      \/ pc' = "spill" /\ i' = 1
      \/ pc' = "loop" /\ i' = 1 /\ source' = "outbox"
  BY DEF RoundWindow, Joined, NotJoined, Loop
<1>4. Start' = 1
  BY <1>3 DEF Start, InQueue
<1>5. IndexInv'
  <2>1. Len(queue') \in Nat /\ Len(outbox') \in Nat
    BY <1>1, Positions DEF mail, MailInv
  <2>2. QED
    BY <1>3, <2>1 DEF IndexInv, Line
<1>6. BehindInv'
  BY <1>3 DEF BehindInv
<1>7. QueueInv'
  BY <1>1, <1>3 DEF QueueInv, MailInv, mail
<1>8. QED
  BY <1>1, <1>2, <1>4, <1>5, <1>6, <1>7, Unmoved DEF MailInv, MailKept

\* The steps of the task that have nothing to do with a message.
LEMMA RestKeeps ==
  ASSUME MailInv, NoUpdates \/ Resync \/ Stop \/ Stopped \/ Sleep
  PROVE  MailKept
<1>1. /\ UNCHANGED mail /\ pc \in {"updates", "sync", "stop", "sleep"}
      /\ pc' \in {"sync", "stop", "check", "sleep", "poll"}
  BY DEF NoUpdates, Resync, Stop, Stopped, Sleep
<1>2. Start' = Start
  BY <1>1 DEF Start, InQueue
<1>3. IndexInv' /\ BehindInv' /\ QueueInv'
  BY <1>1 DEF IndexInv, BehindInv, QueueInv, MailInv, mail
<1>4. QED
  BY <1>1, <1>2, <1>3, Unmoved DEF MailInv, MailKept

\* Taking up the next message; whatever the radio does meanwhile.
LEMMA StayKeeps ==
  ASSUME MailInv, SendNext \/ Radio \/ UNCHANGED vars
  PROVE  MailKept
<1>1. CASE SendNext
  <2>1. /\ UNCHANGED mail /\ UNCHANGED sending
        /\ pc = "loop" /\ pc' = "try" /\ i <= Len(Line)
    BY <1>1 DEF SendNext
  <2>2. Start' = Start
    BY <2>1 DEF Start, InQueue, sending
  <2>3. IndexInv' /\ BehindInv' /\ QueueInv'
    BY <2>1 DEF IndexInv, BehindInv, QueueInv, Line, MailInv, mail, sending
  <2>4. QED
    BY <2>1, <2>2, <2>3, Unmoved DEF MailInv, MailKept
<1>2. CASE Radio \/ UNCHANGED vars
  <2>1. UNCHANGED mail /\ UNCHANGED <<pc, sending, clock>>
    BY <1>2 DEF Radio, vars, main
  <2>2. Start' = Start
    BY <2>1 DEF Start, InQueue, sending
  <2>3. IndexInv' /\ BehindInv' /\ QueueInv'
    BY <2>1 DEF IndexInv, BehindInv, QueueInv, Line, MailInv, mail, sending, clock
  <2>4. QED
    BY <2>1, <2>2, <2>3, Unmoved DEF MailInv, MailKept
<1>3. QED
  BY <1>1, <1>2

\* New messages, numbered after all others, go into an empty queue.
LEMMA FillKeeps ==
  ASSUME MailInv, queue = <<>>, Start = 1, Start' = 1,
         NEW n \in 0..MaxBatch, made + n <= MaxMade, made' = made + n,
         queue' = [k \in 1..n |-> made + k], UNCHANGED <<outbox, arrived, dropped>>
  PROVE  MailType' /\ MailStep
<1>1. /\ made \in Nat /\ made' \in Nat /\ made <= made' /\ n \in Nat /\ MaxBatch \in Nat
      /\ made' \in 0..MaxMade /\ 1..made \subseteq 1..made'
  BY Positions DEF MailInv, MailType
<1>2. queue' \in Seq(1..made') /\ Len(queue') = n
  <2>1. \A k \in 1..n : made + k \in 1..made'
    BY <1>1
  <2>2. queue' \in [1..n -> 1..made']
    BY <2>1
  <2>3. QED
    BY <1>1, <2>2
<1>3. outbox' \in Seq(1..made')
  BY <1>1, SeqMonotonic DEF MailInv, MailType
<1>4. MailType'
  BY <1>1, <1>2, <1>3 DEF MailInv, MailType
<1>5. Waiting = outbox
  <2>1. SubSeq(queue, 1, Len(queue)) = <<>>
    BY EmptySeq, SubSeqEmpty
  <2>2. QED
    BY <2>1, ConcatEmptySeq DEF Waiting, MailInv, MailType
<1>6. Waiting' = outbox \o queue'
  <2>1. SubSeq(queue', 1, Len(queue')) = queue'
    BY <1>2, SubSeqFull
  <2>2. QED
    BY <2>1 DEF Waiting
<1>7. CASE n = 0
  <2>1. queue' = <<>>
    BY <1>2, <1>7, EmptySeq
  <2>2. Waiting' = Waiting
    BY <1>3, <1>5, <1>6, <2>1, ConcatEmptySeq
  <2>3. made' = made
    BY <1>1, <1>7
  <2>4. QED
    BY <1>4, <2>2, <2>3, NoStep
<1>8. CASE n # 0
  <2>1. n \in 1..MaxBatch
    BY <1>1, <1>8
  <2>2. QED
    BY <1>4, <1>5, <1>6, <2>1, QueueStep
<1>9. QED
  BY <1>7, <1>8

LEMMA PollKeeps ==
  ASSUME MailInv, Poll
  PROVE  MailKept
<1>1. /\ pc = "poll" /\ pc' = "window" /\ UNCHANGED <<outbox, arrived, dropped>>
  BY DEF Poll
<1>2. Start = 1 /\ Start' = 1 /\ queue = <<>>
  BY <1>1 DEF Start, InQueue, MailInv, QueueInv
<1>3. PICK n \in 0..MaxBatch : /\ made + n <= MaxMade /\ made' = made + n
                              /\ queue' = [k \in 1..n |-> made + k]
  BY DEF Poll
<1>4. MailType' /\ MailStep
  BY <1>1, <1>2, <1>3, FillKeeps
<1>5. IndexInv' /\ BehindInv' /\ QueueInv'
  BY <1>1 DEF IndexInv, BehindInv, QueueInv
<1>6. QED
  BY <1>4, <1>5 DEF MailKept

LEMMA AnswerKeeps ==
  ASSUME MailInv, Answer
  PROVE  MailKept
<1>1. /\ pc = "updates" /\ pc' = "loop" /\ source' = "queue" /\ i' = 1
      /\ made < MaxMade /\ made' = made + 1 /\ queue' = <<made + 1>>
      /\ UNCHANGED <<outbox, arrived, dropped>>
  BY DEF Answer, Loop
<1>2. Start = 1 /\ Start' = 1 /\ queue = <<>>
  BY <1>1 DEF Start, InQueue, MailInv, QueueInv
<1>3. queue' = [k \in 1..1 |-> made + k]
  BY <1>1
<1>4. 1 \in 0..MaxBatch /\ made + 1 <= MaxMade
  BY <1>1, Positions DEF MailInv
<1>5. MailType' /\ MailStep
  BY <1>1, <1>2, <1>3, <1>4, FillKeeps
<1>6. IndexInv' /\ BehindInv' /\ QueueInv'
  <2>1. Len(queue') = 1
    BY <1>1
  <2>2. QED
    BY <1>1, <2>1 DEF IndexInv, BehindInv, QueueInv, Line
<1>7. QED
  BY <1>5, <1>6 DEF MailKept

\* outbox_push of the queue's current message, which may have arrived without
\* an answer: the oldest message goes if there is no room, or none.
LEMMA PushKeeps ==
  ASSUME MailInv, i <= Len(queue), InQueue, InQueue', Push(queue[i]), i' = i + 1,
         NEW ms \in SUBSET {queue[i]}, arrived' = arrived \cup ms, UNCHANGED <<made, queue>>
  PROVE  MailType' /\ MailStep
<1> DEFINE S == 1..made
           m == queue[i]
           r == SubSeq(queue, i + 1, Len(queue))
<1>1. /\ i \in 1..Len(queue) /\ i \in Nat \ {0} /\ i + 1 \in Nat \ {0}
      /\ queue \in Seq(S) /\ outbox \in Seq(S) /\ m \in S
  BY Positions DEF MailInv, MailType, LoopType
<1>0. r \in Seq(S) /\ SubSeq(queue, i, Len(queue)) \in Seq(S)
  BY <1>1, Rest
<1>2. Waiting = outbox \o SubSeq(queue, i, Len(queue))
  BY DEF Waiting, Start
<1>3. Waiting' = outbox' \o SubSeq(queue, i + 1, Len(queue))
  BY DEF Waiting, Start
<1>4. Waiting = Append(outbox, m) \o SubSeq(queue, i + 1, Len(queue))
  BY <1>1, <1>2, MoveOne
<1>5. ms \in SUBSET ToSet(Waiting)
  <2>1. Len(outbox) + 1 \in 1..Len(Waiting) /\ Waiting[Len(outbox) + 1] = m
    BY <1>1, CurrentWaits DEF MailInv
  <2>2. Waiting \in Seq(S)
    BY <1>0, <1>1, <1>2, ConcatProperties
  <2>3. DOMAIN Waiting = 1..Len(Waiting)
    BY <2>2, LenProperties
  <2>4. m \in ToSet(Waiting)
    BY <2>1, <2>3 DEF ToSet
  <2>5. QED
    BY <2>4
<1>6. /\ Append(outbox, m) \in Seq(S) /\ Len(Append(outbox, m)) = Len(outbox) + 1
      /\ Append(outbox, m) # <<>>
  BY <1>1, AppendProperties
<1>7. CASE Len(outbox) < OutboxMax
  <2>1. outbox' = Append(outbox, m) /\ UNCHANGED dropped
    BY <1>7 DEF Push
  <2>2. Waiting' = Waiting
    BY <1>3, <1>4, <2>1
  <2>3. Waiting \in Seq(S)
    BY <1>0, <1>1, <1>2, ConcatProperties
  <2>4. MailStep
    BY <1>5, <2>1, <2>2, <2>3, ArriveStep
  <2>5. Len(outbox') <= OutboxMax /\ outbox' \in Seq(S)
    BY <1>6, <1>7, <2>1, Positions DEF MailInv
  <2>6. arrived' \subseteq S
    BY <1>1 DEF MailInv, MailType
  <2>7. MailType'
    BY <2>1, <2>5, <2>6 DEF MailInv, MailType
  <2>8. QED
    BY <2>4, <2>7
<1>8. CASE ~(Len(outbox) < OutboxMax)
  <2>1. outbox' = Append(Tail(outbox), m) /\ dropped' = dropped \cup {Head(outbox)}
    BY <1>8 DEF Push
  <2>2. Len(outbox) \in Nat /\ OutboxMax \in Nat \ {0} /\ Len(outbox) = OutboxMax
    BY <1>8, Positions DEF MailInv, MailType
  <2>3. outbox # <<>>
    BY <2>2, EmptySeq
  <2>4. Tail(outbox) \in Seq(S) /\ Len(Tail(outbox)) = Len(outbox) - 1 /\ Head(outbox) \in S
    BY <1>1, <2>3, HeadTailProperties
  <2>5. outbox' \in Seq(S) /\ Len(outbox') = OutboxMax
    BY <1>1, <2>1, <2>2, <2>4, AppendProperties
  <2>6. MailType'
    BY <1>1, <2>1, <2>2, <2>4, <2>5, Positions DEF MailInv, MailType
  <2>7. outbox' = Tail(Append(outbox, m)) /\ Head(Append(outbox, m)) = Head(outbox)
    BY <1>1, <2>1, <2>3, HeadTailAppend
  <2>8. Len(r) \in Nat
    BY <1>0, LenProperties
  <2>9. Waiting' = Tail(Waiting) /\ Head(Waiting) = Head(outbox)
    BY <1>0, <1>3, <1>4, <1>6, <2>7, TailOfConcat
  <2>10. Len(Waiting) > OutboxMax
    <3>1. Len(Waiting) = Len(Append(outbox, m)) + Len(r)
      BY <1>0, <1>4, <1>6, ConcatProperties
    <3>2. Len(Append(outbox, m)) = OutboxMax + 1
      BY <1>1, <2>2, AppendProperties
    <3> HIDE DEF r
    <3>3. OutboxMax + 1 + Len(r) > OutboxMax
      BY <2>2, <2>8
    <3>4. QED
      BY <3>1, <3>2, <3>3, Zenon
  <2>11. MailStep
    BY <1>5, <2>1, <2>9, <2>10, DropStep
  <2>12. QED
    BY <2>6, <2>11
<1>9. QED
  BY <1>7, <1>8

LEMMA SpillKeeps ==
  ASSUME MailInv, Spill
  PROVE  MailKept
<1>1. /\ pc = "spill" /\ pc' = "spill" /\ i <= Len(queue) /\ Push(queue[i]) /\ i' = i + 1
      /\ UNCHANGED <<made, queue, arrived>>
  BY DEF Spill
<1>2. InQueue /\ InQueue'
  BY <1>1 DEF InQueue
<1>3. arrived' = arrived \cup {} /\ {} \in SUBSET {queue[i]}
  BY <1>1
<1>4. MailType' /\ MailStep
  BY <1>1, <1>2, <1>3, PushKeeps
<1>5. IndexInv' /\ BehindInv' /\ QueueInv'
  BY <1>1, Positions DEF IndexInv, BehindInv, QueueInv, MailInv, LoopType
<1>6. QED
  BY <1>4, <1>5 DEF MailKept

\* The queue is dealt with and emptied.
LEMMA EmptiedKeeps ==
  ASSUME MailInv, InQueue, i > Len(queue), queue' = <<>>, Start' = 1,
         UNCHANGED <<made, outbox, arrived, dropped>>
  PROVE  MailType' /\ MailStep
<1>1. Len(queue) \in Nat /\ i \in Nat
  BY Positions DEF MailInv, LoopType
<1>2. SubSeq(queue, i, Len(queue)) = <<>>
  BY <1>1, SubSeqEmpty
<1>3. SubSeq(queue', 1, Len(queue')) = <<>>
  BY EmptySeq, SubSeqEmpty
<1>4. Waiting' = Waiting
  BY <1>2, <1>3 DEF Waiting, Start
<1>5. MailStep
  BY <1>4, NoStep
<1>6. queue' \in Seq(1..made) /\ Len(queue') <= MaxBatch
  BY EmptySeq, Positions DEF MailInv
<1>7. QED
  BY <1>5, <1>6 DEF MailInv, MailType

LEMMA EndsKeep ==
  ASSUME MailInv, Spilt \/ QueueSent
  PROVE  MailKept
<1>1. /\ InQueue /\ i > Len(queue) /\ queue' = <<>> /\ i' = 1
      /\ pc' \in {"sleep", "sync", "updates"} /\ UNCHANGED <<made, outbox, arrived, dropped>>
  BY DEF Spilt, QueueSent, InQueue
<1>2. Start' = 1
  BY <1>1 DEF Start
<1>3. MailType' /\ MailStep
  BY <1>1, <1>2, EmptiedKeeps
<1>4. IndexInv' /\ BehindInv' /\ QueueInv'
  BY <1>1 DEF IndexInv, BehindInv, QueueInv
<1>5. QED
  BY <1>3, <1>4 DEF MailKept

\* The message being sent is one of those that wait.
LEMMA SentWaits ==
  ASSUME MailInv, pc = "try"
  PROVE  /\ Waiting \in Seq(1..made) /\ Line[i] \in 1..made /\ Line[i] \in ToSet(Waiting)
         /\ i \in 1..Len(Line) /\ i \in Nat \ {0} /\ i + 1 \in Nat \ {0}
<1> DEFINE S == 1..made
<1>1. /\ i \in 1..Len(Line) /\ i \in Nat \ {0} /\ i + 1 \in Nat \ {0}
      /\ queue \in Seq(S) /\ outbox \in Seq(S) /\ Line[i] \in S
  BY Positions DEF MailInv, MailType, LoopType, IndexInv, Line
<1>2. Start \in Nat \ {0}
  BY <1>1 DEF Start
<1>3. SubSeq(queue, Start, Len(queue)) \in Seq(S)
  BY <1>1, <1>2, Rest
<1>4. Waiting \in Seq(S)
  BY <1>1, <1>3, ConcatProperties DEF Waiting
<1>5. DOMAIN Waiting = 1..Len(Waiting)
  BY <1>4, LenProperties
<1>6. \E k \in 1..Len(Waiting) : Waiting[k] = Line[i]
  <2>1. CASE source = "outbox"
    <3> DEFINE rest == SubSeq(queue, Start, Len(queue))
    <3>0. Waiting = outbox \o rest /\ rest \in Seq(S)
      BY <1>3 DEF Waiting
    <3> HIDE DEF rest
    <3>1. Len(Waiting) = Len(outbox) + Len(rest) /\ Len(outbox) \in Nat /\ Len(rest) \in Nat
      BY <1>1, <3>0, ConcatProperties, LenProperties
    <3>2. i \in 1..Len(outbox) /\ i \in 1..Len(Waiting)
      <4>1. Line = outbox
        BY <2>1 DEF Line
      <4>2. i \in 1..Len(outbox)
        BY <1>1, <4>1
      <4>3. QED
        BY <3>1, <4>2
    <3>3. Waiting[i] = outbox[i]
      BY <1>1, <3>0, <3>1, <3>2, ConcatProperties
    <3>4. QED
      BY <2>1, <3>2, <3>3 DEF Line
  <2>2. CASE source = "queue"
    <3>1. InQueue /\ i \in 1..Len(queue) /\ Line[i] = queue[i]
      BY <1>1, <2>2 DEF InQueue, Line
    <3>2. Len(outbox) + 1 \in 1..Len(Waiting) /\ Waiting[Len(outbox) + 1] = queue[i]
      BY <3>1, CurrentWaits DEF MailInv
    <3>3. QED
      BY <3>1, <3>2
  <2>3. QED
    BY <2>1, <2>2 DEF MailInv, LoopType
<1>7. QED
  BY <1>1, <1>4, <1>5, <1>6 DEF ToSet

LEMMA AttemptFailsKeeps ==
  ASSUME MailInv, AttemptFails
  PROVE  MailKept
<1>1. /\ pc = "try" /\ UNCHANGED <<pc, source, i, made, queue, outbox, dropped>>
  BY DEF AttemptFails
<1>2. PICK ms \in SUBSET {Line[i]} : arrived' = arrived \cup ms
  BY DEF AttemptFails
<1>3. /\ Waiting \in Seq(1..made) /\ ms \in SUBSET ToSet(Waiting) /\ ms \subseteq 1..made
  BY <1>1, <1>2, SentWaits
<1>4. Waiting' = Waiting
  BY <1>1 DEF Waiting, Start, InQueue
<1>5. MailStep
  BY <1>1, <1>2, <1>3, <1>4, ArriveStep
<1>6. MailType'
  BY <1>1, <1>2, <1>3 DEF MailInv, MailType
<1>7. IndexInv' /\ BehindInv' /\ QueueInv'
  BY <1>1, <1>2 DEF IndexInv, BehindInv, QueueInv, Line, MailInv
<1>8. QED
  BY <1>5, <1>6, <1>7 DEF MailKept

LEMMA AttemptOkKeeps ==
  ASSUME MailInv, AttemptOk
  PROVE  MailKept
<1>1. /\ pc = "try" /\ pc' = "loop" /\ i' = i + 1 /\ arrived' = arrived \cup {Line[i]}
      /\ UNCHANGED <<source, made, queue, outbox, dropped>>
  BY DEF AttemptOk
<1>2. /\ Waiting \in Seq(1..made) /\ {Line[i]} \in SUBSET ToSet(Waiting) /\ {Line[i]} \subseteq 1..made
      /\ i \in 1..Len(Line) /\ i \in Nat \ {0}
  BY <1>1, SentWaits
<1>3. MailType'
  BY <1>1, <1>2 DEF MailInv, MailType
<1>4. IndexInv' /\ QueueInv'
  <2>1. Len(Line) \in Nat
    BY Positions DEF MailInv, Line
  <2>2. QED
    BY <1>1, <1>2, <2>1 DEF IndexInv, QueueInv, Line, MailInv
<1>5. CASE source = "outbox"
  <2>1. Waiting' = Waiting
    BY <1>1, <1>5 DEF Waiting, Start, InQueue
  <2>2. MailStep
    BY <1>1, <1>2, <2>1, ArriveStep
  <2>3. BehindInv'
    BY <1>1, <1>2, <1>5 DEF BehindInv, MailInv, Line
  <2>4. QED
    BY <1>3, <1>4, <2>2, <2>3 DEF MailKept
<1>6. CASE source = "queue"
  <2> DEFINE S == 1..made
             a == Len(outbox)
             b == Len(outbox) + 1
  <2>1. /\ Line = queue /\ InQueue /\ Waiting = outbox \o SubSeq(queue, i, Len(queue))
        /\ Waiting' = outbox \o SubSeq(queue, i + 1, Len(queue))
    BY <1>1, <1>6 DEF Line, Waiting, Start, InQueue
  <2>2. outbox \in Seq(S) /\ queue \in Seq(S) /\ a \in Nat /\ i \in 1..Len(queue)
    BY <1>2, <2>1, Positions DEF MailInv, MailType
  <2>3. /\ b \in 1..Len(Waiting) /\ Waiting[b] = queue[i]
        /\ outbox \o SubSeq(queue, i + 1, Len(queue)) = Cut(Waiting, a, b)
    BY <2>1, <2>2, CurrentWaits DEF MailInv
  <2>4. a <= b /\ a \in 0..Len(Waiting) /\ b \in 0..Len(Waiting)
    BY <1>2, <2>2, <2>3, LenProperties
  <2>5. \A k \in a + 1..b : Waiting[k] \in arrived'
    <3>1. \A k \in a + 1..b : k = b
      BY <2>2
    <3>2. Waiting[b] \in arrived'
      BY <1>1, <2>1, <2>3
    <3>3. QED
      BY <3>1, <3>2
  <2>6. Waiting' = Cut(Waiting, a, b)
    BY <2>1, <2>3
  <2> HIDE DEF a, b
  <2>7. MailStep
    BY <1>1, <1>2, <2>4, <2>5, <2>6, RetireStep
  <2>8. BehindInv'
    BY <1>1, <1>6 DEF BehindInv
  <2>9. QED
    BY <1>3, <1>4, <2>7, <2>8 DEF MailKept
<1>7. QED
  BY <1>5, <1>6 DEF MailInv, LoopType

\* The end of send_outbox, early or not: what has arrived before the index goes.
LEMMA OutboxCutKeeps ==
  ASSUME MailInv, pc \in {"loop", "try"}, source = "outbox", Loop("queue"),
         outbox' = SubSeq(outbox, i, Len(outbox)),
         NEW ms \in SUBSET ToSet(Waiting), ms \subseteq 1..made, arrived' = arrived \cup ms,
         UNCHANGED <<made, queue, dropped>>
  PROVE  MailKept
<1> DEFINE S == 1..made
           b == i - 1
<1>1. /\ outbox \in Seq(S) /\ queue \in Seq(S) /\ Len(outbox) \in Nat /\ Len(queue) \in Nat
      /\ i \in Nat \ {0} /\ i \in 1..(Len(outbox) + 1)
  BY Positions DEF MailInv, MailType, LoopType, IndexInv, Line
<1>2. pc' = "loop" /\ source' = "queue" /\ i' = 1
  BY DEF Loop
<1>3. Start = 1 /\ Start' = 1
  BY <1>2 DEF Start, InQueue
<1>4. SubSeq(queue, 1, Len(queue)) = queue
  BY <1>1, SubSeqFull
<1>5. Waiting = outbox \o queue /\ Waiting' = outbox' \o queue
  BY <1>3, <1>4 DEF Waiting
<1>6. Waiting' = Cut(Waiting, 0, b)
  BY <1>1, <1>5, CutFront
<1>7. Len(Waiting) = Len(outbox) + Len(queue)
  BY <1>1, <1>5, ConcatProperties
<1>8. b \in 0..Len(Waiting) /\ 0 \in 0..Len(Waiting) /\ 0 <= b
  BY <1>1, <1>7
<1>9. \A k \in 0 + 1..b : Waiting[k] \in arrived'
  <2> SUFFICES ASSUME NEW k \in 0 + 1..b PROVE Waiting[k] \in arrived'
    OBVIOUS
  <2>1. k \in 1..(i - 1) /\ k \in 1..Len(outbox) /\ k \in 1..(Len(outbox) + Len(queue))
    BY <1>1
  <2>2. outbox[k] \in arrived
    BY <2>1 DEF MailInv, BehindInv
  <2>3. Waiting[k] = outbox[k]
    BY <1>1, <1>5, <2>1, ConcatProperties
  <2>4. QED
    BY <2>2, <2>3
<1> HIDE DEF b
<1>10. MailStep
  BY <1>6, <1>8, <1>9, RetireStep
<1>11. outbox' \in Seq(S) /\ Len(outbox') <= OutboxMax
  <2>1. /\ outbox' \in Seq(S)
        /\ Len(outbox') = IF i <= Len(outbox) THEN Len(outbox) - i + 1 ELSE 0
    BY <1>1, Rest
  <2>2. Len(outbox') <= Len(outbox) /\ Len(outbox') \in Nat
    BY <1>1, <2>1
  <2>3. QED
    BY <1>1, <2>1, <2>2, Positions DEF MailInv, MailType
<1>12. MailType'
  BY <1>11 DEF MailInv, MailType
<1>13. IndexInv' /\ BehindInv' /\ QueueInv'
  BY <1>1, <1>2 DEF IndexInv, BehindInv, QueueInv, Line
<1>14. QED
  BY <1>10, <1>12, <1>13 DEF MailKept

LEMMA OutboxSentKeeps ==
  ASSUME MailInv, OutboxSent
  PROVE  MailKept
<1>1. /\ pc = "loop" /\ source = "outbox" /\ Loop("queue") /\ i > Len(outbox) /\ outbox' = <<>>
      /\ UNCHANGED <<made, queue, arrived, dropped>>
  BY DEF OutboxSent
<1>2. SubSeq(outbox, i, Len(outbox)) = <<>>
  BY <1>1, Positions, SubSeqEmpty DEF MailInv, LoopType
<1>3. {} \in SUBSET ToSet(Waiting) /\ {} \subseteq 1..made /\ arrived' = arrived \cup {}
  BY <1>1
<1>4. QED
  BY <1>1, <1>2, <1>3, OutboxCutKeeps

LEMMA SendFailsKeeps ==
  ASSUME MailInv, SendFails
  PROVE  MailKept
<1>1. pc = "try" /\ UNCHANGED <<made, queue>> /\ (OutboxStops \/ QueueGoesOn)
  BY DEF SendFails
<1>2. PICK ms \in SUBSET {Line[i]} : arrived' = arrived \cup ms
  <2>1. CASE UNCHANGED arrived
    <3>1. {} \in SUBSET {Line[i]} /\ arrived' = arrived \cup {}
      BY <2>1
    <3>2. QED
      BY <3>1
  <2>2. CASE \E m \in SUBSET {Line[i]} : arrived' = arrived \cup m
    BY <2>2
  <2>3. QED
    BY <2>1, <2>2 DEF SendFails
<1>3. ms \in SUBSET ToSet(Waiting) /\ ms \subseteq 1..made /\ i \in 1..Len(Line)
  BY <1>1, <1>2, SentWaits
<1>4. CASE OutboxStops
  <2>1. /\ source = "outbox" /\ Loop("queue") /\ UNCHANGED dropped
        /\ outbox' = SubSeq(outbox, i, Len(outbox))
    BY <1>4 DEF OutboxStops
  <2>2. QED
    BY <1>1, <1>2, <1>3, <2>1, OutboxCutKeeps
<1>5. CASE QueueGoesOn
  <2>1. /\ source = "queue" /\ source' = "queue" /\ pc' = "loop" /\ i' = i + 1 /\ Push(queue[i])
    BY <1>5 DEF QueueGoesOn
  <2>2. Line = queue /\ InQueue /\ InQueue'
    BY <1>1, <2>1 DEF Line, InQueue
  <2>3. i <= Len(queue) /\ Len(queue) \in Nat /\ i \in Nat
    BY <1>3, <2>2, Positions DEF MailInv
  <2>4. ms \in SUBSET {queue[i]}
    BY <1>2, <2>2
  <2>5. MailType' /\ MailStep
    BY <1>1, <1>2, <2>1, <2>2, <2>3, <2>4, PushKeeps
  <2>6. IndexInv' /\ BehindInv' /\ QueueInv'
    BY <1>1, <2>1, <2>3 DEF IndexInv, BehindInv, QueueInv, Line
  <2>7. QED
    BY <2>5, <2>6 DEF MailKept
<1>6. QED
  BY <1>1, <1>4, <1>5

LEMMA DStep ==
  ASSUME MailInv, [Next]_vars
  PROVE  MailInv' /\ MailStep
<1>1. MailKept
  BY BootKeeps, WindowKeeps, RestKeeps, StayKeeps, PollKeeps, AnswerKeeps, SpillKeeps, EndsKeep,
     AttemptOkKeeps, AttemptFailsKeeps, OutboxSentKeeps, SendFailsKeeps DEF Next, Main, Window
<1>2. LoopType'
  BY LoopTypeKeeps DEF MailInv
<1>3. QED
  BY <1>1, <1>2 DEF MailKept, MailInv

-----------------------------------------------------------------------------
(* The theorems about messages *)

LEMMA MailInitially == Init => MailInv /\ Promise!MailInit
<1> SUFFICES ASSUME Init PROVE MailInv /\ Promise!MailInit
  OBVIOUS
<1>1. /\ made = 0 /\ queue = <<>> /\ outbox = <<>> /\ arrived = {} /\ dropped = {}
      /\ pc = "clock" /\ window = "clock" /\ i = 1 /\ attempt = 1 /\ source = "outbox"
      /\ asked \in BOOLEAN /\ rtc \in BOOLEAN
  BY DEF Init
<1>2. queue \in Seq(1..made) /\ outbox \in Seq(1..made) /\ Len(queue) = 0 /\ Len(outbox) = 0
  BY <1>1, EmptySeq
<1>3. MailType
  <2>1. {OutboxMax, MaxBatch, MaxMade} \subseteq Nat
    BY DeliveryAssumption
  <2>2. QED
    BY <1>1, <1>2, <2>1 DEF MailType
<1>4. LoopType
  BY <1>1, FirstAttempt DEF LoopType
<1>5. IndexInv /\ BehindInv /\ QueueInv
  BY <1>1 DEF IndexInv, BehindInv, QueueInv
<1>6. Waiting = <<>>
  <2>1. SubSeq(queue, 1, Len(queue)) = <<>>
    BY <1>1, <1>2, SubSeqEmpty
  <2>2. Start = 1
    BY <1>1 DEF Start, InQueue
  <2>3. QED
    BY <1>1, <1>2, <2>1, <2>2, ConcatEmptySeq DEF Waiting
<1>7. QED
  BY <1>1, <1>3, <1>4, <1>5, <1>6 DEF MailInv, Promise!MailInit

LEMMA MailAlways == Spec => []MailInv
  BY MailInitially, DStep, PTL DEF Spec

\* Nothing is given up that was not sent, only the oldest is sacrificed and only
\* when the outbox is full, and what waits stays in order: Delivery implements
\* Mailbox, with any number of messages, windows and failures.
THEOREM PromiseKept == Spec => KeepsPromise
<1>1. MailInv /\ [Next]_vars => [Promise!MailNext]_(Promise!mail)
  BY DStep DEF MailStep
<1>2. QED
  BY <1>1, MailInitially, MailAlways, PTL DEF Spec, KeepsPromise, Promise!MailSpec

FedType == fed \in Nat

\* fed is a number, whatever the number of attempts.
LEMMA FedIsNat ==
  ASSUME LoopType, FedType, [Next]_vars
  PROVE  FedType'
<1> USE DEF FedType, Reset, Block, PollTime, JoinTime, AttemptTime, UpdatesTime, SntpTime, BannerTime
<1>1. CASE Boot
  BY <1>1 DEF Boot, ClockWindow, Sntp, ClockCheck, FirstPoll, BannerWindow, SendBanner
<1>2. CASE Poll \/ RoundWindow \/ Sleep \/ AttemptOk
  BY <1>2 DEF Poll, RoundWindow, Sleep, AttemptOk
<1>3. CASE AttemptFails
  BY <1>3, FirstAttempt DEF AttemptFails, Backoff, LoopType
<1>4. CASE Joined \/ NotJoined \/ Spill \/ Spilt \/ SendNext \/ SendFails
  BY <1>4 DEF Joined, NotJoined, Spill, Spilt, SendNext, SendFails
<1>5. CASE OutboxSent \/ QueueSent \/ NoUpdates \/ Answer \/ Resync \/ Stop \/ Stopped
  BY <1>5 DEF OutboxSent, QueueSent, NoUpdates, Answer, Resync, Stop, Stopped
<1>6. CASE Radio \/ UNCHANGED vars
  BY <1>6 DEF Radio, vars, main
<1>7. QED
  BY <1>1, <1>2, <1>3, <1>4, <1>5, <1>6 DEF Next, Main, Window

\* Every variable keeps to its type: the outbox to its OUTBOX_MAX places, the
\* queue to the messages of one round, the retries to their limit.
THEOREM TypeCorrect == Spec => []TypeOK
<1>1. Init => FedType
  BY DEF Init, FedType
<1>2. LoopType /\ FedType /\ [Next]_vars => FedType'
  BY FedIsNat
<1>3. WifiInv /\ MailInv /\ FedType => TypeOK
  BY DEF WifiInv, MailInv, MailType, LoopType, FedType, TypeOK
<1>4. QED
  BY <1>1, <1>2, <1>3, WifiAlways, LoopTypeAlways, MailAlways, PTL DEF Spec

-----------------------------------------------------------------------------
(* What follows from the promise *)

\* No message is forgotten: it has arrived, was sacrificed, or still waits.
Accounted == \A m \in 1..made : m \in arrived \cup dropped \cup ToSet(Waiting)

\* What waits, waits in the order it was queued in, and once.
InOrder == \A j, k \in 1..Len(Waiting) : j < k => Waiting[j] < Waiting[k]

LEMMA WaitingType ==
  ASSUME MailInv
  PROVE  /\ Waiting \in Seq(1..made) /\ Len(Waiting) \in Nat
         /\ \A m : m \in ToSet(Waiting) <=> \E k \in 1..Len(Waiting) : Waiting[k] = m
<1>1. queue \in Seq(1..made) /\ outbox \in Seq(1..made) /\ Start \in Nat \ {0}
  BY DEF MailInv, MailType, LoopType, Start
<1>2. SubSeq(queue, Start, Len(queue)) \in Seq(1..made)
  BY <1>1, Rest
<1>3. Waiting \in Seq(1..made)
  BY <1>1, <1>2, ConcatProperties DEF Waiting
<1>4. DOMAIN Waiting = 1..Len(Waiting) /\ Len(Waiting) \in Nat
  BY <1>3, LenProperties
<1>5. QED
  BY <1>3, <1>4 DEF ToSet

\* Which messages a cut leaves, and where.
LEMMA CutElements ==
  ASSUME NEW S, NEW w \in Seq(S), NEW a \in 0..Len(w), NEW b \in 0..Len(w), a <= b
  PROVE  /\ Cut(w, a, b) \in Seq(S) /\ Len(Cut(w, a, b)) = Len(w) - (b - a)
         /\ \A k \in 1..a : Cut(w, a, b)[k] = w[k]
         /\ \A k \in a + 1..(Len(w) - (b - a)) : Cut(w, a, b)[k] = w[k + (b - a)]
<1> DEFINE u == SubSeq(w, 1, a)
           v == SubSeq(w, b + 1, Len(w))
<1>1. Len(w) \in Nat /\ a \in Nat /\ b \in Nat /\ b + 1 \in Nat \ {0}
  BY LenProperties
<1>2. /\ u \in Seq(S) /\ Len(u) = a
      /\ \A k \in 1..a : u[k] = w[k]
  <2>1. \A k \in 1..a : w[k] \in S
    BY <1>1, ElementOfSeq
  <2>2. /\ u \in Seq(S) /\ Len(u) = IF 1 <= a THEN a - 1 + 1 ELSE 0
        /\ \A k \in 1..(a - 1 + 1) : u[k] = w[1 + k - 1]
    BY <1>1, <2>1, SubSeqProperties
  <2>3. QED
    BY <1>1, <2>2
<1>3. /\ v \in Seq(S) /\ Len(v) = Len(w) - b
      /\ \A k \in 1..(Len(w) - b) : v[k] = w[b + k]
  <2>1. /\ v \in Seq(S) /\ Len(v) = IF b + 1 <= Len(w) THEN Len(w) - (b + 1) + 1 ELSE 0
        /\ \A k \in 1..(Len(w) - (b + 1) + 1) : v[k] = w[b + 1 + k - 1]
    BY <1>1, Rest
  <2>2. QED
    BY <1>1, <2>1
<1>4. /\ u \o v \in Seq(S) /\ Len(u \o v) = Len(u) + Len(v)
      /\ \A k \in 1..(Len(u) + Len(v)) : (u \o v)[k] = IF k <= Len(u) THEN u[k] ELSE v[k - Len(u)]
  BY <1>2, <1>3, ConcatProperties
<1>5. Cut(w, a, b) = u \o v
  BY DEF Cut
<1> HIDE DEF u, v
<1>6. ASSUME NEW k \in 1..a PROVE (u \o v)[k] = w[k]
  <2>1. k \in 1..(Len(u) + Len(v)) /\ k <= Len(u)
    BY <1>1, <1>2, <1>3
  <2>2. (u \o v)[k] = u[k]
    BY <1>4, <2>1
  <2>3. QED
    BY <1>2, <2>2
<1>7. ASSUME NEW k \in a + 1..(Len(w) - (b - a)) PROVE (u \o v)[k] = w[k + (b - a)]
  <2>1. k - a \in 1..(Len(w) - b) /\ b + (k - a) = k + (b - a)
    BY <1>1
  <2>2. k \in 1..(Len(u) + Len(v)) /\ ~(k <= Len(u)) /\ k - Len(u) = k - a
    BY <1>1, <1>2, <1>3
  <2>3. (u \o v)[k] = v[k - a]
    BY <1>4, <2>2
  <2>4. v[k - a] = w[b + (k - a)]
    BY <1>3, <2>1
  <2>5. QED
    BY <2>1, <2>3, <2>4
<1>8. Len(u \o v) = Len(w) - (b - a)
  BY <1>1, <1>2, <1>3, <1>4
<1>9. QED
  BY <1>4, <1>5, <1>6, <1>7, <1>8

\* A step of Mailbox, spelt out.
LEMMA MailCases ==
  ASSUME MailInv, MailStep
  PROVE  \/ UNCHANGED <<made, Waiting, arrived, dropped>>
         \/ /\ \E n \in 1..MaxBatch :
                  made' = made + n /\ Waiting' = Waiting \o [k \in 1..n |-> made + k]
            /\ UNCHANGED <<arrived, dropped>>
         \/ /\ \E a, b \in 0..Len(Waiting) :
                  /\ a <= b /\ \A k \in a + 1..b : Waiting[k] \in arrived'
                  /\ Waiting' = Cut(Waiting, a, b)
            /\ arrived \subseteq arrived' /\ UNCHANGED <<made, dropped>>
         \/ /\ Len(Waiting) > OutboxMax /\ Waiting' = Tail(Waiting)
            /\ dropped' = dropped \cup {Head(Waiting)}
            /\ arrived \subseteq arrived' /\ UNCHANGED made
<1>1. CASE UNCHANGED (Promise!mail)
  BY <1>1 DEF Promise!mail
<1>2. CASE Promise!Queue
  BY <1>2 DEF Promise!Queue
<1>3. CASE Promise!Retire
  <2>1. arrived \subseteq arrived'
    BY <1>3 DEF Promise!Retire, Promise!Arrivals
  <2>2. QED
    BY <1>3, <2>1, Zenon DEF Promise!Retire, Cut
<1>4. CASE Promise!DropOldest
  BY <1>4 DEF Promise!DropOldest, Promise!Arrivals
<1>5. QED
  BY <1>1, <1>2, <1>3, <1>4 DEF MailStep, Promise!MailNext

LEMMA CutWaiting ==
  ASSUME MailInv, NEW a \in 0..Len(Waiting), NEW b \in 0..Len(Waiting), a <= b,
         Waiting' = Cut(Waiting, a, b)
  PROVE  /\ Len(Waiting') = Len(Waiting) - (b - a)
         /\ \A k \in 1..a : Waiting'[k] = Waiting[k]
         /\ \A k \in a + 1..(Len(Waiting) - (b - a)) : Waiting'[k] = Waiting[k + (b - a)]
<1> DEFINE S == 1..made
<1>1. Waiting \in Seq(S)
  BY WaitingType
<1> HIDE DEF S
<1>2. /\ Len(Cut(Waiting, a, b)) = Len(Waiting) - (b - a)
      /\ \A k \in 1..a : Cut(Waiting, a, b)[k] = Waiting[k]
      /\ \A k \in a + 1..(Len(Waiting) - (b - a)) : Cut(Waiting, a, b)[k] = Waiting[k + (b - a)]
  BY <1>1, CutElements
<1>3. QED
  BY <1>2

LEMMA AccountedKeeps ==
  ASSUME MailInv, MailInv', MailStep, Accounted
  PROVE  Accounted'
<1> SUFFICES ASSUME NEW m \in 1..made', m \notin arrived', m \notin dropped'
             PROVE  \E k \in 1..Len(Waiting') : Waiting'[k] = m
  BY WaitingType DEF Accounted, ToSet
<1> DEFINE S == 1..made
<1>1. /\ Waiting \in Seq(S) /\ Len(Waiting) \in Nat /\ made \in Nat
      /\ MaxBatch \in Nat
  BY WaitingType, Positions DEF MailInv
<1>2. m \in 1..made /\ m \notin arrived /\ m \notin dropped
        => \E k \in 1..Len(Waiting) : Waiting[k] = m
  BY WaitingType DEF Accounted
<1>3. CASE UNCHANGED <<made, Waiting, arrived, dropped>>
  BY <1>2, <1>3
<1>4. ASSUME NEW n \in 1..MaxBatch, made' = made + n,
             Waiting' = Waiting \o [k \in 1..n |-> made + k], UNCHANGED <<arrived, dropped>>
      PROVE  \E k \in 1..Len(Waiting') : Waiting'[k] = m
  <2> DEFINE T == 1..made'
             new == [k \in 1..n |-> made + k]
  <2>1. n \in Nat /\ made' \in Nat /\ S \subseteq T
    BY <1>1, <1>4
  <2>2. new \in [1..n -> T] /\ \A k \in 1..n : new[k] = made + k
    BY <1>1, <1>4
  <2>3. new \in Seq(T) /\ Len(new) = n
    BY <2>1, <2>2
  <2>4. Waiting \in Seq(T)
    BY <1>1, <2>1, SeqMonotonic
  <2> HIDE DEF T, new
  <2>5. /\ Len(Waiting \o new) = Len(Waiting) + n
        /\ \A k \in 1..(Len(Waiting) + n) :
             (Waiting \o new)[k] = IF k <= Len(Waiting) THEN Waiting[k] ELSE new[k - Len(Waiting)]
    BY <2>3, <2>4, ConcatProperties
  <2>6. Waiting' = Waiting \o new
    BY <1>4 DEF new
  <2>7. CASE m <= made
    <3>1. PICK k \in 1..Len(Waiting) : Waiting[k] = m
      BY <1>1, <1>2, <1>4, <2>7
    <3>2. k \in 1..(Len(Waiting) + n) /\ k <= Len(Waiting)
      BY <1>1, <2>1
    <3>3. QED
      BY <2>5, <2>6, <3>1, <3>2
  <2>8. CASE m > made
    <3> DEFINE k == Len(Waiting) + (m - made)
    <3>1. m - made \in 1..n /\ made + (m - made) = m
      BY <1>1, <1>4, <2>8
    <3>2. k \in 1..(Len(Waiting) + n) /\ ~(k <= Len(Waiting)) /\ k - Len(Waiting) = m - made
      BY <1>1, <2>1, <3>1
    <3>3. new[m - made] = m
      BY <2>2, <3>1
    <3> HIDE DEF k
    <3>4. QED
      BY <2>5, <2>6, <3>2, <3>3
  <2>9. QED
    BY <1>1, <2>7, <2>8
<1>5. ASSUME NEW a \in 0..Len(Waiting), NEW b \in 0..Len(Waiting), a <= b,
             \A k \in a + 1..b : Waiting[k] \in arrived', Waiting' = Cut(Waiting, a, b),
             arrived \subseteq arrived', UNCHANGED <<made, dropped>>
      PROVE  \E k \in 1..Len(Waiting') : Waiting'[k] = m
  <2>1. PICK j \in 1..Len(Waiting) : Waiting[j] = m
    BY <1>2, <1>5
  <2>2. /\ Len(Waiting') = Len(Waiting) - (b - a)
        /\ \A k \in 1..a : Waiting'[k] = Waiting[k]
        /\ \A k \in a + 1..(Len(Waiting) - (b - a)) : Waiting'[k] = Waiting[k + (b - a)]
    BY <1>5, CutWaiting
  <2>3. j \notin a + 1..b
    BY <1>5, <2>1
  <2>4. CASE j <= a
    <3>1. j \in 1..a /\ j \in 1..(Len(Waiting) - (b - a))
      BY <1>1, <1>5, <2>4
    <3>2. QED
      BY <2>1, <2>2, <2>4, <3>1
  <2>5. CASE j > b
    <3> DEFINE k == j - (b - a)
    <3>1. /\ k \in 1..(Len(Waiting) - (b - a)) /\ k \in a + 1..(Len(Waiting) - (b - a))
          /\ k + (b - a) = j
      BY <1>1, <1>5, <2>5
    <3> HIDE DEF k
    <3>2. QED
      BY <2>1, <2>2, <3>1
  <2>6. QED
    BY <1>1, <2>3, <2>4, <2>5
<1>6. ASSUME Len(Waiting) > OutboxMax, Waiting' = Tail(Waiting),
             dropped' = dropped \cup {Head(Waiting)}, arrived \subseteq arrived', UNCHANGED made
      PROVE  \E k \in 1..Len(Waiting') : Waiting'[k] = m
  <2>1. PICK j \in 1..Len(Waiting) : Waiting[j] = m
    BY <1>2, <1>6
  <2>2. Waiting # <<>>
    BY <2>1, EmptySeq
  <2>3. /\ Len(Waiting') = Len(Waiting) - 1 /\ Head(Waiting) = Waiting[1]
        /\ \A k \in 1..(Len(Waiting) - 1) : Waiting'[k] = Waiting[k + 1]
    BY <1>1, <1>6, <2>2, HeadTailProperties
  <2>4. j # 1
    BY <1>6, <2>1, <2>3
  <2>5. j - 1 \in 1..(Len(Waiting) - 1) /\ (j - 1) + 1 = j
    BY <1>1, <2>4
  <2>6. QED
    BY <2>1, <2>3, <2>5
<1>7. QED
  BY <1>3, <1>4, <1>5, <1>6, MailCases

\* Every message there ever was has arrived, gave way to newer ones, or waits.
THEOREM NoneForgotten == Spec => []Accounted
<1>1. Init => Accounted
  BY DEF Init, Accounted
<1>2. MailInv /\ Accounted /\ [Next]_vars => Accounted'
  BY DStep, AccountedKeeps
<1>3. QED
  BY <1>1, <1>2, MailAlways, PTL DEF Spec

LEMMA InOrderKeeps ==
  ASSUME MailInv, MailInv', MailStep, InOrder
  PROVE  InOrder'
<1> DEFINE S == 1..made
           len == Len(Waiting)
<1>1. /\ Waiting \in Seq(S) /\ len \in Nat /\ made \in Nat /\ MaxBatch \in Nat
      /\ \A k \in 1..len : Waiting[k] \in S
  BY WaitingType, Positions, ElementOfSeq DEF MailInv
<1>2. CASE UNCHANGED <<made, Waiting, arrived, dropped>>
  BY <1>2 DEF InOrder
<1>3. ASSUME NEW n \in 1..MaxBatch, made' = made + n,
             Waiting' = Waiting \o [k \in 1..n |-> made + k]
      PROVE  InOrder'
  <2> DEFINE T == 1..made'
             new == [k \in 1..n |-> made + k]
  <2>1. n \in Nat /\ made' \in Nat /\ S \subseteq T
    BY <1>1, <1>3
  <2>2. new \in [1..n -> T] /\ \A k \in 1..n : new[k] = made + k
    BY <1>1, <1>3
  <2>3. new \in Seq(T) /\ Len(new) = n
    BY <2>1, <2>2
  <2>4. Waiting \in Seq(T)
    BY <1>1, <2>1, SeqMonotonic
  <2> HIDE DEF T, new
  <2>5. /\ Len(Waiting \o new) = len + n
        /\ \A k \in 1..(len + n) :
             (Waiting \o new)[k] = IF k <= len THEN Waiting[k] ELSE new[k - len]
    BY <2>3, <2>4, ConcatProperties
  <2>6. Waiting' = Waiting \o new
    BY <1>3 DEF new
  <2>7. \A k \in 1..len : Waiting'[k] = Waiting[k]
    BY <1>1, <2>1, <2>5, <2>6
  <2>8. \A k \in len + 1..len + n : Waiting'[k] = made + (k - len)
    <3>1. ASSUME NEW k \in len + 1..len + n PROVE Waiting'[k] = made + (k - len)
      <4>1. k \in 1..(len + n) /\ ~(k <= len) /\ k - len \in 1..n
        BY <1>1, <2>1
      <4>2. Waiting'[k] = new[k - len]
        BY <2>5, <2>6, <4>1
      <4>3. QED
        BY <2>2, <4>1, <4>2
    <3>2. QED
      BY <3>1
  <2>9. ASSUME NEW j \in 1..(len + n), NEW k \in 1..(len + n), j < k
        PROVE  Waiting'[j] < Waiting'[k]
    <3>1. CASE k <= len
      <4>1. j \in 1..len /\ k \in 1..len
        BY <1>1, <2>9, <3>1
      <4>2. QED
        BY <2>7, <2>9, <4>1 DEF InOrder
    <3>2. CASE j <= len /\ k > len
      <4>1. j \in 1..len /\ k \in len + 1..len + n
        BY <1>1, <3>2
      <4>2. Waiting'[j] \in S /\ Waiting'[k] = made + (k - len)
        BY <1>1, <2>7, <2>8, <4>1
      <4>3. QED
        BY <1>1, <4>1, <4>2
    <3>3. CASE j > len
      <4>1. j \in len + 1..len + n /\ k \in len + 1..len + n
        BY <1>1, <2>9, <3>3
      <4>2. Waiting'[j] = made + (j - len) /\ Waiting'[k] = made + (k - len)
        BY <2>8, <4>1
      <4>3. QED
        BY <1>1, <2>1, <2>9, <4>2
    <3>4. QED
      BY <1>1, <3>1, <3>2, <3>3
  <2>10. QED
    BY <2>5, <2>6, <2>9 DEF InOrder
<1>4. ASSUME NEW a \in 0..len, NEW b \in 0..len, a <= b, Waiting' = Cut(Waiting, a, b)
      PROVE  InOrder'
  <2>1. /\ Len(Waiting') = len - (b - a)
        /\ \A k \in 1..a : Waiting'[k] = Waiting[k]
        /\ \A k \in a + 1..(len - (b - a)) : Waiting'[k] = Waiting[k + (b - a)]
    BY <1>1, <1>4, CutWaiting
  <2> SUFFICES ASSUME NEW j \in 1..(len - (b - a)), NEW k \in 1..(len - (b - a)), j < k
               PROVE  Waiting'[j] < Waiting'[k]
    BY <2>1 DEF InOrder
  <2>2. CASE k <= a
    <3>1. j \in 1..a /\ k \in 1..a /\ j \in 1..len /\ k \in 1..len
      BY <1>1, <1>4, <2>2
    <3>2. QED
      BY <2>1, <3>1 DEF InOrder
  <2>3. CASE j <= a /\ k > a
    <3>1. /\ j \in 1..a /\ k \in a + 1..(len - (b - a))
          /\ j \in 1..len /\ k + (b - a) \in 1..len /\ j < k + (b - a)
      BY <1>1, <1>4, <2>3
    <3>2. QED
      BY <2>1, <3>1 DEF InOrder
  <2>4. CASE j > a
    <3>1. /\ j \in a + 1..(len - (b - a)) /\ k \in a + 1..(len - (b - a))
          /\ j + (b - a) \in 1..len /\ k + (b - a) \in 1..len /\ j + (b - a) < k + (b - a)
      BY <1>1, <1>4, <2>4
    <3>2. QED
      BY <2>1, <3>1 DEF InOrder
  <2>5. QED
    BY <1>1, <2>2, <2>3, <2>4
<1>5. ASSUME len > OutboxMax, Waiting' = Tail(Waiting)
      PROVE  InOrder'
  <2>1. Waiting # <<>>
    BY <1>1, <1>5, EmptySeq, Positions DEF MailInv
  <2>2. Len(Waiting') = len - 1 /\ \A k \in 1..(len - 1) : Waiting'[k] = Waiting[k + 1]
    BY <1>1, <1>5, <2>1, HeadTailProperties
  <2>3. ASSUME NEW j \in 1..(len - 1), NEW k \in 1..(len - 1), j < k
        PROVE  Waiting'[j] < Waiting'[k]
    <3>1. j + 1 \in 1..len /\ k + 1 \in 1..len /\ j + 1 < k + 1
      BY <1>1, <2>3
    <3>2. QED
      BY <2>2, <3>1 DEF InOrder
  <2>4. QED
    BY <2>2, <2>3 DEF InOrder
<1>6. QED
  BY <1>2, <1>3, <1>4, <1>5, MailCases

\* Messages wait in the order the core queued them in, and none waits twice.
THEOREM OrderKept == Spec => []InOrder
<1>1. Init => InOrder
  <2> SUFFICES ASSUME Init PROVE InOrder
    OBVIOUS
  <2>1. Waiting = <<>>
    BY MailInitially DEF Promise!MailInit
  <2>2. Len(Waiting) = 0
    BY <2>1, EmptySeq
  <2>3. QED
    BY <2>2 DEF InOrder
<1>2. MailInv /\ InOrder /\ [Next]_vars => InOrder'
  BY DStep, InOrderKeeps
<1>3. QED
  BY <1>1, <1>2, MailAlways, PTL DEF Spec

==============================================================================
