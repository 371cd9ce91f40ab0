---------------------------- MODULE Gateway_proofs ----------------------------
(***************************************************************************)
(* The superloop of main.c, for all values of the constants: wherever the  *)
(* power fails, no command and no day is lost, no alarm is repeated and no *)
(* visit that can still matter is forgotten.                               *)
(*                                                                         *)
(* Every property relates RAM to flash.  Each part of the invariant says   *)
(* what flash may lag behind by, and what the loop has already done when   *)
(* it lags: the lemmas go through the actions once for every part.         *)
(***************************************************************************)
EXTENDS Gateway, PetkitCore_proofs

USE DEF Time

\* The rounds in which nothing waits in the queue.
Silent == {"off", "boot", "bootsave", "poll", "updates", "savevisits", "savestate", "sleep"}
Phases == Silent \cup {"tick", "radio", "outbox", "send", "reply"}

\* Types, and that nothing is of the future: no visit and no time of a visit.
CoreInv ==
  /\ p \in Pk
  /\ p.last_drink_ts <= now /\ p.last_ok_ts <= now
  /\ p.visit \subseteq drinks
  /\ p.last_report_day >= 0
  /\ phase \in Silent => p.msg = <<>>
  /\ p.last.valid => p.last \in Readings

WorldInv ==
  /\ now \in Nat /\ Start <= now
  /\ phase \in Phases
  /\ tg_offset \in Nat /\ asked \in Nat
  /\ drinks \subseteq 0..now
  /\ buf \subseteq drinks /\ gone \subseteq drinks
  /\ left \in [Events -> Nat]

FlashInv ==
  /\ nvs \in NvsState /\ cache \in NvsState
  /\ nvs.last_drink_ts <= now
  /\ nvs_visits \subseteq drinks

OutboxInv == outbox \in Seq(Msg) /\ Len(outbox) <= OutboxMax

BaseInv == CoreInv /\ WorldInv /\ FlashInv /\ OutboxInv

\* The commands that were answered, and those whose answer waits or was lost.
Accounted == answered \cup Answers(outbox) \cup dropped

\* Commands: what the cursor in flash has passed is accounted for; the answer to
\* what the cursor in RAM has passed may still be in the queue.
CommandsInv ==
  /\ phase = "off" => outbox = <<>>
  /\ 1..nvs.tg_offset \subseteq Accounted
  /\ phase # "off" => 1..tg_offset \subseteq Accounted \cup Answers(p.msg)

\* The alarms in RAM and those in flash: one that only flash knows has been
\* seen to end.
Latches ==
  /\ nvs.a_no_water => p.a_no_water \/ "water" \in eased
  /\ nvs.a_fault => p.a_fault \/ "fault" \in eased
  /\ nvs.battery_latch \subseteq p.battery_latch \/ "battery" \in eased
  /\ nvs.thirst_level > p.thirst_level => "thirst" \in eased

LatchInv ==
  phase # "off" =>
    /\ Latches
    /\ p.last.valid => /\ p.a_no_water = p.last.no_water
                       /\ p.a_fault = p.last.fault
                       /\ p.last.battery = 0 => p.battery_latch = {}

\* No message in the queue claims again what flash records as claimed.
New(m) ==
  /\ m = Note("water", 1) /\ nvs.a_no_water => "water" \in eased
  /\ m = Note("fault", 1) /\ nvs.a_fault => "fault" \in eased
  /\ m.kind = "battery" /\ m.arg \in nvs.battery_latch => "battery" \in eased
  /\ m.kind = "thirst" /\ m.arg > 0 /\ nvs.thirst_level >= m.arg
       => "thirst" \in eased

AlarmInv == LatchInv /\ \A m \in Told(p) : New(m)

\* The days: d is spoken of, or its report waits in the queue.
Due(d) == d \in spoken \cup ReportDays(p.msg)

FlashDays ==
  /\ \A d \in live : d < nvs.day_no \/ d <= nvs.last_report_day => d \in spoken
  /\ \A d \in live : d <= nvs.day_no
  /\ 0 < nvs.last_report_day /\ nvs.last_report_day < nvs.day_no => nvs.day_no \in live
  /\ nvs.day_no = 0 => live = {}
  /\ nvs.last_report_day = 0 => live = {}
  /\ nvs.day_no <= DayOf(now) /\ nvs.last_report_day < DayOf(now)

CoreDays ==
  phase # "off" =>
    /\ \A d \in live : d < p.day_no \/ d <= p.last_report_day => Due(d)
    /\ nvs.day_no <= p.day_no /\ nvs.last_report_day <= p.last_report_day
    /\ 0 < nvs.day_no /\ nvs.day_no < p.day_no => nvs.day_no <= p.last_report_day
    /\ 0 < p.day_no /\ p.day_no <= DayOf(now) /\ p.last_report_day < DayOf(now)
    /\ p.day_no <= p.last_report_day =>
         /\ p.day_no = nvs.day_no
         /\ nvs.last_report_day = 0 \/ nvs.day_no <= nvs.last_report_day

\* The poll has left a place in the queue for the report.
Roomy == phase = "tick" => Len(p.msg) < MaxMsg

DayInv == live \subseteq Nat /\ FlashDays /\ CoreDays /\ Roomy

\* The visits that can still matter.
Recent(S) == {v \in S : v + 2 * DaySec >= now}

\* The cat leaves room in the list for all of them.
FewDrinks == Cardinality(Recent(drinks)) < MaxVisits

ReadAll == p.last_ok_ts = now /\ p.hist_short_streak = 0

VisitInv ==
  /\ kept \subseteq drinks
  /\ Recent(kept) \subseteq nvs_visits
  /\ phase # "off" => Recent(nvs_visits) \subseteq p.visit
  /\ Recent(drinks \ gone) \subseteq buf \cup nvs_visits
  /\ phase = "poll" => p.last_ok_ts < now
  /\ phase = "tick" => \A m \in Told(p) : m.kind # "report"
  /\ phase = "tick" /\ ReadAll => Recent(drinks \ gone) \subseteq p.visit
  /\ ReportCompleteAfterRestart

-----------------------------------------------------------------------------
(* Operators of the model *)

LEMMA GatewayConstants ==
  /\ OutboxMax \in Nat /\ OutboxMax > 0
  /\ Start \in Nat /\ DayOf(Start) > 0
  /\ PollSec \in Nat /\ PollSec > 0
  /\ UpdatesLimit \in Nat /\ UpdatesLimit > 0
  /\ MaxDown \in Nat /\ MaxTime \in Nat
  /\ \A budget \in Budgets : budget \in [Events -> Nat]
  /\ \A s \in Readings : s \in PkState
BY GatewayAssumption, Constants DEF GatewayAssumption

\* Days do not run backwards.
LEMMA DaysGoOn ==
  ASSUME NEW s \in Nat, NEW t \in Nat, s <= t
  PROVE  DayOf(s) \in Nat /\ DayOf(t) \in Nat /\ DayOf(s) <= DayOf(t)
<1>1. DaySec \in Nat /\ DaySec > 0
  BY Constants
<1>2. s \div DaySec <= t \div DaySec
  BY <1>1
<1>3. QED
  BY <1>2, DayOfType DEF DayOf

\* A finite set has an n-th element.
LEMMA NthIn ==
  ASSUME NEW S \in SUBSET Nat, IsFiniteSet(S), NEW n \in 1..Cardinality(S)
  PROVE  Nth(S, n) \in S
<1> DEFINE Upto(i) == {j \in S : j <= i}
           Found(k) == \E i \in S : Cardinality(Upto(i)) = k
           T == {k \in 1..Cardinality(S) : ~ Found(k)}
<1>1. Cardinality(S) \in Nat
  BY FS_CardinalityType
<1>2. T = {}
  <2>1. SUFFICES ASSUME T # {} PROVE FALSE
    OBVIOUS
  <2>2. T \in SUBSET Nat
    BY <1>1
  <2>3. PICK k \in T : \A u \in T : k <= u
    BY <2>1, <2>2, LeastElement
  <2>4. k \in 1..Cardinality(S) /\ k \in Nat /\ ~ Found(k)
    BY <1>1, <2>3
  <2>5. PICK B \in SUBSET S : /\ Cardinality(B) = k - 1
                              /\ \A i \in B, j \in S : j <= i => j \in B
    <3>1. CASE k = 1
      <4>1. Cardinality({}) = k - 1
        BY <3>1, FS_EmptySet
      <4>2. QED
        BY <4>1
    <3>2. CASE k # 1
      <4>1. k - 1 \in 1..Cardinality(S) /\ ~ (k <= k - 1)
        BY <1>1, <2>4, <3>2
      <4>2. Found(k - 1)
        BY <2>3, <4>1
      <4>3. PICK i \in S : Cardinality(Upto(i)) = k - 1
        BY <4>2
      <4>4. QED
        BY <4>3
    <3>3. QED
      BY <3>1, <3>2
  <2>6. S \ B # {}
    <3>1. B # S
      BY <1>1, <2>4, <2>5
    <3>2. QED
      BY <3>1
  <2>7. PICK m \in S \ B : \A u \in S \ B : m <= u
    BY <2>6, LeastElement
  <2>8. Upto(m) = B \cup {m}
    <3>1. ASSUME NEW j \in S PROVE j <= m <=> j \in B \cup {m}
      <4>1. j \in Nat /\ m \in Nat
        BY <2>7
      <4>2. CASE j \in B
        BY <2>5, <2>7, <4>1, <4>2
      <4>3. CASE j \notin B
        BY <2>7, <4>1, <4>3
      <4>4. QED
        BY <4>2, <4>3
    <3>2. QED
      BY <2>7, <3>1
  <2>9. IsFiniteSet(B)
    BY FS_Subset
  <2>10. Cardinality(B \cup {m}) = k
    <3>1. Cardinality(B \cup {m}) = Cardinality(B) + 1
      BY <2>7, <2>9, FS_AddElement
    <3>2. QED
      BY <2>4, <2>5, <3>1
  <2>11. QED
    BY <2>4, <2>7, <2>8, <2>10
<1>3. Found(n)
  BY <1>2
<1>4. QED
  BY <1>3 DEF Nth

\* send_queued and outbox_push move messages and make none up.
LEMMA PickedType ==
  ASSUME NEW ms \in Seq(Msg), NEW S \in SUBSET DOMAIN ms
  PROVE  Picked(ms, S) \in Seq(Msg)
<1>1. Len(ms) \in Nat /\ DOMAIN ms = 1..Len(ms)
  BY LenProperties
<1>2. S \in SUBSET Nat /\ IsFiniteSet(S)
  <2>1. IsFiniteSet(1..Len(ms))
    BY <1>1, FS_Interval
  <2>2. QED
    BY <1>1, <2>1, FS_Subset
<1>3. Cardinality(S) \in Nat
  BY <1>2, FS_CardinalityType
<1>4. ASSUME NEW n \in 1..Cardinality(S) PROVE ms[Nth(S, n)] \in Msg
  <2>1. Nth(S, n) \in 1..Len(ms)
    BY <1>1, <1>2, NthIn
  <2>2. QED
    BY <2>1, ElementOfSeq
<1>5. QED
  BY <1>3, <1>4 DEF Picked

LEMMA PushAllType ==
  ASSUME outbox \in Seq(Msg), NEW ms \in Seq(Msg)
  PROVE  PushAll(ms) \in Seq(Msg) /\ Len(PushAll(ms)) <= OutboxMax
<1> DEFINE all == outbox \o ms
           l == Len(all)
           from == IF l > OutboxMax THEN l - OutboxMax + 1 ELSE 1
           kepts == SubSeq(all, from, l)
<1>1. all \in Seq(Msg) /\ l \in Nat
  BY ConcatProperties, LenProperties
<1> HIDE DEF all
<1>2. OutboxMax \in Nat
  BY GatewayConstants
<1>3. /\ from \in Int /\ 1 <= from
      /\ from <= l => l - from + 1 <= OutboxMax
  <2>1. ASSUME NEW x \in Nat, x = l
        PROVE  LET f == IF x > OutboxMax THEN x - OutboxMax + 1 ELSE 1
               IN  f \in Int /\ 1 <= f /\ (f <= x => x - f + 1 <= OutboxMax)
    BY <1>2
  <2>2. QED
    BY <1>1, <2>1
<1>4. l \in Int
  BY <1>1
<1> HIDE DEF from
<1>5. \A i \in from..l : all[i] \in Msg
  <2>1. ASSUME NEW i \in from..l PROVE i \in 1..Len(all)
    BY <1>1, <1>3
  <2>2. QED
    BY <1>1, <2>1, ElementOfSeq
<1>6. /\ kepts \in Seq(Msg)
      /\ Len(kepts) = IF from <= l THEN l - from + 1 ELSE 0
  BY <1>3, <1>4, <1>5, SubSeqProperties
<1>7. Len(kepts) <= OutboxMax
  BY <1>2, <1>3, <1>6
<1>8. QED
  BY <1>6, <1>7 DEF PushAll, from, all

\* The days of the reports among the queued messages.
LEMMA ReportDaysTold ==
  ASSUME NEW q
  PROVE  ReportDays(q.msg) = {m.arg : m \in {m \in Told(q) : m.kind = "report"}}
BY DEF ReportDays, Told

\* The queue is emptied, and nothing but its counter changes.
LEMMA ClearDoes ==
  ASSUME NEW q \in Pk
  PROVE  /\ MsgClear(q) \in Pk /\ MsgDrop(q) \in Pk
         /\ Only(q, MsgClear(q), Queue) /\ Only(q, MsgDrop(q), Queue)
         /\ MsgClear(q).msg = <<>> /\ MsgDrop(q).msg = <<>>
<1>1. MsgClear(q) \in Pk /\ MsgDrop(q) \in Pk
  BY ClearType
<1>2. Only(q, MsgClear(q), Queue) /\ MsgClear(q).msg = <<>>
  BY DEF MsgClear, Only, Fields, Queue, Pk
<1>3. Only(q, MsgDrop(q), Queue) /\ MsgDrop(q).msg = <<>>
  BY DEF MsgDrop, Only, Fields, Queue, Pk
<1>4. QED
  BY <1>1, <1>2, <1>3

LEMMA NothingTold ==
  ASSUME NEW q, q.msg = <<>>
  PROVE  Told(q) = {} /\ ReportDays(q.msg) = {} /\ Len(q.msg) = 0
BY DEF Told, ReportDays

\* The answer to a command.
LEMMA AnswerDoes ==
  ASSUME NEW q \in Pk, NEW from \in Nat, NEW to \in Nat
  PROVE  LET m == [Note("status", to) EXCEPT !.alerts = from]
         IN  /\ m \in Msg /\ m.kind = "status" /\ m.alerts = from /\ m.arg = to
             /\ Answer(q, from, to) \in Pk
             /\ Only(q, Answer(q, from, to), Queue)
             /\ Told(Answer(q, from, to)) \subseteq Told(q) \cup {m}
             /\ Len(q.msg) < MaxMsg => m \in Told(Answer(q, from, to))
<1> DEFINE m == [Note("status", to) EXCEPT !.alerts = from]
           said == Say(q, m)
           r == Answer(q, from, to)
<1>1. m \in Msg /\ m.kind = "status" /\ m.alerts = from /\ m.arg = to
  BY DEF Note, Msg, Problems, Time
<1>2. r = Reply(q, m)
  BY DEF Answer
<1> HIDE DEF m
<1>3. r \in Pk
  BY <1>1, <1>2, ReplyType
<1>4. /\ said \in Pk /\ Only(q, said, Queue) /\ Says(q, said, {m}, 1)
      /\ Len(q.msg) < MaxMsg => m \in Told(said)
  BY <1>1, SaySays, SayType
<1>5. r = [said EXCEPT !.day_messages = q.day_messages]
  BY <1>2 DEF Reply
<1> HIDE DEF said, r
<1>6. Only(said, r, Queue) /\ r.msg = said.msg
  BY <1>4, <1>5 DEF Only, Fields, Queue, Pk
<1>7. Only(q, r, Queue)
  BY <1>4, <1>6 DEF Only
<1>8. Told(r) = Told(said)
  BY <1>6 DEF Told
<1>9. QED
  BY <1>1, <1>3, <1>4, <1>7, <1>8 DEF Says, m, r

\* A core that has just been initialised.
LEMMA InitDoes ==
  ASSUME NEW t \in Nat, Start <= t
  PROVE  /\ PkInit(t) \in Pk
         /\ PkInit(t).last_report_day >= 0
         /\ DayOf(t) \in Nat /\ DayOf(t) > 0
<1>1. DayOf(t) \in Nat /\ DayOf(t) > 0
  BY DaysGoOn, GatewayConstants
<1>2. PkInit(t) \in Pk
  BY SoundInit DEF Sound
<1>3. DayOf(t) - 1 >= 0
  BY <1>1
<1>4. QED
  BY <1>1, <1>2, <1>3 DEF PkInit

\* What app_main restores.
LEMMA RestoredDoes ==
  ASSUME nvs \in NvsState, nvs_visits \in SUBSET Nat, NEW t \in Nat, Start <= t
  PROVE  LET q == Restored(t) IN
           /\ q \in Pk
           /\ q.last = NoReading /\ q.msg = <<>> /\ q.last_ok_ts = t
           /\ q.visit = nvs_visits
           /\ q.last_drink_ts = nvs.last_drink_ts
           /\ q.thirst_level = nvs.thirst_level
           /\ q.a_no_water = nvs.a_no_water /\ q.a_fault = nvs.a_fault
           /\ q.battery_latch = nvs.battery_latch
           /\ q.day_no = IF nvs.day_no > 0 THEN nvs.day_no ELSE DayOf(t)
           /\ q.last_report_day = IF nvs.last_report_day > 0
                                  THEN nvs.last_report_day ELSE DayOf(t) - 1
<1>1. PkInit(t) \in Pk /\ DayOf(t) \in Nat
  BY InitDoes
<1>2. nvs.last_drink_ts \in Nat /\ nvs.day_no \in Nat /\ nvs.last_report_day \in Nat
  BY DEF NvsState
<1> DEFINE drink == IF nvs.last_drink_ts > 0 THEN nvs.last_drink_ts
                    ELSE PkInit(t).last_drink_ts
           day == IF nvs.day_no > 0 THEN nvs.day_no ELSE PkInit(t).day_no
           told_day == IF nvs.last_report_day > 0 THEN nvs.last_report_day
                       ELSE PkInit(t).last_report_day
<1>3. drink = nvs.last_drink_ts
  BY <1>2 DEF PkInit
<1>4. /\ day = IF nvs.day_no > 0 THEN nvs.day_no ELSE DayOf(t)
      /\ told_day = IF nvs.last_report_day > 0
                    THEN nvs.last_report_day ELSE DayOf(t) - 1
  BY DEF PkInit
<1>5. day \in Nat /\ told_day \in Nat \cup {-1}
  BY <1>1, <1>2, <1>4
<1>6. RestoredTimes(t) = [PkInit(t) EXCEPT !.day_no = day,
                            !.last_report_day = told_day, !.last_drink_ts = drink]
  BY DEF RestoredTimes
<1> HIDE DEF drink, day, told_day
<1> DEFINE q == Restored(t)
<1>7. q = [RestoredTimes(t) EXCEPT !.thirst_level = nvs.thirst_level,
             !.a_no_water = nvs.a_no_water, !.a_fault = nvs.a_fault,
             !.battery_latch = nvs.battery_latch, !.filter_latch = nvs.filter_latch,
             !.visit = nvs_visits]
  BY DEF Restored, RestoredState
<1>8. /\ RestoredTimes(t) \in Pk
      /\ Only(PkInit(t), RestoredTimes(t), {"day_no", "last_report_day", "last_drink_ts"})
      /\ RestoredTimes(t).day_no = day /\ RestoredTimes(t).last_report_day = told_day
      /\ RestoredTimes(t).last_drink_ts = nvs.last_drink_ts
  <2>1. RestoredTimes(t) \in Pk
    BY <1>1, <1>2, <1>3, <1>5, <1>6, ZenonT(30) DEF Pk
  <2>2. /\ RestoredTimes(t).day_no = day /\ RestoredTimes(t).last_report_day = told_day
        /\ RestoredTimes(t).last_drink_ts = nvs.last_drink_ts
    BY <1>1, <1>3, <1>6 DEF Pk
  <2>3. Only(PkInit(t), RestoredTimes(t), {"day_no", "last_report_day", "last_drink_ts"})
    BY <1>1, <1>6 DEF Pk, Only, Fields
  <2> QED
    BY <2>1, <2>2, <2>3
<1> DEFINE r == RestoredTimes(t)
<1> HIDE DEF r, q
<1>9. /\ nvs.thirst_level \in 0..2 /\ nvs.a_no_water \in BOOLEAN /\ nvs.a_fault \in BOOLEAN
      /\ nvs.battery_latch \in SUBSET (1..3) /\ nvs.filter_latch \in SUBSET (1..3)
  BY DEF NvsState
<1>10. q \in Pk
  BY <1>7, <1>8, <1>9 DEF Pk, r
<1>11. /\ Only(r, q, {"thirst_level", "a_no_water", "a_fault", "battery_latch",
                       "filter_latch", "visit"})
       /\ q.visit = nvs_visits
       /\ q.thirst_level = nvs.thirst_level
       /\ q.a_no_water = nvs.a_no_water /\ q.a_fault = nvs.a_fault
       /\ q.battery_latch = nvs.battery_latch
  BY <1>7, <1>8, <1>10 DEF Pk, Only, Fields, r
<1>12. PkInit(t).last = NoReading /\ PkInit(t).msg = <<>> /\ PkInit(t).last_ok_ts = t
  BY DEF PkInit
<1>13. /\ q.last = NoReading /\ q.msg = <<>> /\ q.last_ok_ts = t
       /\ q.day_no = day /\ q.last_report_day = told_day
       /\ q.last_drink_ts = nvs.last_drink_ts
  BY <1>8, <1>11, <1>12 DEF Only, Fields, r
<1>14. QED
  BY <1>4, <1>10, <1>11, <1>13 DEF q

\* What flash holds after a save: for every key, what it held or what is saved.
Saved(t) ==
  /\ t \in NvsState
  /\ t.thirst_level \in {p.thirst_level, nvs.thirst_level}
  /\ t.a_no_water \in {p.a_no_water, nvs.a_no_water}
  /\ t.a_fault \in {p.a_fault, nvs.a_fault}
  /\ t.battery_latch \in {p.battery_latch, nvs.battery_latch}
  /\ t.day_no \in {p.day_no, nvs.day_no}
  /\ t.last_report_day \in {p.last_report_day, nvs.last_report_day}
  /\ t.last_drink_ts \in {p.last_drink_ts, nvs.last_drink_ts}
  /\ t.tg_offset \in {tg_offset, nvs.tg_offset}

LEMMA EmptyType == NvsEmpty \in NvsState
BY DEF NvsEmpty, NvsState

\* The state to be saved is one that flash can hold.
LEMMA ImageIs ==
  ASSUME p \in Pk, p.last_report_day >= 0, tg_offset \in Nat
  PROVE  LET i == Image(p, tg_offset)
         IN  /\ i \in NvsState
             /\ i.thirst_level = p.thirst_level
             /\ i.a_no_water = p.a_no_water /\ i.a_fault = p.a_fault
             /\ i.battery_latch = p.battery_latch /\ i.filter_latch = p.filter_latch
             /\ i.day_no = p.day_no /\ i.last_report_day = p.last_report_day
             /\ i.last_drink_ts = p.last_drink_ts /\ i.tg_offset = tg_offset
BY DEF Image, NvsState, Pk

LEMMA WrittenDoes ==
  ASSUME nvs \in NvsState, p \in Pk, p.last_report_day >= 0, tg_offset \in Nat,
         NEW S \in SUBSET DOMAIN nvs
  PROVE  Saved(Written(S))
<1> DEFINE i == Image(p, tg_offset)
           t == Written(S)
<1>1. /\ i \in NvsState
      /\ i.thirst_level = p.thirst_level
      /\ i.a_no_water = p.a_no_water /\ i.a_fault = p.a_fault
      /\ i.battery_latch = p.battery_latch /\ i.filter_latch = p.filter_latch
      /\ i.day_no = p.day_no /\ i.last_report_day = p.last_report_day
      /\ i.last_drink_ts = p.last_drink_ts /\ i.tg_offset = tg_offset
  BY ImageIs
<1>2. t = [k \in DOMAIN nvs |-> IF k \in S THEN i[k] ELSE nvs[k]]
  BY DEF Written
<1> HIDE DEF i, t
<1>3. /\ DOMAIN nvs = {"thirst_level", "a_no_water", "a_fault", "battery_latch",
                       "filter_latch", "day_no", "last_report_day", "last_drink_ts",
                       "tg_offset"}
      /\ \A k \in DOMAIN nvs : t[k] \in {i[k], nvs[k]}
  BY <1>2 DEF NvsState
<1>4. /\ t.thirst_level \in {i.thirst_level, nvs.thirst_level}
      /\ t.a_no_water \in {i.a_no_water, nvs.a_no_water}
      /\ t.a_fault \in {i.a_fault, nvs.a_fault}
      /\ t.battery_latch \in {i.battery_latch, nvs.battery_latch}
      /\ t.filter_latch \in {i.filter_latch, nvs.filter_latch}
      /\ t.day_no \in {i.day_no, nvs.day_no}
      /\ t.last_report_day \in {i.last_report_day, nvs.last_report_day}
      /\ t.last_drink_ts \in {i.last_drink_ts, nvs.last_drink_ts}
      /\ t.tg_offset \in {i.tg_offset, nvs.tg_offset}
  BY <1>3
<1>5. t \in NvsState
  BY <1>1, <1>2, <1>3, <1>4 DEF NvsState
<1>6. QED
  BY <1>1, <1>4, <1>5 DEF Saved, t

\* A save, whole, torn or skipped, and what of the alarms seen to be over flash
\* has not caught up with.
LEMMA SaveDoes ==
  ASSUME nvs \in NvsState, cache \in NvsState, p \in Pk, p.last_report_day >= 0,
         tg_offset \in Nat, SaveState \/ CrashInSave
  PROVE  /\ Saved(nvs') /\ cache' \in NvsState
         /\ SaveState =>
              /\ "water" \in eased => "water" \in eased' \/ nvs'.a_no_water = p.a_no_water
              /\ "fault" \in eased => "fault" \in eased' \/ nvs'.a_fault = p.a_fault
              /\ "battery" \in eased =>
                   "battery" \in eased' \/ nvs'.battery_latch = p.battery_latch
              /\ "thirst" \in eased =>
                   "thirst" \in eased' \/ nvs'.thirst_level = p.thirst_level
<1> DEFINE i == Image(p, tg_offset)
<1>1. /\ i \in NvsState
      /\ i.thirst_level = p.thirst_level
      /\ i.a_no_water = p.a_no_water /\ i.a_fault = p.a_fault
      /\ i.battery_latch = p.battery_latch
  BY ImageIs
<1>2. Saved(nvs')
  <2>1. CASE nvs' = nvs
    BY <2>1 DEF Saved
  <2>2. ASSUME NEW S \in SUBSET Changed, nvs' = Written(S)
        PROVE  Saved(nvs')
    <3>1. S \in SUBSET DOMAIN nvs
      BY DEF Changed
    <3>2. QED
      BY <2>2, <3>1, WrittenDoes
  <2>3. QED
    BY <2>1, <2>2 DEF SaveState, CrashInSave, Skipped, StateWritten
<1>3. cache' \in NvsState
  <2>1. cache' \in {cache, i, NvsEmpty}
    BY DEF SaveState, CrashInSave, Skipped, StateWritten, Off
  <2>2. QED
    BY <1>1, <2>1, EmptyType
<1> HIDE DEF i
<1>4. ASSUME SaveState
      PROVE  eased' = {k \in eased : nvs'[KeyOf[k]] # i[KeyOf[k]]}
  BY <1>4 DEF SaveState, CatchUp, i
<1>5. /\ KeyOf["water"] = "a_no_water" /\ KeyOf["fault"] = "a_fault"
      /\ KeyOf["battery"] = "battery_latch" /\ KeyOf["thirst"] = "thirst_level"
  BY DEF KeyOf
<1>6. QED
  BY <1>1, <1>2, <1>3, <1>4, <1>5

-----------------------------------------------------------------------------
(* What the actions do to the core *)

\* Every field but the queue and its counter.
LEMMA OnlyQueue ==
  ASSUME NEW q, NEW r, Only(q, r, Queue)
  PROVE  /\ r.last = q.last /\ r.visit = q.visit /\ r.last_drink_ts = q.last_drink_ts
         /\ r.hist_short_streak = q.hist_short_streak /\ r.last_ok_ts = q.last_ok_ts
         /\ r.a_no_water = q.a_no_water /\ r.a_fault = q.a_fault
         /\ r.thirst_level = q.thirst_level /\ r.battery_latch = q.battery_latch
         /\ r.day_no = q.day_no /\ r.last_report_day = q.last_report_day
BY DEF Only, Fields, Queue

\* One event of the budget is spent.
LEMMA SpendType ==
  ASSUME NEW event \in Events, NEW n \in Nat, left \in [Events -> Nat], Spend(event, n)
  PROVE  left' \in [Events -> Nat]
<1>1. left[event] \in Nat /\ n <= left[event]
  BY DEF Spend
<1>2. left[event] - n \in Nat
  BY <1>1
<1>3. left' = [left EXCEPT ![event] = left[event] - n]
  BY DEF Spend
<1>4. QED
  BY <1>2, <1>3

\* What a poll that was answered tells the core and the alarms seen to be over.
Answered(s, fresh) ==
  /\ p'.last_ok_ts = now
  /\ p'.visit = AddVisits(p.visit, fresh)
  /\ p'.hist_short_streak = 0 => fresh = buf
  /\ p'.last = IF s.valid THEN s ELSE p.last
  /\ IF p'.last.valid
     THEN /\ p'.a_no_water = p'.last.no_water /\ p'.a_fault = p'.last.fault
          /\ p'.battery_latch = IF p'.last.battery = 0 THEN {}
                                ELSE p.battery_latch \cup 1..p'.last.battery
     ELSE /\ p'.a_no_water = p.a_no_water /\ p'.a_fault = p.a_fault
          /\ p'.battery_latch = p.battery_latch
  /\ p'.thirst_level < p.thirst_level => p.last_drink_ts < p'.last_drink_ts
  /\ SeenOver(s) \cup eased \subseteq eased'
  /\ p.last_drink_ts < p'.last_drink_ts => "thirst" \in eased'

LEMMA PollDoes ==
  ASSUME BaseInv, BootPoll \/ RoundPoll
  PROVE  /\ p' \in Pk
         /\ p.last_drink_ts <= p'.last_drink_ts /\ p'.last_drink_ts <= now
         /\ p'.day_no = p.day_no /\ p'.last_report_day = p.last_report_day
         /\ p'.visit \subseteq drinks
         /\ p'.last.valid => p'.last \in Readings
         /\ left' \in [Events -> Nat]
         /\ \/ p' = p /\ eased' = eased
            \/ \E s \in Readings, fresh \in SUBSET buf : Answered(s, fresh)
         /\ phase = "boot" => p'.msg = <<>>
         /\ Len(p'.msg) <= 6 + NewThresholds(p, p'.last)
         /\ \E level \in Nat :
              /\ level > p.thirst_level \/ p.last_drink_ts < p'.last_drink_ts
              /\ Told(p') \subseteq PollNotes(p) \cup {Note("thirst", level)}
<1>1. /\ p \in Pk /\ now \in Nat /\ p.last_drink_ts \in Nat /\ p.last_drink_ts <= now
      /\ p.visit \subseteq drinks /\ drinks \subseteq 0..now /\ buf \subseteq drinks
      /\ p.last.valid => p.last \in Readings
      /\ left \in [Events -> Nat]
  BY DEF BaseInv, CoreInv, WorldInv, Pk
<1>2. phase \in {"boot", "poll"} /\ p.msg = <<>>
  BY DEF BaseInv, CoreInv, Silent, BootPoll, RoundPoll
<1>3. Told(p) = {} /\ Len(p.msg) = 0
  BY <1>2, NothingTold
<1>4. ASSUME NEW q \in Pk PROVE NewThresholds(p, q.last) \in Nat
  <2>1. q.last \in PkState
    BY <1>4 DEF Pk
  <2>2. QED
    BY <1>1, <2>1, NewThresholdsFew
<1>5. CASE NotPolled
  <2>1. p' = p /\ eased' = eased
    BY <1>5 DEF NotPolled, PollFail
  <2>2. left' \in [Events -> Nat]
    BY <1>1, <1>5, SpendType DEF NotPolled, Events
  <2>3. NewThresholds(p, p'.last) \in Nat
    BY <1>1, <1>4, <2>1
  <2>4. Len(p'.msg) <= 6 + NewThresholds(p, p'.last)
    BY <1>3, <2>1, <2>3
  <2>5. p.thirst_level \in 0..2
    BY <1>1 DEF Pk
  <2>6. \E level \in Nat :
          /\ level > p.thirst_level \/ p.last_drink_ts < p'.last_drink_ts
          /\ Told(p') \subseteq PollNotes(p) \cup {Note("thirst", level)}
    <3>1. p.thirst_level + 1 \in Nat /\ p.thirst_level + 1 > p.thirst_level
      BY <2>5
    <3>2. QED
      BY <1>3, <2>1, <3>1
  <2>7. QED
    BY <1>1, <1>2, <2>1, <2>2, <2>4, <2>6
<1>6. CASE Polled(now)
  <2>1. PICK s \in Readings, hist \in {"ok", "short"}, fresh \in SUBSET buf :
          /\ IF hist = "ok"
             THEN fresh = buf /\ UNCHANGED left
             ELSE /\ fresh # buf /\ \A x \in fresh, y \in buf \ fresh : x < y
                  /\ Spend("short", 1)
          /\ p' = IF phase = "boot" THEN MsgDrop(PollOk(p, s, fresh, hist, now))
                                    ELSE PollOk(p, s, fresh, hist, now)
          /\ eased' = eased \cup SeenOver(s)
                      \cup (IF p'.last_drink_ts > p.last_drink_ts THEN {"thirst"} ELSE {})
    BY <1>6 DEF Polled
  <2> DEFINE q == PollOk(p, s, fresh, hist, now)
  <2>2. s \in PkState /\ fresh \in SUBSET Nat /\ \A x \in fresh : x <= now
    BY <1>1, GatewayConstants
  <2>3. /\ q \in Pk
        /\ p.last_drink_ts <= q.last_drink_ts /\ q.last_drink_ts <= now
        /\ q.day_no = p.day_no /\ q.last_report_day = p.last_report_day
        /\ q.last_ok_ts = now
        /\ q.visit = AddVisits(p.visit, fresh)
        /\ q.visit \subseteq p.visit \cup fresh
        /\ q.hist_short_streak = 0 => hist = "ok"
        /\ q.last = IF s.valid THEN s ELSE p.last
        /\ IF q.last.valid
           THEN /\ q.a_no_water = q.last.no_water /\ q.a_fault = q.last.fault
                /\ q.battery_latch = IF q.last.battery = 0 THEN {}
                                     ELSE p.battery_latch \cup 1..q.last.battery
           ELSE /\ q.a_no_water = p.a_no_water /\ q.a_fault = p.a_fault
                /\ q.battery_latch = p.battery_latch
        /\ q.thirst_level < p.thirst_level => p.last_drink_ts < q.last_drink_ts
        /\ \E level \in Nat :
             /\ level > p.thirst_level \/ p.last_drink_ts < q.last_drink_ts
             /\ Says(p, q, PollNotes(p) \cup {Note("thirst", level)},
                     6 + NewThresholds(p, q.last))
    <3>1. now \in Nat /\ p \in Pk /\ p.last_drink_ts <= now
      BY <1>1
    <3>2. PollOkEffect(p, q, s, fresh, hist, now)
      BY <2>2, <3>1, PollOkDoes
    <3>3. QED
      BY <3>2, Zenon DEF PollOkEffect
  <2> HIDE DEF q
  <2>4. /\ p' \in Pk /\ Only(q, p', Queue)
        /\ p'.msg = <<>> \/ p' = q
        /\ phase = "boot" => p'.msg = <<>>
    BY <2>1, <2>3, ClearDoes DEF q, Only
  <2>5. /\ p'.last = q.last /\ p'.visit = q.visit /\ p'.last_drink_ts = q.last_drink_ts
        /\ p'.hist_short_streak = q.hist_short_streak /\ p'.last_ok_ts = q.last_ok_ts
        /\ p'.a_no_water = q.a_no_water /\ p'.a_fault = q.a_fault
        /\ p'.thirst_level = q.thirst_level /\ p'.battery_latch = q.battery_latch
        /\ p'.day_no = q.day_no /\ p'.last_report_day = q.last_report_day
    BY <2>4, OnlyQueue
  <2>6. left' \in [Events -> Nat]
    BY <1>1, <2>1, SpendType DEF Events
  <2>7. NewThresholds(p, p'.last) \in Nat
    BY <1>4, <2>4
  <2>8. PICK level \in Nat :
          /\ level > p.thirst_level \/ p.last_drink_ts < q.last_drink_ts
          /\ Says(p, q, PollNotes(p) \cup {Note("thirst", level)},
                  6 + NewThresholds(p, q.last))
    BY <2>3
  <2>9. Told(p') \subseteq PollNotes(p) \cup {Note("thirst", level)}
    BY <1>3, <2>4, <2>8, NothingTold DEF Says
  <2>10. Len(p'.msg) <= 6 + NewThresholds(p, p'.last)
    <3>1. CASE p'.msg = <<>>
      BY <2>7, <3>1
    <3>2. CASE p' = q
      <4>1. Len(q.msg) <= 0 + (6 + NewThresholds(p, q.last))
        BY <1>3, <2>8 DEF Says
      <4>2. QED
        BY <2>7, <3>2, <4>1
    <3>3. QED
      BY <2>4, <3>1, <3>2
  <2>11. Answered(s, fresh)
    <3>1. hist = "ok" => fresh = buf
      BY <2>1
    <3>2. /\ p'.last_ok_ts = now
          /\ p'.visit = AddVisits(p.visit, fresh)
          /\ p'.hist_short_streak = 0 => fresh = buf
      BY <2>3, <2>5, <3>1
    <3>3. /\ p'.last = IF s.valid THEN s ELSE p.last
          /\ p'.thirst_level < p.thirst_level => p.last_drink_ts < p'.last_drink_ts
      BY <2>3, <2>5
    <3>4. IF p'.last.valid
          THEN /\ p'.a_no_water = p'.last.no_water /\ p'.a_fault = p'.last.fault
               /\ p'.battery_latch = IF p'.last.battery = 0 THEN {}
                                     ELSE p.battery_latch \cup 1..p'.last.battery
          ELSE /\ p'.a_no_water = p.a_no_water /\ p'.a_fault = p.a_fault
               /\ p'.battery_latch = p.battery_latch
      BY <2>3, <2>5
    <3>5. /\ SeenOver(s) \cup eased \subseteq eased'
          /\ p.last_drink_ts < p'.last_drink_ts => "thirst" \in eased'
      <4>1. p.last_drink_ts \in Nat /\ p'.last_drink_ts \in Nat
        BY <1>1, <2>4 DEF Pk
      <4>2. p.last_drink_ts < p'.last_drink_ts <=> p'.last_drink_ts > p.last_drink_ts
        BY <4>1
      <4>3. QED
        BY <2>1, <4>2
    <3> QED
      BY <3>2, <3>3, <3>4, <3>5 DEF Answered
  <2>12. p'.last.valid => p'.last \in Readings
    BY <1>1, <2>3, <2>5
  <2>13. p'.visit \subseteq drinks
    BY <1>1, <2>3, <2>5
  <2>14. QED
    BY <2>3, <2>4, <2>5, <2>6, <2>8, <2>9, <2>10, <2>11, <2>12, <2>13
<1>7. QED
  BY <1>5, <1>6 DEF BootPoll, RoundPoll

\* pk_tick, in the round.
LEMMA RoundTickDoes ==
  ASSUME BaseInv, RoundTick
  PROVE  /\ p' \in Pk
         /\ p'.last = p.last /\ p'.last_drink_ts = p.last_drink_ts
         /\ p'.hist_short_streak = p.hist_short_streak /\ p'.last_ok_ts = p.last_ok_ts
         /\ p'.a_no_water = p.a_no_water /\ p'.a_fault = p.a_fault
         /\ p'.battery_latch = p.battery_latch /\ p'.thirst_level >= p.thirst_level
         /\ p'.visit \subseteq p.visit
         /\ Recent(p.visit) \subseteq p'.visit
         /\ Told(p) \subseteq Told(p')
         /\ Told(p') \subseteq Told(p) \cup {TheReport(p), Note("contact", 1),
                                             Note("thirst", p.thirst_level + 1)}
         /\ \/ p'.day_no = p.day_no /\ p'.last_report_day = p.last_report_day
            \/ /\ p'.day_no = DayOf(now) /\ DayOf(now) # p.day_no
               /\ IF p.last_report_day < p.day_no
                  THEN /\ p'.last_report_day = p.day_no
                       /\ Len(p.msg) < MaxMsg => TheReport(p) \in Told(p')
                  ELSE p'.last_report_day = p.last_report_day
<1> DEFINE q == Tick(p, now)
<1>1. p \in Pk /\ now \in Nat /\ p.last_drink_ts <= now /\ p' = q
  BY DEF BaseInv, CoreInv, WorldInv, RoundTick
<1>2. /\ q \in Pk
      /\ Only(p, q, Queue \cup {"day_no", "last_report_day", "day_hist_short", "visit",
                                "unreachable", "thirst_level"})
      /\ q.visit \subseteq p.visit
      /\ {v \in p.visit : v + 2 * DaySec >= now} \subseteq q.visit
      /\ q.thirst_level >= p.thirst_level
      /\ Told(p) \subseteq Told(q)
      /\ Told(q) \subseteq Told(p) \cup {TheReport(p), Note("contact", 1),
                                         Note("thirst", p.thirst_level + 1)}
      /\ \/ q.day_no = p.day_no /\ q.last_report_day = p.last_report_day
         \/ /\ q.day_no = DayOf(now) /\ DayOf(now) # p.day_no
            /\ IF p.last_report_day < p.day_no
               THEN /\ q.last_report_day = p.day_no
                    /\ Len(p.msg) < MaxMsg => TheReport(p) \in Told(q)
               ELSE q.last_report_day = p.last_report_day
  BY <1>1, TickDoes
<1> HIDE DEF q
<1>3. /\ q.last = p.last /\ q.last_drink_ts = p.last_drink_ts
      /\ q.hist_short_streak = p.hist_short_streak /\ q.last_ok_ts = p.last_ok_ts
      /\ q.a_no_water = p.a_no_water /\ q.a_fault = p.a_fault
      /\ q.battery_latch = p.battery_latch
  BY <1>2 DEF Only, Fields, Queue
<1>4. QED
  BY <1>1, <1>2, <1>3 DEF Recent

\* A window of the radio: the queue is emptied, and what it said is spoken of.
LEMMA SendDoes ==
  ASSUME BaseInv, WifiDown \/ SendAlarms \/ SendReply
  PROVE  /\ p' \in Pk /\ Only(p, p', Queue) /\ p'.msg = <<>>
         /\ spoken' = spoken \cup ReportDays(p.msg)
         /\ outbox' \in Seq(Msg) /\ Len(outbox') <= OutboxMax
         /\ left' \in [Events -> Nat]
<1>1. p \in Pk /\ p.msg \in Seq(Msg) /\ outbox \in Seq(Msg) /\ left \in [Events -> Nat]
  BY DEF BaseInv, CoreInv, OutboxInv, WorldInv, Pk
<1>2. p' = MsgClear(p) /\ spoken' = spoken \cup ReportDays(p.msg)
  BY DEF WifiDown, SendAlarms, SendReply, SendQueued
<1>3. /\ outbox' \in Seq(Msg) /\ Len(outbox') <= OutboxMax
      /\ left' \in [Events -> Nat]
  <2>1. CASE WifiDown
    BY <1>1, <2>1, PushAllType, SpendType DEF WifiDown, Events
  <2>2. CASE SendAlarms \/ SendReply
    <3>1. PICK failed \in SUBSET DOMAIN p.msg :
            /\ Spend("send", Cardinality(failed))
            /\ outbox' = PushAll(Picked(p.msg, failed))
      BY <2>2, Zenon DEF SendAlarms, SendReply, SendQueued
    <3>2. Cardinality(failed) \in Nat
      <4>1. DOMAIN p.msg = 1..Len(p.msg) /\ Len(p.msg) \in Nat
        BY <1>1, LenProperties
      <4>2. IsFiniteSet(DOMAIN p.msg)
        BY <4>1, FS_Interval
      <4>3. QED
        BY <4>2, FS_Subset, FS_CardinalityType
    <3>3. Picked(p.msg, failed) \in Seq(Msg)
      BY <1>1, PickedType
    <3>4. QED
      BY <1>1, <3>1, <3>2, <3>3, PushAllType, SpendType DEF Events
  <2>3. QED
    BY <2>1, <2>2
<1>4. QED
  BY <1>1, <1>2, <1>3, ClearDoes

\* The commands fetched get one answer, which finds the queue empty.
LEMMA TakeDoes ==
  ASSUME BaseInv, TakeCommands
  PROVE  /\ p' \in Pk /\ Only(p, p', Queue)
         /\ tg_offset' \in Nat /\ tg_offset <= tg_offset'
         /\ \E m \in Msg :
              /\ m.kind = "status" /\ m.alerts = tg_offset /\ m.arg = tg_offset'
              /\ Told(p') = {m}
<1>1. /\ p \in Pk /\ tg_offset \in Nat /\ asked \in Nat /\ p.msg = <<>> /\ tg_offset < asked
  BY DEF BaseInv, CoreInv, WorldInv, Silent, TakeCommands
<1>2. tg_offset' \in Nat /\ tg_offset <= tg_offset'
  <2>1. ASSUME NEW a \in Nat, NEW o \in Nat, NEW l \in Nat, o < a
        PROVE  LET n == o + (IF a - o > l THEN l ELSE a - o) IN n \in Nat /\ o <= n
    BY <2>1
  <2>2. QED
    BY <1>1, <2>1, GatewayConstants DEF TakeCommands, Batch
<1>3. p' = Answer(p, tg_offset, tg_offset')
  BY DEF TakeCommands
<1>4. Told(p) = {} /\ Len(p.msg) < MaxMsg
  <2>1. Told(p) = {} /\ Len(p.msg) = 0
    BY <1>1, NothingTold
  <2>2. MaxMsg \in Nat /\ MaxMsg > 0
    BY Constants, CoreAssumption DEF CoreAssumption
  <2>3. QED
    BY <2>1, <2>2
<1> DEFINE m == [Note("status", tg_offset') EXCEPT !.alerts = tg_offset]
<1>5. /\ m \in Msg /\ m.kind = "status" /\ m.alerts = tg_offset /\ m.arg = tg_offset'
      /\ p' \in Pk /\ Only(p, p', Queue)
      /\ Told(p') \subseteq Told(p) \cup {m}
      /\ Len(p.msg) < MaxMsg => m \in Told(p')
  BY <1>1, <1>2, <1>3, AnswerDoes
<1> HIDE DEF m
<1>6. Told(p') = {m}
  BY <1>4, <1>5
<1>7. QED
  BY <1>2, <1>5, <1>6

-----------------------------------------------------------------------------
(* Types *)

LEMMA InitBase == Init => BaseInv
<1> SUFFICES ASSUME Init PROVE BaseInv
  OBVIOUS
<1>1. now \in Nat /\ now = Start /\ OutboxMax \in Nat
  BY GatewayConstants DEF Init
<1>2. p = PkInit(now) /\ p \in Pk /\ p.last_report_day >= 0
  BY <1>1, InitDoes DEF Init
<1>3. p.last = NoReading /\ p.msg = <<>> /\ p.last_ok_ts = now /\ p.last_drink_ts = 0
      /\ p.visit = {}
  BY <1>2 DEF PkInit
<1>4. CoreInv
  BY <1>1, <1>2, <1>3 DEF CoreInv, NoReading
<1>5. WorldInv
  BY <1>1, GatewayConstants DEF Init, WorldInv, Phases, Silent
<1>6. FlashInv
  BY <1>1 DEF Init, FlashInv, NvsEmpty, NvsState
<1>7. OutboxInv
  BY <1>1 DEF Init, OutboxInv
<1>8. QED
  BY <1>4, <1>5, <1>6, <1>7 DEF BaseInv

\* The steps that leave the core alone.
Elsewhere ==
  \/ WifiUp \/ DrainOutbox \/ NoCommands \/ SaveVisits \/ SaveState \/ Sleep
  \/ StayOff \/ Drink \/ AppSync \/ AskStatus \/ UNCHANGED vars

\* The clock runs forward, and no drink is forgotten or comes from the future.
LEMMA TimePasses ==
  ASSUME BaseInv, [Next]_vars
  PROVE  /\ now' \in Nat /\ now <= now' /\ Start <= now'
         /\ drinks \subseteq drinks' /\ drinks' \subseteq 0..now'
<1>1. now \in Nat /\ Start \in Nat /\ Start <= now /\ drinks \subseteq 0..now
  BY GatewayConstants DEF BaseInv, WorldInv
<1>2. now' \in Nat /\ now <= now'
  <2>1. CASE Sleep
    BY <1>1, <2>1, GatewayConstants DEF Sleep, Pass
  <2>2. CASE StayOff
    <3>1. PICK d \in 1..MaxDown : now' = now + d
      BY <2>2 DEF StayOff, Pass
    <3>2. QED
      BY <1>1, <3>1, GatewayConstants
  <2>3. CASE now' = now
    BY <1>1, <2>3
  <2>4. QED
    BY <2>1, <2>2, <2>3
       DEF Next, vars, Boot, Crash, CrashInSave, BootPoll, RoundPoll, RoundTick, WifiUp,
           WifiDown, DrainOutbox, SendAlarms, TakeCommands, NoCommands, SendReply,
           SaveVisits, SaveState, Drink, AppSync, AskStatus
<1>3. drinks \subseteq drinks' /\ drinks' \subseteq drinks \cup {now}
  BY DEF Next, vars, cat, Boot, Crash, CrashInSave, BootPoll, RoundPoll, RoundTick, WifiUp,
         WifiDown, DrainOutbox, SendAlarms, TakeCommands, NoCommands, SendReply,
         SaveVisits, SaveState, Sleep, StayOff, Drink, AppSync, AskStatus
<1>4. drinks' \subseteq 0..now'
  BY <1>1, <1>2, <1>3
<1>5. QED
  BY <1>1, <1>2, <1>3, <1>4

LEMMA CoreKeeps ==
  ASSUME BaseInv, [Next]_vars
  PROVE  CoreInv'
<1>1. /\ p \in Pk /\ p.last_drink_ts <= now /\ p.last_ok_ts <= now
      /\ p.visit \subseteq drinks /\ p.last_report_day >= 0
      /\ phase \in Silent => p.msg = <<>>
      /\ p.last.valid => p.last \in Readings
      /\ now \in Nat /\ p.last_drink_ts \in Nat /\ p.last_ok_ts \in Nat
  BY DEF BaseInv, CoreInv, WorldInv, Pk
<1>2. now' \in Nat /\ now <= now' /\ Start <= now' /\ drinks \subseteq drinks'
  BY TimePasses
<1>3. CASE Boot
  <2>1. /\ nvs \in NvsState /\ nvs_visits \in SUBSET Nat /\ nvs_visits \subseteq drinks
        /\ nvs.last_drink_ts <= now /\ Start <= now /\ nvs.last_report_day \in Nat
    BY DEF BaseInv, FlashInv, WorldInv, NvsState
  <2>2. p' = Restored(now) /\ now' = now /\ phase' = "boot"
    BY <1>3 DEF Boot
  <2>3. DayOf(now) - 1 >= 0
    BY <1>1, <2>1, InitDoes
  <2>4. /\ p' \in Pk /\ p'.last = NoReading /\ p'.msg = <<>> /\ p'.last_ok_ts = now
        /\ p'.visit = nvs_visits /\ p'.last_drink_ts = nvs.last_drink_ts
        /\ p'.last_report_day = IF nvs.last_report_day > 0
                                THEN nvs.last_report_day ELSE DayOf(now) - 1
    BY <1>1, <2>1, <2>2, RestoredDoes
  <2>5. QED
    BY <1>1, <1>2, <2>1, <2>2, <2>3, <2>4 DEF CoreInv, NoReading
<1>4. CASE Crash \/ CrashInSave
  <2>1. p' = PkInit(now) /\ now' = now /\ Start <= now
    BY <1>4 DEF Crash, CrashInSave, Off, BaseInv, WorldInv
  <2>2. p' \in Pk /\ p'.last_report_day >= 0
    BY <1>1, <2>1, InitDoes
  <2>3. p'.last = NoReading /\ p'.msg = <<>> /\ p'.last_ok_ts = now
        /\ p'.last_drink_ts = 0 /\ p'.visit = {}
    BY <2>1 DEF PkInit
  <2>4. QED
    BY <1>1, <2>1, <2>2, <2>3 DEF CoreInv, NoReading
<1>5. CASE BootPoll \/ RoundPoll
  <2>1. /\ p' \in Pk /\ p'.last_drink_ts <= now
        /\ p'.last_report_day = p.last_report_day
        /\ p'.visit \subseteq drinks
        /\ p'.last.valid => p'.last \in Readings
        /\ phase = "boot" => p'.msg = <<>>
        /\ \/ p' = p /\ eased' = eased
           \/ \E s \in Readings, fresh \in SUBSET buf : Answered(s, fresh)
    BY <1>5, PollDoes
  <2>2. p'.last_ok_ts <= now
    BY <1>1, <2>1 DEF Answered
  <2>3. now' = now /\ phase' \in Silent => phase = "boot"
    BY <1>5 DEF BootPoll, RoundPoll, Silent
  <2>4. now' = now /\ drinks' = drinks
    BY <1>5 DEF BootPoll, RoundPoll, cat
  <2>5. QED
    BY <1>1, <2>1, <2>2, <2>3, <2>4 DEF CoreInv
<1>6. CASE RoundTick
  <2>1. /\ p' \in Pk /\ p'.last = p.last /\ p'.last_drink_ts = p.last_drink_ts
        /\ p'.last_ok_ts = p.last_ok_ts /\ p'.visit \subseteq p.visit
        /\ p'.last_report_day \in {p.day_no, p.last_report_day}
    BY <1>6, RoundTickDoes
  <2>2. p.day_no \in Nat
    BY <1>1 DEF Pk
  <2>3. p'.last_report_day >= 0
    BY <1>1, <2>1, <2>2
  <2>4. now' = now /\ drinks' = drinks /\ phase' \notin Silent
    BY <1>6 DEF RoundTick, Silent, cat
  <2>5. QED
    BY <1>1, <2>1, <2>3, <2>4 DEF CoreInv
<1>7. CASE WifiDown \/ SendAlarms \/ SendReply
  <2>1. p' \in Pk /\ Only(p, p', Queue) /\ p'.msg = <<>>
    BY <1>7, SendDoes
  <2>2. now' = now /\ drinks' = drinks
    BY <1>7 DEF WifiDown, SendAlarms, SendReply, cat
  <2>3. QED
    BY <1>1, <2>1, <2>2, OnlyQueue DEF CoreInv
<1>8. CASE TakeCommands
  <2>1. p' \in Pk /\ Only(p, p', Queue)
    BY <1>8, TakeDoes
  <2>2. now' = now /\ drinks' = drinks /\ phase' \notin Silent
    BY <1>8 DEF TakeCommands, Silent, cat
  <2>3. QED
    BY <1>1, <2>1, <2>2, OnlyQueue DEF CoreInv
<1>9. CASE Elsewhere
  <2>1. p' = p /\ (phase' \in Silent => phase \in Silent)
    BY <1>9 DEF Elsewhere, ram, vars, Silent, WifiUp, DrainOutbox, NoCommands, SaveVisits,
                SaveState, Sleep, StayOff, Pass, Drink, AppSync, AskStatus, Quiet
  <2>2. p.last_drink_ts <= now' /\ p.last_ok_ts <= now'
    BY <1>1, <1>2
  <2>3. QED
    BY <1>1, <1>2, <2>1, <2>2 DEF CoreInv
<1>10. QED
  BY <1>3, <1>4, <1>5, <1>6, <1>7, <1>8, <1>9 DEF Next, Elsewhere

LEMMA WorldKeeps ==
  ASSUME BaseInv, [Next]_vars
  PROVE  WorldInv'
<1>1. /\ phase \in Phases /\ tg_offset \in Nat /\ asked \in Nat
      /\ buf \subseteq drinks /\ gone \subseteq drinks
      /\ left \in [Events -> Nat] /\ nvs.tg_offset \in Nat
  BY DEF BaseInv, WorldInv, FlashInv, NvsState
<1>2. /\ now' \in Nat /\ Start <= now'
      /\ drinks \subseteq drinks' /\ drinks' \subseteq 0..now'
  BY TimePasses
<1>3. phase' \in Phases
  BY <1>1 DEF Next, vars, Phases, Silent, Boot, Crash, CrashInSave, Off, BootPoll, RoundPoll,
              RoundTick, WifiUp, WifiDown, DrainOutbox, SendAlarms, TakeCommands, NoCommands,
              SendReply, SaveVisits, SaveState, Sleep, StayOff, Drink, AppSync, AskStatus
<1>4. tg_offset' \in Nat /\ asked' \in Nat
  <2>1. CASE TakeCommands
    BY <1>1, <2>1, TakeDoes DEF TakeCommands
  <2>2. CASE Boot \/ Crash \/ CrashInSave
    BY <1>1, <2>2 DEF Boot, Crash, CrashInSave, Off
  <2>3. CASE AskStatus
    BY <1>1, <2>3 DEF AskStatus, ram
  <2>4. CASE tg_offset' = tg_offset /\ asked' = asked
    BY <1>1, <2>4
  <2>5. QED
    BY <2>1, <2>2, <2>3, <2>4
       DEF Next, vars, ram, BootPoll, RoundPoll, RoundTick, WifiUp, WifiDown, DrainOutbox,
           SendAlarms, NoCommands, SendReply, SaveVisits, SaveState, Sleep, StayOff, Pass,
           Drink, AppSync
<1>5. buf' \subseteq drinks' /\ gone' \subseteq drinks'
  <2>1. CASE Drink
    BY <1>1, <2>1 DEF Drink
  <2>2. CASE AppSync
    BY <1>1, <2>2 DEF AppSync
  <2>3. CASE UNCHANGED cat
    BY <1>1, <2>3 DEF cat
  <2>4. QED
    BY <2>1, <2>2, <2>3
       DEF Next, vars, cat, Boot, Crash, CrashInSave, BootPoll, RoundPoll, RoundTick, WifiUp,
           WifiDown, DrainOutbox, SendAlarms, TakeCommands, NoCommands, SendReply,
           SaveVisits, SaveState, Sleep, StayOff, AskStatus
<1>6. left' \in [Events -> Nat]
  <2>1. CASE BootPoll \/ RoundPoll
    BY <2>1, PollDoes
  <2>2. CASE WifiDown \/ SendAlarms \/ SendReply
    BY <2>2, SendDoes
  <2>3. ASSUME \/ UNCHANGED left
               \/ \E event \in Events : Spend(event, 1)
        PROVE  left' \in [Events -> Nat]
    BY <1>1, <2>3, SpendType
  <2>4. CASE Crash \/ CrashInSave \/ DrainOutbox \/ NoCommands \/ SaveVisits \/ SaveState
             \/ Drink \/ AppSync \/ AskStatus
    BY <2>3, <2>4 DEF Events, Crash, CrashInSave, DrainOutbox, NoCommands, SaveVisits,
                      SaveState, Skipped, StateWritten, Drink, AppSync, AskStatus
  <2>5. CASE Boot \/ RoundTick \/ WifiUp \/ TakeCommands \/ Sleep \/ StayOff \/ UNCHANGED vars
    BY <2>3, <2>5 DEF vars, Boot, RoundTick, WifiUp, TakeCommands, Sleep, StayOff
  <2>6. QED
    BY <2>1, <2>2, <2>4, <2>5 DEF Next
<1>7. QED
  BY <1>2, <1>3, <1>4, <1>5, <1>6 DEF WorldInv

LEMMA FlashKeeps ==
  ASSUME BaseInv, [Next]_vars
  PROVE  FlashInv'
<1>1. /\ nvs \in NvsState /\ nvs.last_drink_ts <= now /\ nvs_visits \subseteq drinks
      /\ nvs.last_drink_ts \in Nat /\ now \in Nat /\ cache \in NvsState
      /\ p \in Pk /\ p.last_report_day >= 0 /\ tg_offset \in Nat
      /\ p.visit \subseteq drinks /\ p.last_drink_ts <= now
  BY DEF BaseInv, FlashInv, WorldInv, CoreInv, NvsState
<1>2. now' \in Nat /\ now <= now' /\ drinks \subseteq drinks'
  BY TimePasses
<1>3. CASE SaveState \/ CrashInSave
  <2>1. Saved(nvs') /\ cache' \in NvsState
    BY <1>1, <1>3, SaveDoes
  <2>2. nvs' \in NvsState /\ nvs'.last_drink_ts <= now
    BY <1>1, <2>1 DEF Saved
  <2>3. now' = now /\ nvs_visits' = nvs_visits
    BY <1>3 DEF SaveState, CrashInSave
  <2>4. QED
    BY <1>1, <1>2, <2>1, <2>2, <2>3 DEF FlashInv
<1>4. ASSUME nvs' = nvs, nvs_visits' \in {p.visit, nvs_visits}, cache' \in NvsState
      PROVE  FlashInv'
  <2>1. nvs.last_drink_ts <= now'
    BY <1>1, <1>2
  <2>2. QED
    BY <1>1, <1>2, <1>4, <2>1 DEF FlashInv
<1>5. CASE SaveVisits
  BY <1>1, <1>4, <1>5 DEF SaveVisits, ram
<1>6. CASE Boot \/ Crash
  <2>1. cache' \in NvsState
    BY <1>1, <1>6, EmptyType DEF Boot, Crash, Off
  <2>2. QED
    BY <1>4, <1>6, <2>1 DEF Boot, Crash, flash
<1>7. CASE UNCHANGED <<flash, cache>>
  BY <1>1, <1>4, <1>7 DEF flash
<1>8. QED
  BY <1>3, <1>5, <1>6, <1>7
     DEF Next, vars, flash, ram, BootPoll, RoundPoll, RoundTick, WifiUp, WifiDown,
         DrainOutbox, SendAlarms, TakeCommands, NoCommands, SendReply, Sleep, StayOff, Pass,
         Drink, AppSync, AskStatus

LEMMA OutboxKeeps ==
  ASSUME BaseInv, [Next]_vars
  PROVE  OutboxInv'
<1>1. outbox \in Seq(Msg) /\ Len(outbox) <= OutboxMax /\ Len(outbox) \in Nat
      /\ OutboxMax \in Nat
  BY GatewayConstants, LenProperties DEF BaseInv, OutboxInv
<1>2. CASE WifiDown \/ SendAlarms \/ SendReply
  BY <1>2, SendDoes DEF OutboxInv
<1>3. CASE DrainOutbox
  <2>1. PICK sent \in 0..Len(outbox) : outbox' = SubSeq(outbox, sent + 1, Len(outbox))
    BY <1>3 DEF DrainOutbox
  <2>2. sent \in Nat /\ sent <= Len(outbox) /\ sent + 1 \in Int
    BY <1>1, <2>1
  <2>3. \A i \in sent + 1..Len(outbox) : outbox[i] \in Msg
    <3>1. ASSUME NEW i \in sent + 1..Len(outbox) PROVE i \in 1..Len(outbox)
      BY <1>1, <2>2
    <3>2. QED
      BY <1>1, <3>1, ElementOfSeq
  <2>4. /\ outbox' \in Seq(Msg)
        /\ Len(outbox') = IF sent + 1 <= Len(outbox) THEN Len(outbox) - (sent + 1) + 1 ELSE 0
    BY <1>1, <2>1, <2>2, <2>3, SubSeqProperties
  <2>5. Len(outbox') <= OutboxMax
    BY <1>1, <2>2, <2>4
  <2>6. QED
    BY <2>4, <2>5 DEF OutboxInv
<1>4. CASE outbox' = <<>>
  BY <1>1, <1>4 DEF OutboxInv
<1>5. CASE outbox' = outbox
  BY <1>1, <1>5 DEF OutboxInv
<1>6. QED
  BY <1>2, <1>3, <1>4, <1>5
     DEF Next, vars, ram, Boot, Crash, CrashInSave, Off, BootPoll, RoundPoll, RoundTick,
         WifiUp, TakeCommands, NoCommands, SaveVisits, SaveState, Sleep, StayOff, Pass,
         Drink, AppSync, AskStatus

LEMMA BaseKeeps == BaseInv /\ [Next]_vars => BaseInv'
BY CoreKeeps, WorldKeeps, FlashKeeps, OutboxKeeps DEF BaseInv

LEMMA BaseAlways == Spec => []BaseInv
BY InitBase, BaseKeeps, PTL DEF Spec

\* The flash, the queues and the core have their types: whatever is restored
\* from a torn save, a core that starts on it is one the C code can be in, and
\* the outbox never holds more than OUTBOX_MAX messages (main.c:29-43).
THEOREM TypeCorrect == Spec => []TypeOK
<1>1. BaseInv => TypeOK
  <2> SUFFICES ASSUME BaseInv PROVE TypeOK
    OBVIOUS
  <2>1. nvs_visits \subseteq Nat
    BY DEF BaseInv, FlashInv, WorldInv
  <2>2. QED
    BY <2>1 DEF BaseInv, CoreInv, WorldInv, FlashInv, OutboxInv, Phases, Silent, TypeOK
<1>2. QED
  BY <1>1, BaseAlways, PTL

-----------------------------------------------------------------------------
(* Commands *)

\* What the messages of a sequence answer.
LEMMA AnswersCovered ==
  ASSUME NEW ms, NEW A,
         \A i \in DOMAIN ms : ms[i].kind = "status" => (ms[i].alerts + 1)..ms[i].arg \subseteq A
  PROVE  Answers(ms) \subseteq A
BY DEF Answers

LEMMA AnswersHas ==
  ASSUME NEW ms, NEW i \in DOMAIN ms, ms[i].kind = "status"
  PROVE  (ms[i].alerts + 1)..ms[i].arg \subseteq Answers(ms)
BY DEF Answers

\* Messages found again at another place, in one of two sequences, answer the
\* same there.
LEMMA AnswersMoved ==
  ASSUME NEW ms, NEW s, NEW t,
         \A i \in DOMAIN ms : \/ \E j \in DOMAIN s : s[j] = ms[i]
                              \/ \E j \in DOMAIN t : t[j] = ms[i]
  PROVE  Answers(ms) \subseteq Answers(s) \cup Answers(t)
<1>1. ASSUME NEW i \in DOMAIN ms, ms[i].kind = "status"
      PROVE  (ms[i].alerts + 1)..ms[i].arg \subseteq Answers(s) \cup Answers(t)
  <2>1. CASE \E j \in DOMAIN s : s[j] = ms[i]
    <3>1. PICK j \in DOMAIN s : s[j] = ms[i]
      BY <2>1
    <3>2. (s[j].alerts + 1)..s[j].arg \subseteq Answers(s)
      BY <1>1, <3>1, AnswersHas
    <3>3. QED
      BY <3>1, <3>2
  <2>2. CASE \E j \in DOMAIN t : t[j] = ms[i]
    <3>1. PICK j \in DOMAIN t : t[j] = ms[i]
      BY <2>2
    <3>2. (t[j].alerts + 1)..t[j].arg \subseteq Answers(t)
      BY <1>1, <3>1, AnswersHas
    <3>3. QED
      BY <3>1, <3>2
  <2>3. QED
    BY <2>1, <2>2
<1>2. QED
  BY <1>1, AnswersCovered

LEMMA NothingAnswered == Answers(<<>>) = {}
BY DEF Answers

LEMMA AnswersTold ==
  ASSUME NEW q, NEW r, Told(q) \subseteq Told(r)
  PROVE  Answers(q.msg) \subseteq Answers(r.msg)
<1>1. ASSUME NEW i \in DOMAIN q.msg
      PROVE  \E j \in DOMAIN r.msg : r.msg[j] = q.msg[i]
  BY DEF Told
<1>2. QED
  BY <1>1, AnswersMoved

\* A sequence cut in two.
LEMMA AnswersCut ==
  ASSUME NEW ms \in Seq(Msg), NEW k \in 0..Len(ms)
  PROVE  Answers(ms) \subseteq Answers(SubSeq(ms, 1, k)) \cup Answers(SubSeq(ms, k + 1, Len(ms)))
<1> DEFINE l == Len(ms)
           a == SubSeq(ms, 1, k)
           b == SubSeq(ms, k + 1, l)
<1>1. l \in Nat /\ DOMAIN ms = 1..l
  BY LenProperties
<1>2. ASSUME NEW i \in 1..l
      PROVE  \/ \E j \in DOMAIN a : a[j] = ms[i]
             \/ \E j \in DOMAIN b : b[j] = ms[i]
  <2>1. CASE i <= k
    <3>1. \A n \in 1..k : ms[n] \in Msg
      BY <1>1, ElementOfSeq
    <3>2. Len(a) = k /\ a \in Seq(Msg) /\ \A n \in 1..k : a[n] = ms[1 + n - 1]
      BY <1>1, <2>1, <3>1, SubSeqProperties
    <3>3. i \in 1..k /\ 1 + i - 1 = i
      BY <1>1, <2>1
    <3>4. DOMAIN a = 1..k
      BY <3>2, LenProperties
    <3>5. QED
      BY <3>2, <3>3, <3>4
  <2>2. CASE k < i
    <3>1. \A n \in k + 1..l : ms[n] \in Msg
      <4>1. ASSUME NEW n \in k + 1..l PROVE n \in 1..Len(ms)
        BY <1>1
      <4>2. QED
        BY <4>1, ElementOfSeq
    <3>2. k + 1 <= l /\ l - (k + 1) + 1 = l - k
      BY <1>1, <2>2
    <3>3. Len(b) = l - k /\ b \in Seq(Msg) /\ \A n \in 1..(l - k) : b[n] = ms[k + 1 + n - 1]
      BY <1>1, <3>1, <3>2, SubSeqProperties
    <3>4. i - k \in 1..(l - k) /\ k + 1 + (i - k) - 1 = i
      BY <1>1, <2>2
    <3>5. DOMAIN b = 1..(l - k)
      BY <3>3, LenProperties
    <3>6. b[i - k] = ms[i]
      BY <3>3, <3>4
    <3>7. QED
      BY <3>4, <3>5, <3>6
  <2>3. QED
    BY <1>1, <2>1, <2>2
<1>3. \A i \in DOMAIN ms : \/ \E j \in DOMAIN a : a[j] = ms[i]
                           \/ \E j \in DOMAIN b : b[j] = ms[i]
  BY <1>1, <1>2
<1> HIDE DEF a, b
<1>4. Answers(ms) \subseteq Answers(a) \cup Answers(b)
  BY <1>3, AnswersMoved
<1>5. QED
  BY <1>4 DEF a, b

\* What outbox_push does not keep it throws out.
LEMMA AnswersPushed ==
  ASSUME outbox \in Seq(Msg), NEW ms \in Seq(Msg)
  PROVE  Answers(outbox) \cup Answers(ms)
           \subseteq Answers(PushAll(ms)) \cup Answers(Displaced(ms))
<1> DEFINE all == outbox \o ms
           l == Len(all)
<1>1. all \in Seq(Msg) /\ l \in Nat /\ OutboxMax \in Nat /\ OutboxMax > 0
  BY ConcatProperties, LenProperties, GatewayConstants
<1>2. Len(outbox) \in Nat /\ Len(ms) \in Nat /\ l = Len(outbox) + Len(ms)
      /\ DOMAIN outbox = 1..Len(outbox) /\ DOMAIN ms = 1..Len(ms) /\ DOMAIN all = 1..l
  BY ConcatProperties, LenProperties
<1>3. Answers(outbox) \subseteq Answers(all)
  <2>1. ASSUME NEW i \in DOMAIN outbox
        PROVE  i \in DOMAIN all /\ all[i] = outbox[i]
    <3>1. i \in 1..Len(outbox) /\ i \in 1..l
      BY <1>2
    <3>2. all[i] = outbox[i]
      BY <3>1, ConcatProperties
    <3>3. QED
      BY <1>2, <3>1, <3>2
  <2>2. QED
    BY <2>1, AnswersMoved
<1>4. Answers(ms) \subseteq Answers(all)
  <2>1. ASSUME NEW i \in DOMAIN ms
        PROVE  i + Len(outbox) \in DOMAIN all /\ all[i + Len(outbox)] = ms[i]
    <3>1. /\ i + Len(outbox) \in 1..l
          /\ i + Len(outbox) \in 1..(Len(outbox) + Len(ms))
          /\ ~ (i + Len(outbox) <= Len(outbox))
          /\ (i + Len(outbox)) - Len(outbox) = i
      BY <1>2
    <3>2. all[i + Len(outbox)] = ms[(i + Len(outbox)) - Len(outbox)]
      BY <3>1, ConcatProperties
    <3>3. QED
      BY <1>2, <3>1, <3>2
  <2>2. QED
    BY <2>1, AnswersMoved
<1>5. CASE l > OutboxMax
  <2>1. l - OutboxMax \in 0..l
    BY <1>1, <1>5
  <2>2. Answers(all) \subseteq Answers(SubSeq(all, 1, l - OutboxMax))
                                 \cup Answers(SubSeq(all, (l - OutboxMax) + 1, l))
    BY <1>1, <2>1, AnswersCut
  <2>3. (l - OutboxMax) + 1 = l - OutboxMax + 1
    BY <1>1
  <2>4. PushAll(ms) = SubSeq(all, l - OutboxMax + 1, l)
        /\ Displaced(ms) = SubSeq(all, 1, l - OutboxMax)
    BY <1>5 DEF PushAll, Displaced
  <2>5. QED
    BY <1>3, <1>4, <2>2, <2>3, <2>4
<1>6. CASE ~ (l > OutboxMax)
  <2>1. Answers(all) \subseteq Answers(SubSeq(all, 1, 0)) \cup Answers(SubSeq(all, 0 + 1, l))
    <3>1. 0 \in 0..l
      BY <1>1
    <3>2. QED
      BY <1>1, <3>1, AnswersCut
  <2>2. SubSeq(all, 1, 0) = <<>>
    BY <1>1
  <2>3. PushAll(ms) = SubSeq(all, 1, l)
    BY <1>6 DEF PushAll
  <2>4. 0 + 1 = 1
    OBVIOUS
  <2>5. QED
    BY <1>3, <1>4, <2>1, <2>2, <2>3, <2>4, NothingAnswered
<1>7. QED
  BY <1>5, <1>6

\* Every element of a finite set is the n-th for some n.
LEMMA NthOnto ==
  ASSUME NEW S \in SUBSET Nat, IsFiniteSet(S), NEW i \in S
  PROVE  \E n \in 1..Cardinality(S) : Nth(S, n) = i
<1> DEFINE Upto(k) == {j \in S : j <= k}
           n == Cardinality(Upto(i))
<1>1. ASSUME NEW k \in S
      PROVE  /\ IsFiniteSet(Upto(k)) /\ Cardinality(Upto(k)) \in Nat
             /\ Cardinality(Upto(k)) <= Cardinality(S) /\ k \in Upto(k)
  <2>1. Upto(k) \in SUBSET S
    OBVIOUS
  <2>2. IsFiniteSet(Upto(k)) /\ Cardinality(Upto(k)) <= Cardinality(S)
    BY <2>1, FS_Subset
  <2>3. Cardinality(Upto(k)) \in Nat
    BY <2>2, FS_CardinalityType
  <2>4. k \in Nat /\ k <= k
    BY <1>1
  <2>5. QED
    BY <2>2, <2>3, <2>4
<1>2. n \in 1..Cardinality(S)
  <2>1. n # 0
    BY <1>1, FS_EmptySet
  <2>2. Cardinality(S) \in Nat
    BY FS_CardinalityType
  <2>3. QED
    BY <1>1, <2>1, <2>2
<1>3. ASSUME NEW a \in S, NEW b \in S, a <= b, Cardinality(Upto(a)) = Cardinality(Upto(b))
      PROVE  a = b
  <2>1. a \in Nat /\ b \in Nat
    BY <1>3
  <2>2. Upto(a) \in SUBSET Upto(b)
    <3>1. ASSUME NEW j \in S, j <= a PROVE j <= b
      BY <1>3, <2>1, <3>1
    <3>2. QED
      BY <3>1
  <2>3. Upto(a) = Upto(b)
    BY <1>1, <1>3, <2>2, FS_Subset
  <2>4. b <= a
    BY <1>1, <2>3
  <2>5. QED
    BY <1>3, <2>1, <2>4
<1>4. ASSUME NEW k \in S, Cardinality(Upto(k)) = n
      PROVE  k = i
  <2>1. k <= i \/ i <= k
    BY <1>4
  <2>2. QED
    BY <1>3, <1>4, <2>1
<1>5. Nth(S, n) = CHOOSE k \in S : Cardinality(Upto(k)) = n
  BY DEF Nth
<1>6. \E k \in S : Cardinality(Upto(k)) = n
  OBVIOUS
<1>7. (CHOOSE k \in S : Cardinality(Upto(k)) = n) = i
  BY <1>4, <1>6
<1>8. QED
  BY <1>2, <1>5, <1>7

\* Every message goes out or is kept back.
LEMMA AnswersPicked ==
  ASSUME NEW ms \in Seq(Msg), NEW S \in SUBSET DOMAIN ms
  PROVE  Answers(ms) \subseteq Answers(Picked(ms, DOMAIN ms \ S)) \cup Answers(Picked(ms, S))
<1>1. Len(ms) \in Nat /\ DOMAIN ms = 1..Len(ms)
  BY LenProperties
<1>2. ASSUME NEW T \in SUBSET DOMAIN ms, NEW i \in T
      PROVE  \E n \in DOMAIN Picked(ms, T) : Picked(ms, T)[n] = ms[i]
  <2>1. T \in SUBSET Nat
    BY <1>1
  <2>2. IsFiniteSet(T)
    <3>1. IsFiniteSet(1..Len(ms))
      BY <1>1, FS_Interval
    <3>2. QED
      BY <1>1, <3>1, FS_Subset
  <2>3. PICK n \in 1..Cardinality(T) : Nth(T, n) = i
    BY <2>1, <2>2, NthOnto
  <2>4. n \in DOMAIN Picked(ms, T) /\ Picked(ms, T)[n] = ms[i]
    BY <2>3 DEF Picked
  <2>5. QED
    BY <2>4
<1>3. ASSUME NEW i \in DOMAIN ms
      PROVE  \/ \E j \in DOMAIN Picked(ms, DOMAIN ms \ S) : Picked(ms, DOMAIN ms \ S)[j] = ms[i]
             \/ \E j \in DOMAIN Picked(ms, S) : Picked(ms, S)[j] = ms[i]
  <2>1. CASE i \in S
    BY <1>2, <2>1
  <2>2. CASE i \in DOMAIN ms \ S
    <3>1. DOMAIN ms \ S \in SUBSET DOMAIN ms
      OBVIOUS
    <3>2. QED
      BY <1>2, <2>2, <3>1
  <2>3. QED
    BY <2>1, <2>2
<1> DEFINE a == Picked(ms, DOMAIN ms \ S)
           b == Picked(ms, S)
<1>4. \A i \in DOMAIN ms : (\E j \in DOMAIN a : a[j] = ms[i]) \/ (\E j \in DOMAIN b : b[j] = ms[i])
  BY <1>3
<1> HIDE DEF a, b
<1>5. Answers(ms) \subseteq Answers(a) \cup Answers(b)
  BY <1>4, AnswersMoved
<1>6. QED
  BY <1>5 DEF a, b

\* No window of the radio loses sight of an answer.
LEMMA SendsAccount ==
  ASSUME BaseInv, WifiDown \/ SendAlarms \/ SendReply
  PROVE  Accounted \cup Answers(p.msg) \subseteq Accounted'
<1>1. outbox \in Seq(Msg) /\ p.msg \in Seq(Msg)
  BY DEF BaseInv, CoreInv, OutboxInv, Pk
<1>2. CASE WifiDown
  <2>1. /\ outbox' = PushAll(p.msg) /\ answered' = answered
        /\ dropped' = dropped \cup Answers(Displaced(p.msg))
    BY <1>2 DEF WifiDown
  <2>2. QED
    BY <1>1, <2>1, AnswersPushed DEF Accounted
<1>3. CASE SendAlarms \/ SendReply
  <2>1. PICK failed \in SUBSET DOMAIN p.msg :
          /\ outbox' = PushAll(Picked(p.msg, failed))
          /\ answered' = answered \cup Answers(Picked(p.msg, DOMAIN p.msg \ failed))
          /\ dropped' = dropped \cup Answers(Displaced(Picked(p.msg, failed)))
    BY <1>3, Zenon DEF SendAlarms, SendReply, SendQueued
  <2>2. Picked(p.msg, failed) \in Seq(Msg)
    BY <1>1, PickedType
  <2>3. Answers(outbox) \cup Answers(Picked(p.msg, failed))
          \subseteq Answers(outbox') \cup Answers(Displaced(Picked(p.msg, failed)))
    BY <1>1, <2>1, <2>2, AnswersPushed
  <2>4. Answers(p.msg) \subseteq Answers(Picked(p.msg, DOMAIN p.msg \ failed))
                                   \cup Answers(Picked(p.msg, failed))
    BY <1>1, AnswersPicked
  <2>5. QED
    BY <2>1, <2>3, <2>4 DEF Accounted
<1>4. QED
  BY <1>2, <1>3

LEMMA DrainAccounts ==
  ASSUME BaseInv, DrainOutbox
  PROVE  Accounted \subseteq Accounted'
<1>1. PICK sent \in 0..Len(outbox) :
        /\ outbox' = SubSeq(outbox, sent + 1, Len(outbox))
        /\ answered' = answered \cup Answers(SubSeq(outbox, 1, sent))
  BY DEF DrainOutbox
<1>2. outbox \in Seq(Msg) /\ dropped' = dropped
  BY DEF BaseInv, OutboxInv, DrainOutbox
<1>3. Answers(outbox) \subseteq Answers(SubSeq(outbox, 1, sent)) \cup Answers(outbox')
  BY <1>1, <1>2, AnswersCut
<1>4. QED
  BY <1>1, <1>2, <1>3 DEF Accounted

LEMMA InitCommands == Init => CommandsInv
<1> SUFFICES ASSUME Init PROVE CommandsInv
  OBVIOUS
<1>1. nvs.tg_offset = 0 /\ phase = "off" /\ outbox = <<>>
  BY DEF Init, NvsEmpty
<1>2. 1..0 = {}
  OBVIOUS
<1>3. QED
  BY <1>1, <1>2 DEF CommandsInv

LEMMA CommandsKeep == BaseInv /\ CommandsInv /\ [Next]_vars => CommandsInv'
<1> SUFFICES ASSUME BaseInv, CommandsInv, [Next]_vars PROVE CommandsInv'
  OBVIOUS
<1>1. /\ phase = "off" => outbox = <<>>
      /\ 1..nvs.tg_offset \subseteq Accounted
      /\ phase # "off" => 1..tg_offset \subseteq Accounted \cup Answers(p.msg)
      /\ phase \in Silent => Answers(p.msg) = {}
      /\ nvs \in NvsState /\ cache \in NvsState /\ p \in Pk /\ p.last_report_day >= 0
      /\ tg_offset \in Nat
  BY NothingAnswered DEF CommandsInv, BaseInv, CoreInv, FlashInv, WorldInv
<1>2. CASE SaveState \/ CrashInSave
  <2>1. Saved(nvs')
    BY <1>1, <1>2, SaveDoes
  <2>2. phase = "savestate" /\ phase # "off" /\ phase \in Silent
    BY <1>2 DEF SaveState, CrashInSave, Silent
  <2>3. 1..tg_offset \subseteq Accounted
    BY <1>1, <2>2
  <2>4. 1..nvs'.tg_offset \subseteq Accounted
    BY <1>1, <2>1, <2>3 DEF Saved
  <2>5. CASE SaveState
    <3>1. /\ phase' = "sleep" /\ tg_offset' = tg_offset /\ p' = p
          /\ Accounted' = Accounted
      BY <2>5 DEF SaveState, told, Accounted
    <3>2. QED
      BY <2>3, <2>4, <3>1 DEF CommandsInv
  <2>6. CASE CrashInSave
    <3>1. phase' = "off" /\ outbox' = <<>> /\ Accounted \subseteq Accounted'
      BY <2>6 DEF CrashInSave, Off, Accounted
    <3>2. QED
      BY <2>4, <3>1 DEF CommandsInv
  <2>7. QED
    BY <1>2, <2>5, <2>6
<1>3. CASE Boot
  <2>1. /\ phase = "off" /\ phase' = "boot" /\ outbox' = <<>> /\ tg_offset' = nvs.tg_offset
        /\ nvs' = nvs /\ answered' = answered /\ dropped' = dropped
    BY <1>3 DEF Boot, flash, told
  <2>2. Accounted' = Accounted
    BY <1>1, <2>1 DEF Accounted
  <2>3. QED
    BY <1>1, <2>1, <2>2 DEF CommandsInv
<1>4. CASE Crash
  <2>1. phase' = "off" /\ outbox' = <<>> /\ nvs' = nvs /\ Accounted \subseteq Accounted'
    BY <1>4 DEF Crash, Off, flash, Accounted
  <2>2. QED
    BY <1>1, <2>1 DEF CommandsInv
<1>5. CASE TakeCommands
  <2>1. /\ phase \in Silent /\ phase # "off" /\ phase' = "reply" /\ nvs' = nvs
        /\ Accounted' = Accounted
    BY <1>5 DEF TakeCommands, Silent, flash, ghost, Accounted
  <2>2. /\ tg_offset' \in Nat /\ tg_offset <= tg_offset'
        /\ \E m \in Msg :
             /\ m.kind = "status" /\ m.alerts = tg_offset /\ m.arg = tg_offset'
             /\ Told(p') = {m}
    BY <1>5, TakeDoes
  <2>3. PICK i \in DOMAIN p'.msg :
          /\ p'.msg[i].kind = "status" /\ p'.msg[i].alerts = tg_offset
          /\ p'.msg[i].arg = tg_offset'
    BY <2>2 DEF Told
  <2>4. tg_offset + 1..tg_offset' \subseteq Answers(p'.msg)
    BY <2>3, AnswersHas
  <2>5. 1..tg_offset' \subseteq 1..tg_offset \cup (tg_offset + 1..tg_offset')
    BY <1>1, <2>2
  <2>6. QED
    BY <1>1, <2>1, <2>4, <2>5 DEF CommandsInv
<1>6. CASE WifiDown \/ SendAlarms \/ SendReply
  <2>1. Accounted \cup Answers(p.msg) \subseteq Accounted'
    BY <1>6, SendsAccount
  <2>2. phase # "off" /\ phase' # "off" /\ nvs' = nvs /\ tg_offset' = tg_offset
    BY <1>6 DEF WifiDown, SendAlarms, SendReply, flash
  <2>3. QED
    BY <1>1, <2>1, <2>2 DEF CommandsInv
<1>7. CASE DrainOutbox
  <2>1. phase # "off" /\ phase' # "off" /\ nvs' = nvs /\ tg_offset' = tg_offset /\ p' = p
    BY <1>7 DEF DrainOutbox, flash
  <2>2. QED
    BY <1>1, <1>7, <2>1, DrainAccounts DEF CommandsInv
<1>8. CASE BootPoll \/ RoundPoll
  <2>1. /\ phase \in Silent /\ phase # "off" /\ phase' # "off"
        /\ nvs' = nvs /\ tg_offset' = tg_offset /\ Accounted' = Accounted
    BY <1>8 DEF BootPoll, RoundPoll, Silent, flash, told, Accounted
  <2>2. QED
    BY <1>1, <2>1 DEF CommandsInv
<1>9. CASE RoundTick
  <2>1. /\ phase # "off" /\ phase' # "off"
        /\ nvs' = nvs /\ tg_offset' = tg_offset /\ Accounted' = Accounted
    BY <1>9 DEF RoundTick, flash, ghost, Accounted
  <2>2. Answers(p.msg) \subseteq Answers(p'.msg)
    BY <1>9, RoundTickDoes, AnswersTold
  <2>3. QED
    BY <1>1, <2>1, <2>2 DEF CommandsInv
<1>10. CASE \/ WifiUp \/ NoCommands \/ SaveVisits \/ Sleep \/ StayOff
            \/ Drink \/ AppSync \/ AskStatus \/ UNCHANGED vars
  <2>1. /\ nvs' = nvs /\ tg_offset' = tg_offset /\ p' = p /\ outbox' = outbox
        /\ answered' = answered /\ dropped' = dropped
        /\ phase' = "off" <=> phase = "off"
    BY <1>10 DEF vars, ram, flash, ghost, told, WifiUp, NoCommands, SaveVisits, Sleep,
                 StayOff, Pass, Drink, AppSync, AskStatus
  <2>2. Accounted' = Accounted
    BY <2>1 DEF Accounted
  <2>3. QED
    BY <1>1, <2>1, <2>2 DEF CommandsInv
<1>11. QED
  BY <1>2, <1>3, <1>4, <1>5, <1>6, <1>7, <1>8, <1>9, <1>10 DEF Next

\* The cursor never passes a command that got no answer: whatever flash holds,
\* torn save or whole, the answer to every command behind it went out, waits in
\* the outbox, or was lost there (main.c:334-355 before main.c:385-397).  Power
\* cuts between the fetch, the answer and the save lose nothing; the outbox in
\* RAM can.
THEOREM CommandsAnswered == Spec => []SavedCommandsAnswered
<1>1. CommandsInv => SavedCommandsAnswered
  BY DEF CommandsInv, SavedCommandsAnswered, Accounted
<1>2. QED
  BY <1>1, InitBase, BaseKeeps, InitCommands, CommandsKeep, PTL DEF Spec

-----------------------------------------------------------------------------
(* Alarms *)

\* What a reading says of the alarms that are over.
LEMMA SeenOverIs ==
  ASSUME NEW s \in PkState
  PROVE  /\ "water" \in SeenOver(s) <=> ~ s.no_water
         /\ "fault" \in SeenOver(s) <=> ~ s.fault
         /\ "battery" \in SeenOver(s) <=> s.battery = 0
BY DEF SeenOver

LEMMA InitAlarm == Init => AlarmInv
<1> SUFFICES ASSUME Init PROVE AlarmInv
  OBVIOUS
<1>1. p.msg = <<>> /\ phase = "off"
  BY DEF Init, PkInit
<1>2. QED
  BY <1>1, NothingTold DEF AlarmInv, LatchInv

\* A poll leaves the latches of RAM and flash in step, or has seen why not.
LEMMA PollLatches ==
  ASSUME BaseInv, LatchInv, BootPoll \/ RoundPoll
  PROVE  LatchInv'
<1>1. /\ phase # "off" /\ nvs' = nvs
  BY DEF BootPoll, RoundPoll, flash
<1>2. /\ nvs.a_no_water => p.a_no_water \/ "water" \in eased
      /\ nvs.a_fault => p.a_fault \/ "fault" \in eased
      /\ nvs.battery_latch \subseteq p.battery_latch \/ "battery" \in eased
      /\ nvs.thirst_level > p.thirst_level => "thirst" \in eased
      /\ p.last.valid => /\ p.a_no_water = p.last.no_water
                         /\ p.a_fault = p.last.fault
                         /\ p.last.battery = 0 => p.battery_latch = {}
  BY <1>1 DEF LatchInv, Latches
<1>3. /\ p' \in Pk
      /\ \/ p' = p /\ eased' = eased
         \/ \E s \in Readings, fresh \in SUBSET buf : Answered(s, fresh)
  BY PollDoes
<1>4. CASE p' = p /\ eased' = eased
  BY <1>1, <1>2, <1>4 DEF LatchInv, Latches
<1>5. ASSUME NEW s \in Readings, NEW fresh \in SUBSET buf, Answered(s, fresh)
      PROVE  LatchInv'
  <2>1. /\ p'.last = IF s.valid THEN s ELSE p.last
        /\ IF p'.last.valid
           THEN /\ p'.a_no_water = p'.last.no_water /\ p'.a_fault = p'.last.fault
                /\ p'.battery_latch = IF p'.last.battery = 0 THEN {}
                                      ELSE p.battery_latch \cup 1..p'.last.battery
           ELSE /\ p'.a_no_water = p.a_no_water /\ p'.a_fault = p.a_fault
                /\ p'.battery_latch = p.battery_latch
        /\ p'.thirst_level < p.thirst_level => p.last_drink_ts < p'.last_drink_ts
        /\ SeenOver(s) \cup eased \subseteq eased'
        /\ p.last_drink_ts < p'.last_drink_ts => "thirst" \in eased'
    BY <1>5 DEF Answered
  <2>2. /\ s \in PkState
        /\ s.valid \in BOOLEAN /\ s.no_water \in BOOLEAN /\ s.fault \in BOOLEAN
        /\ p'.last.valid \in BOOLEAN
    BY <1>3, GatewayConstants DEF Pk, PkState
  <2>3. /\ ~ s.no_water => "water" \in eased'
        /\ ~ s.fault => "fault" \in eased'
        /\ s.battery = 0 => "battery" \in eased'
        /\ eased \subseteq eased'
    BY <2>1, <2>2, SeenOverIs
  <2>4. p'.last.valid => /\ p'.a_no_water = p'.last.no_water
                         /\ p'.a_fault = p'.last.fault
                         /\ p'.last.battery = 0 => p'.battery_latch = {}
    BY <2>1
  <2>5. /\ nvs.a_no_water => p'.a_no_water \/ "water" \in eased'
        /\ nvs.a_fault => p'.a_fault \/ "fault" \in eased'
        /\ nvs.battery_latch \subseteq p'.battery_latch \/ "battery" \in eased'
    <3>1. CASE s.valid
      BY <1>2, <2>1, <2>3, <3>1
    <3>2. CASE ~ s.valid
      BY <1>2, <2>1, <2>3, <3>2
    <3>3. QED
      BY <2>2, <3>1, <3>2
  <2>6. nvs.thirst_level > p'.thirst_level => "thirst" \in eased'
    <3>1. /\ nvs.thirst_level \in 0..2 /\ p.thirst_level \in 0..2 /\ p'.thirst_level \in 0..2
      BY <1>3 DEF BaseInv, CoreInv, FlashInv, NvsState, Pk
    <3>2. nvs.thirst_level > p'.thirst_level =>
            nvs.thirst_level > p.thirst_level \/ p'.thirst_level < p.thirst_level
      BY <3>1
    <3>3. QED
      BY <1>2, <2>1, <3>2
  <2>7. QED
    BY <1>1, <2>4, <2>5, <2>6 DEF LatchInv, Latches
<1>6. QED
  BY <1>3, <1>4, <1>5

\* What a poll queues, and what pk_tick adds, is new.
LEMMA PollSaysNew ==
  ASSUME BaseInv, LatchInv, BootPoll \/ RoundPoll, NEW m \in Told(p')
  PROVE  New(m)'
<1>1. /\ phase # "off" /\ nvs' = nvs
  BY DEF BootPoll, RoundPoll, flash
<1>2. /\ nvs.a_no_water => p.a_no_water \/ "water" \in eased
      /\ nvs.a_fault => p.a_fault \/ "fault" \in eased
      /\ nvs.battery_latch \subseteq p.battery_latch \/ "battery" \in eased
      /\ nvs.thirst_level > p.thirst_level => "thirst" \in eased
  BY <1>1 DEF LatchInv, Latches
<1>3. /\ p' \in Pk /\ eased \subseteq eased'
      /\ p.last_drink_ts < p'.last_drink_ts => "thirst" \in eased'
  <2>1. p \in Pk
    BY DEF BaseInv, CoreInv
  <2>2. p.last_drink_ts \in Nat
    BY <2>1 DEF Pk
  <2>3. ~ (p.last_drink_ts < p.last_drink_ts)
    BY <2>2
  <2>4. QED
    BY <2>3, PollDoes DEF Answered
<1>4. PICK level \in Nat :
        /\ level > p.thirst_level \/ p.last_drink_ts < p'.last_drink_ts
        /\ Told(p') \subseteq PollNotes(p) \cup {Note("thirst", level)}
  BY PollDoes
<1>5. nvs.thirst_level \in 0..2 /\ p.thirst_level \in 0..2
  BY DEF BaseInv, CoreInv, FlashInv, NvsState, Pk
<1>6. nvs.thirst_level >= level => "thirst" \in eased'
  <2>1. nvs.thirst_level >= level =>
          nvs.thirst_level > p.thirst_level \/ ~ (level > p.thirst_level)
    BY <1>5
  <2>2. QED
    BY <1>2, <1>3, <1>4, <2>1
<1>7. CASE m = Note("thirst", level)
  BY <1>1, <1>6, <1>7 DEF New, Note
<1>8. CASE m \in CriticalNotes(p)
  BY <1>1, <1>2, <1>3, <1>8 DEF New, Note, CriticalNotes
<1>9. CASE m \in GaugeNotes(p)
  <2>1. CASE \E l \in (1..3) \ p.battery_latch : m = Note("battery", l)
    BY <1>1, <1>2, <1>3, <2>1 DEF New, Note
  <2>2. CASE \E l \in 1..3 : m = Note("filter", l)
    BY <2>2 DEF New, Note
  <2>3. QED
    BY <1>9, <2>1, <2>2 DEF GaugeNotes
<1>10. CASE m \in {Note("contact", 0), Note("thirst", 0), Note("history", 0), Note("history", 1)}
  BY <1>10 DEF New, Note
<1>11. QED
  BY <1>4, <1>7, <1>8, <1>9, <1>10 DEF PollNotes

LEMMA TickSaysNew ==
  ASSUME BaseInv, AlarmInv, RoundTick, NEW m \in Told(p')
  PROVE  New(m)'
<1>1. /\ phase # "off" /\ nvs' = nvs /\ eased' = eased
  BY DEF RoundTick, flash, ghost
<1>2. /\ nvs.thirst_level > p.thirst_level => "thirst" \in eased
      /\ \A t \in Told(p) : New(t)
  BY <1>1 DEF AlarmInv, LatchInv, Latches
<1>3. /\ Told(p') \subseteq Told(p) \cup {TheReport(p), Note("contact", 1),
                                          Note("thirst", p.thirst_level + 1)}
  BY RoundTickDoes
<1>4. CASE m \in Told(p)
  BY <1>1, <1>2, <1>3, <1>4 DEF New
<1>5. CASE m \in {TheReport(p), Note("contact", 1)}
  BY <1>5 DEF New, Note, TheReport
<1>6. CASE m = Note("thirst", p.thirst_level + 1)
  <2>1. nvs.thirst_level \in 0..2 /\ p.thirst_level \in 0..2
    BY DEF BaseInv, CoreInv, FlashInv, NvsState, Pk
  <2>2. nvs.thirst_level >= p.thirst_level + 1 => nvs.thirst_level > p.thirst_level
    BY <2>1
  <2>3. QED
    BY <1>1, <1>2, <1>6, <2>2 DEF New, Note
<1>7. QED
  BY <1>3, <1>4, <1>5, <1>6

LEMMA AlarmKeeps == BaseInv /\ AlarmInv /\ [Next]_vars => AlarmInv'
<1> SUFFICES ASSUME BaseInv, AlarmInv, [Next]_vars PROVE AlarmInv'
  OBVIOUS
<1>1. /\ p \in Pk /\ nvs \in NvsState /\ cache \in NvsState
      /\ p.last_report_day >= 0 /\ tg_offset \in Nat
      /\ phase \in Silent => Told(p) = {}
      /\ \A m \in Told(p) : New(m)
      /\ LatchInv
  BY NothingTold DEF BaseInv, CoreInv, FlashInv, WorldInv, AlarmInv
<1>2. ASSUME phase # "off"
      PROVE  /\ Latches
             /\ p.last.valid => /\ p.a_no_water = p.last.no_water
                                /\ p.a_fault = p.last.fault
                                /\ p.last.battery = 0 => p.battery_latch = {}
  BY <1>1, <1>2 DEF LatchInv
<1>3. CASE BootPoll \/ RoundPoll
  BY <1>1, <1>3, PollLatches, PollSaysNew DEF AlarmInv
<1>4. CASE RoundTick
  <2>1. /\ p'.last = p.last /\ p'.last_drink_ts = p.last_drink_ts
        /\ p'.a_no_water = p.a_no_water /\ p'.a_fault = p.a_fault
        /\ p'.battery_latch = p.battery_latch /\ p'.thirst_level >= p.thirst_level
        /\ p' \in Pk
    BY <1>4, RoundTickDoes
  <2>2. phase # "off" /\ nvs' = nvs /\ eased' = eased
    BY <1>4 DEF RoundTick, flash, ghost
  <2>3. nvs.thirst_level \in 0..2 /\ p.thirst_level \in 0..2 /\ p'.thirst_level \in 0..2
    BY <1>1, <2>1 DEF NvsState, Pk
  <2>4. nvs.thirst_level > p'.thirst_level => nvs.thirst_level > p.thirst_level
    BY <2>1, <2>3
  <2>5. LatchInv'
    BY <1>2, <2>1, <2>2, <2>4 DEF LatchInv, Latches
  <2>6. QED
    BY <1>4, <2>5, TickSaysNew DEF AlarmInv
<1>5. CASE WifiDown \/ SendAlarms \/ SendReply
  <2>1. Only(p, p', Queue) /\ p'.msg = <<>>
    BY <1>5, SendDoes
  <2>2. phase # "off" /\ nvs' = nvs /\ eased' = eased
    BY <1>5 DEF WifiDown, SendAlarms, SendReply, flash
  <2>3. LatchInv'
    BY <1>2, <2>1, <2>2, OnlyQueue DEF LatchInv, Latches
  <2>4. Told(p') = {}
    BY <2>1, NothingTold
  <2>5. QED
    BY <2>3, <2>4 DEF AlarmInv, Told
<1>6. CASE TakeCommands
  <2>1. /\ Only(p, p', Queue)
        /\ \A m \in Told(p') : m.kind = "status"
    BY <1>6, TakeDoes
  <2>2. phase = "updates" /\ nvs' = nvs /\ eased' = eased
    BY <1>6 DEF TakeCommands, flash, ghost
  <2>3. LatchInv'
    BY <1>2, <2>1, <2>2, OnlyQueue DEF LatchInv, Latches
  <2>5. \A m \in Told(p') : New(m)'
    BY <2>1 DEF New, Note
  <2>6. QED
    BY <2>3, <2>5 DEF AlarmInv
<1>7. CASE Boot
  <2>1. p' = Restored(now) /\ nvs' = nvs
    BY <1>7 DEF Boot, flash
  <2>2. /\ nvs_visits \in SUBSET Nat /\ now \in Nat /\ Start <= now
    BY DEF BaseInv, FlashInv, WorldInv
  <2>3. /\ p'.last = NoReading /\ p'.msg = <<>>
        /\ p'.thirst_level = nvs.thirst_level
        /\ p'.a_no_water = nvs.a_no_water /\ p'.a_fault = nvs.a_fault
        /\ p'.battery_latch = nvs.battery_latch
    BY <1>1, <2>1, <2>2, RestoredDoes
  <2>4. Told(p') = {}
    BY <2>3, NothingTold
  <2>5. nvs.thirst_level \in 0..2
    BY <1>1 DEF NvsState
  <2>6. ~ (nvs.thirst_level > nvs.thirst_level)
    BY <2>5
  <2>7. LatchInv'
    BY <2>1, <2>3, <2>6 DEF LatchInv, Latches, NoReading
  <2>8. QED
    BY <2>4, <2>7 DEF AlarmInv
<1>8. CASE Crash \/ CrashInSave
  <2>1. phase' = "off" /\ p'.msg = <<>>
    BY <1>8 DEF Crash, CrashInSave, Off, PkInit
  <2>2. Told(p') = {}
    BY <2>1, NothingTold
  <2>3. QED
    BY <2>1, <2>2 DEF AlarmInv, LatchInv
<1>9. CASE SaveState
  <2>1. /\ Saved(nvs')
        /\ "water" \in eased => "water" \in eased' \/ nvs'.a_no_water = p.a_no_water
        /\ "fault" \in eased => "fault" \in eased' \/ nvs'.a_fault = p.a_fault
        /\ "battery" \in eased => "battery" \in eased' \/ nvs'.battery_latch = p.battery_latch
        /\ "thirst" \in eased => "thirst" \in eased' \/ nvs'.thirst_level = p.thirst_level
    BY <1>1, <1>9, SaveDoes
  <2>2. phase = "savestate" /\ p' = p
    BY <1>9 DEF SaveState
  <2>3. Told(p') = {}
    BY <1>1, <2>2 DEF Silent
  <2>4. /\ nvs'.a_no_water => p.a_no_water \/ "water" \in eased'
        /\ nvs'.a_fault => p.a_fault \/ "fault" \in eased'
        /\ nvs'.battery_latch \subseteq p.battery_latch \/ "battery" \in eased'
    BY <1>2, <2>1, <2>2 DEF Saved, Latches
  <2>5. nvs'.thirst_level > p.thirst_level => "thirst" \in eased'
    <3>1. p.thirst_level \in 0..2
      BY <1>1 DEF Pk
    <3>2. ~ (p.thirst_level > p.thirst_level)
      BY <3>1
    <3>3. QED
      BY <1>2, <2>1, <2>2, <3>2 DEF Saved, Latches
  <2>6. QED
    BY <1>2, <2>2, <2>3, <2>4, <2>5 DEF AlarmInv, LatchInv, Latches
<1>10. CASE Elsewhere /\ ~ SaveState
  <2>1. /\ p' = p /\ nvs' = nvs /\ eased' = eased
        /\ phase' # "off" => phase # "off"
    BY <1>10 DEF Elsewhere, ram, vars, flash, ghost, told, WifiUp, DrainOutbox,
                 NoCommands, SaveVisits, Sleep, StayOff, Pass, Drink, AppSync, AskStatus
  <2>2. LatchInv'
    BY <1>2, <2>1 DEF LatchInv, Latches
  <2>3. \A m \in Told(p') : New(m)'
    BY <1>1, <2>1 DEF New
  <2>4. QED
    BY <2>2, <2>3 DEF AlarmInv
<1>11. QED
  BY <1>3, <1>4, <1>5, <1>6, <1>7, <1>8, <1>9, <1>10 DEF Next, Elsewhere

\* No alarm is raised twice, across power cuts and torn or failed saves: one
\* that flash has on record is in the queue again only if the gateway has seen
\* it end (petkit_core.c:286-330, main.c:212-230, pk_nvs.c:59-96).
THEOREM AlarmsOnce == Spec => []AlarmNotRepeated
<1>1. AlarmInv => AlarmNotRepeated
  <2> SUFFICES ASSUME AlarmInv, NEW i \in DOMAIN p.msg PROVE New(p.msg[i])
    BY DEF AlarmNotRepeated, New
  <2>1. p.msg[i] \in Told(p)
    BY DEF Told
  <2>2. QED
    BY <2>1 DEF AlarmInv
<1>2. QED
  BY <1>1, InitBase, BaseKeeps, InitAlarm, AlarmKeeps, PTL DEF Spec

-----------------------------------------------------------------------------
(* Days *)

\* A poll that leaves room in the queue for the report behind all that it can
\* say: six messages, and one for every threshold that its reading crosses and
\* that was not announced before.
FewAtOnce == RoundPoll => 6 + NewThresholds(p, p'.last) < MaxMsg

\* What all the steps below know.
LEMMA DayFacts ==
  ASSUME BaseInv, DayInv
  PROVE  /\ p \in Pk /\ now \in Nat
         /\ p.day_no \in Nat /\ p.last_report_day \in Nat
         /\ nvs.day_no \in Nat /\ nvs.last_report_day \in Nat
         /\ DayOf(now) \in Nat /\ DayOf(now) > 0
         /\ live \subseteq Nat
         /\ phase \in Silent => ReportDays(p.msg) = {} /\ Told(p) = {}
<1>1. /\ p \in Pk /\ now \in Nat /\ Start <= now
      /\ p.day_no \in Nat /\ p.last_report_day \in Nat
      /\ nvs.day_no \in Nat /\ nvs.last_report_day \in Nat
      /\ phase \in Silent => p.msg = <<>>
  <2>1. p \in Pk
    BY DEF BaseInv, CoreInv
  <2>2. phase \in Silent => p.msg = <<>>
    BY DEF BaseInv, CoreInv
  <2>3. now \in Nat /\ Start <= now
    BY DEF BaseInv, WorldInv
  <2>4. nvs \in NvsState
    BY DEF BaseInv, FlashInv
  <2>5. nvs.day_no \in Nat /\ nvs.last_report_day \in Nat
    BY <2>4 DEF NvsState
  <2>6. p.day_no \in Nat
    BY <2>1 DEF Pk
  <2>7. p.last_report_day \in Nat
    <3>1. p.last_report_day >= 0
      BY DEF BaseInv, CoreInv
    <3>2. p.last_report_day \in Nat \cup {-1}
      BY <2>1 DEF Pk
    <3>3. QED
      BY <3>1, <3>2
  <2>8. QED
    BY <2>1, <2>2, <2>3, <2>5, <2>6, <2>7
<1>2. DayOf(now) \in Nat /\ DayOf(now) > 0
  BY <1>1, InitDoes
<1>3. QED
  BY <1>1, <1>2, NothingTold DEF DayInv

LEMMA InitDays == Init => DayInv
<1> SUFFICES ASSUME Init PROVE DayInv
  OBVIOUS
<1>1. /\ phase = "off" /\ live = {} /\ nvs.day_no = 0 /\ nvs.last_report_day = 0
      /\ now \in Nat /\ Start <= now
  BY GatewayConstants DEF Init, NvsEmpty
<1>2. DayOf(now) \in Nat /\ DayOf(now) > 0
  BY <1>1, InitDoes
<1>3. QED
  BY <1>1, <1>2 DEF DayInv, FlashDays, CoreDays, Roomy

\* pk_tick: the day it closes is reported, or was.
LEMMA TickDays ==
  ASSUME BaseInv, DayInv, RoundTick
  PROVE  DayInv'
<1>1. /\ p \in Pk /\ now \in Nat
      /\ p.day_no \in Nat /\ p.last_report_day \in Nat
      /\ nvs.day_no \in Nat /\ nvs.last_report_day \in Nat
      /\ DayOf(now) \in Nat /\ live \subseteq Nat
  BY DayFacts
<1>2. /\ phase = "tick" /\ phase' = "radio" /\ now' = now /\ nvs' = nvs
      /\ live' = live /\ spoken' = spoken
  BY DEF RoundTick, flash, ghost
<1>3. /\ \A d \in live : d < p.day_no \/ d <= p.last_report_day => Due(d)
      /\ nvs.day_no <= p.day_no /\ nvs.last_report_day <= p.last_report_day
      /\ 0 < nvs.day_no /\ nvs.day_no < p.day_no => nvs.day_no <= p.last_report_day
      /\ 0 < p.day_no /\ p.day_no <= DayOf(now) /\ p.last_report_day < DayOf(now)
      /\ p.day_no <= p.last_report_day =>
           /\ p.day_no = nvs.day_no
           /\ nvs.last_report_day = 0 \/ nvs.day_no <= nvs.last_report_day
      /\ Len(p.msg) < MaxMsg
      /\ \A d \in live : d <= nvs.day_no
  BY <1>2 DEF DayInv, CoreDays, FlashDays, Roomy
<1>4. /\ Told(p) \subseteq Told(p')
      /\ \/ p'.day_no = p.day_no /\ p'.last_report_day = p.last_report_day
         \/ /\ p'.day_no = DayOf(now) /\ DayOf(now) # p.day_no
            /\ IF p.last_report_day < p.day_no
               THEN /\ p'.last_report_day = p.day_no
                    /\ Len(p.msg) < MaxMsg => TheReport(p) \in Told(p')
               ELSE p'.last_report_day = p.last_report_day
  BY RoundTickDoes
<1>5. ReportDays(p.msg) \subseteq ReportDays(p'.msg)
  <2>1. /\ ReportDays(p.msg) = {m.arg : m \in {m \in Told(p) : m.kind = "report"}}
        /\ ReportDays(p'.msg) = {m.arg : m \in {m \in Told(p') : m.kind = "report"}}
    BY ReportDaysTold
  <2>2. Told(p) \subseteq Told(p')
    BY <1>4
  <2>3. QED
    BY <2>1, <2>2
<1>6. \A d : Due(d) => Due(d)'
  BY <1>2, <1>5 DEF Due
<1>7. CoreDays'
  <2>1. CASE p'.day_no = p.day_no /\ p'.last_report_day = p.last_report_day
    BY <1>2, <1>3, <1>6, <2>1 DEF CoreDays
  <2>2. CASE /\ p'.day_no = DayOf(now) /\ DayOf(now) # p.day_no
             /\ IF p.last_report_day < p.day_no
                THEN /\ p'.last_report_day = p.day_no
                     /\ Len(p.msg) < MaxMsg => TheReport(p) \in Told(p')
                ELSE p'.last_report_day = p.last_report_day
    <3>1. p.day_no < DayOf(now)
      BY <1>1, <1>3, <2>2
    <3>2. ASSUME p.last_report_day < p.day_no
          PROVE  p.day_no \in ReportDays(p'.msg)
      <4>1. TheReport(p) \in Told(p')
        BY <1>3, <2>2, <3>2
      <4>2. TheReport(p).kind = "report" /\ TheReport(p).arg = p.day_no
        BY DEF TheReport
      <4>3. QED
        BY <4>1, <4>2, ReportDaysTold
    <3>3. \A d \in live : Due(d)'
      <4> TAKE d \in live
      <4>1. d \in Nat /\ d <= p.day_no
        BY <1>1, <1>3
      <4>2. CASE d < p.day_no
        BY <1>3, <1>6, <4>2
      <4>3. CASE d = p.day_no /\ p.last_report_day < p.day_no
        BY <3>2, <4>3 DEF Due
      <4>4. CASE d = p.day_no /\ ~ (p.last_report_day < p.day_no)
        <5>1. d <= p.last_report_day
          BY <1>1, <4>4
        <5>2. QED
          BY <1>3, <1>6, <5>1
      <4>5. QED
        BY <1>1, <4>1, <4>2, <4>3, <4>4
    <3>4. /\ nvs.day_no <= p'.day_no /\ nvs.last_report_day <= p'.last_report_day
          /\ nvs.day_no <= p'.last_report_day
          /\ 0 < p'.day_no /\ p'.day_no <= DayOf(now) /\ p'.last_report_day < DayOf(now)
          /\ ~ (p'.day_no <= p'.last_report_day)
      BY <1>1, <1>3, <2>2, <3>1
    <3>5. QED
      BY <1>2, <3>3, <3>4 DEF CoreDays
  <2>3. QED
    BY <1>4, <2>1, <2>2
<1>8. FlashDays' /\ live' \subseteq Nat /\ Roomy'
  BY <1>1, <1>2 DEF DayInv, FlashDays, Roomy
<1>9. QED
  BY <1>7, <1>8 DEF DayInv

\* A save, whole or torn.
LEMMA SaveDays ==
  ASSUME BaseInv, DayInv, SaveState \/ CrashInSave
  PROVE  DayInv'
<1>1. /\ p \in Pk /\ now \in Nat
      /\ p.day_no \in Nat /\ p.last_report_day \in Nat
      /\ nvs.day_no \in Nat /\ nvs.last_report_day \in Nat
      /\ DayOf(now) \in Nat /\ live \subseteq Nat
      /\ phase \in Silent => ReportDays(p.msg) = {}
  BY DayFacts
<1>2. /\ phase = "savestate" /\ now' = now /\ spoken' = spoken /\ RecordDay
      /\ (phase' = "off" \/ (p' = p /\ phase' = "sleep"))
  BY DEF SaveState, CrashInSave, Off, told
<1>3. \A d : Due(d) <=> d \in spoken
  BY <1>1, <1>2 DEF Due, Silent
<1> DEFINE D == p.day_no
           L == p.last_report_day
           fd == nvs.day_no
           fl == nvs.last_report_day
           now_d == nvs'.day_no
           now_l == nvs'.last_report_day
           today == DayOf(now)
<1>4. /\ \A d \in live : d < D \/ d <= L => d \in spoken
      /\ fd <= D /\ fl <= L
      /\ 0 < fd /\ fd < D => fd <= L
      /\ 0 < D /\ D <= today /\ L < today
      /\ D <= L => D = fd /\ (fl = 0 \/ fd <= fl)
  BY <1>2, <1>3 DEF DayInv, CoreDays
<1>5. /\ \A d \in live : d < fd \/ d <= fl => d \in spoken
      /\ \A d \in live : d <= fd
      /\ 0 < fl /\ fl < fd => fd \in live
      /\ fd = 0 => live = {}
      /\ fl = 0 => live = {}
      /\ fd <= today /\ fl < today
  BY DEF DayInv, FlashDays
<1>6. \/ now_d = fd /\ now_l = fl
      \/ now_d = D /\ now_l = fl
      \/ now_d = fd /\ now_l = L
      \/ now_d = D /\ now_l = L
  <2>1. /\ nvs \in NvsState /\ cache \in NvsState /\ p \in Pk
        /\ p.last_report_day >= 0 /\ tg_offset \in Nat
    BY DEF BaseInv, CoreInv, FlashInv, WorldInv
  <2>2. Saved(nvs')
    BY <2>1, SaveDoes
  <2>3. QED
    BY <2>2 DEF Saved
<1>7. live' = IF 0 < now_l /\ now_l < now_d THEN live \cup {now_d} ELSE live
  BY <1>2 DEF RecordDay
<1>8. D \in Nat /\ L \in Nat /\ fd \in Nat /\ fl \in Nat /\ today \in Nat /\ live \subseteq Nat
  BY <1>1
<1> HIDE DEF D, L, fd, fl, now_d, now_l, today
<1>9. live' \subseteq Nat
  BY <1>6, <1>7, <1>8
<1>10. /\ \A d \in live' : d < now_d \/ d <= now_l => d \in spoken
       /\ \A d \in live' : d <= now_d
       /\ 0 < now_l /\ now_l < now_d => now_d \in live'
       /\ now_d = 0 => live' = {}
       /\ now_l = 0 => live' = {}
       /\ now_d <= today /\ now_l < today
  <2>1. CASE now_d = fd /\ now_l = fl
    BY <1>5, <1>7, <1>8, <2>1
  <2>2. CASE now_d = D /\ now_l = fl
    BY <1>4, <1>5, <1>7, <1>8, <2>2
  <2>3. CASE now_d = D /\ now_l = L
    BY <1>4, <1>5, <1>7, <1>8, <2>3
  <2>4. CASE now_d = fd /\ now_l = L
    BY <1>4, <1>5, <1>7, <1>8, <2>4
  <2>5. QED
    BY <1>6, <2>1, <2>2, <2>3, <2>4
<1>11. /\ \A d \in live' : d < D \/ d <= L => d \in spoken
       /\ now_d <= D /\ now_l <= L
       /\ 0 < now_d /\ now_d < D => now_d <= L
       /\ D <= L => D = now_d /\ (now_l = 0 \/ now_d <= now_l)
  <2>1. CASE now_d = fd /\ now_l = fl
    BY <1>4, <1>5, <1>7, <1>8, <2>1
  <2>2. CASE now_d = D /\ now_l = fl
    BY <1>4, <1>5, <1>7, <1>8, <2>2
  <2>3. CASE now_d = D /\ now_l = L
    BY <1>4, <1>5, <1>7, <1>8, <2>3
  <2>4. CASE now_d = fd /\ now_l = L
    BY <1>4, <1>5, <1>7, <1>8, <2>4
  <2>5. QED
    BY <1>6, <2>1, <2>2, <2>3, <2>4
<1>12. FlashDays'
  BY <1>2, <1>10 DEF FlashDays, now_d, now_l, today
<1>13. CoreDays'
  <2>1. \A d : d \in spoken => Due(d)'
    BY <1>2 DEF Due
  <2>2. CASE phase' = "off"
    BY <2>2 DEF CoreDays
  <2>3. CASE p' = p
    BY <1>2, <1>4, <1>11, <2>1, <2>3 DEF CoreDays, D, L, now_d, now_l, today
  <2>4. QED
    BY <1>2, <2>2, <2>3
<1>14. Roomy'
  BY <1>2 DEF Roomy
<1>15. QED
  BY <1>9, <1>12, <1>13, <1>14 DEF DayInv

\* The board starts on what flash remembers.
LEMMA BootDays ==
  ASSUME BaseInv, DayInv, Boot
  PROVE  DayInv'
<1>1. /\ now \in Nat /\ nvs.day_no \in Nat /\ nvs.last_report_day \in Nat
      /\ DayOf(now) \in Nat /\ DayOf(now) > 0 /\ live \subseteq Nat
  BY DayFacts
<1>2. /\ p' = Restored(now) /\ now' = now /\ nvs' = nvs /\ live' = live /\ spoken' = spoken
      /\ phase' = "boot"
  BY DEF Boot, flash, told
<1>3. /\ nvs \in NvsState /\ nvs_visits \in SUBSET Nat /\ Start <= now
  BY DEF BaseInv, FlashInv, WorldInv
<1>4. /\ p'.day_no = IF nvs.day_no > 0 THEN nvs.day_no ELSE DayOf(now)
      /\ p'.last_report_day = IF nvs.last_report_day > 0
                              THEN nvs.last_report_day ELSE DayOf(now) - 1
  BY <1>1, <1>2, <1>3, RestoredDoes
<1>5. /\ \A d \in live : d < nvs.day_no \/ d <= nvs.last_report_day => d \in spoken
      /\ nvs.day_no = 0 => live = {}
      /\ nvs.last_report_day = 0 => live = {}
      /\ nvs.day_no <= DayOf(now) /\ nvs.last_report_day < DayOf(now)
  BY DEF DayInv, FlashDays
<1>6. \A d \in live : p'.last_report_day = nvs.last_report_day /\ p'.day_no = nvs.day_no
  BY <1>1, <1>4, <1>5
<1>7. \A d \in live : d < p'.day_no \/ d <= p'.last_report_day => Due(d)'
  BY <1>2, <1>5, <1>6 DEF Due
<1>8. /\ nvs.day_no <= p'.day_no /\ nvs.last_report_day <= p'.last_report_day
      /\ ~ (0 < nvs.day_no /\ nvs.day_no < p'.day_no)
      /\ 0 < p'.day_no /\ p'.day_no <= DayOf(now) /\ p'.last_report_day < DayOf(now)
      /\ p'.day_no <= p'.last_report_day =>
           /\ p'.day_no = nvs.day_no
           /\ nvs.last_report_day = 0 \/ nvs.day_no <= nvs.last_report_day
  BY <1>1, <1>4, <1>5
<1>9. QED
  BY <1>1, <1>2, <1>7, <1>8 DEF DayInv, CoreDays, FlashDays, Roomy

\* The steps that leave the days of the core and of flash alone: none lets a
\* report fall out of the queue unspoken.
LEMMA OtherDays ==
  ASSUME BaseInv, DayInv, now' \in Nat, now <= now',
         nvs' = nvs, live' = live, spoken \subseteq spoken',
         \/ phase' = "off"
         \/ /\ phase # "off"
            /\ p'.day_no = p.day_no /\ p'.last_report_day = p.last_report_day
            /\ ReportDays(p.msg) \subseteq ReportDays(p'.msg) \cup spoken',
         Roomy'
  PROVE  DayInv'
<1>1. /\ now \in Nat /\ p.day_no \in Nat /\ p.last_report_day \in Nat
      /\ nvs.day_no \in Nat /\ nvs.last_report_day \in Nat /\ live \subseteq Nat
  BY DayFacts
<1>2. DayOf(now) \in Nat /\ DayOf(now') \in Nat /\ DayOf(now) <= DayOf(now')
  BY <1>1, DaysGoOn
<1>3. FlashDays'
  BY <1>1, <1>2 DEF DayInv, FlashDays
<1>4. CoreDays'
  <2>1. CASE phase' = "off"
    BY <2>1 DEF CoreDays
  <2>2. CASE /\ phase # "off"
             /\ p'.day_no = p.day_no /\ p'.last_report_day = p.last_report_day
             /\ ReportDays(p.msg) \subseteq ReportDays(p'.msg) \cup spoken'
    <3>1. \A d : Due(d) => Due(d)'
      BY <2>2 DEF Due
    <3>2. QED
      BY <1>1, <1>2, <2>2, <3>1 DEF DayInv, CoreDays
  <2>3. QED
    BY <2>1, <2>2
<1>5. QED
  BY <1>1, <1>3, <1>4 DEF DayInv

LEMMA DaysKeep == BaseInv /\ DayInv /\ Roomy' /\ [Next]_vars => DayInv'
<1> SUFFICES ASSUME BaseInv, DayInv, Roomy', [Next]_vars PROVE DayInv'
  OBVIOUS
<1>1. now' \in Nat /\ now <= now'
  BY TimePasses
<1>2. p \in Pk /\ (phase \in Silent => ReportDays(p.msg) = {}) /\ MaxMsg \in Nat
  BY DayFacts, Constants
<1>3. CASE BootPoll \/ RoundPoll
  <2>1. /\ p' \in Pk /\ p'.day_no = p.day_no /\ p'.last_report_day = p.last_report_day
    BY <1>3, PollDoes
  <2>2. /\ phase \in Silent /\ phase # "off" /\ nvs' = nvs /\ live' = live /\ spoken' = spoken
    BY <1>3 DEF BootPoll, RoundPoll, flash, told, Silent
  <2>3. QED
    BY <1>1, <1>2, <2>1, <2>2, OtherDays
<1>4. CASE RoundTick
  BY <1>4, TickDays
<1>5. CASE SaveState \/ CrashInSave
  BY <1>5, SaveDays
<1>6. CASE Boot
  BY <1>6, BootDays
<1>7. CASE Crash
  <2>1. nvs' = nvs /\ live' = live /\ spoken' = spoken /\ phase' = "off"
    BY <1>7 DEF Crash, Off, flash
  <2>2. QED
    BY <1>1, <2>1, OtherDays DEF Roomy
<1>8. CASE WifiDown \/ SendAlarms \/ SendReply
  <2>1. Only(p, p', Queue) /\ spoken' = spoken \cup ReportDays(p.msg)
    BY <1>8, SendDoes
  <2>2. nvs' = nvs /\ live' = live /\ phase # "off" /\ phase' # "tick"
    BY <1>8 DEF WifiDown, SendAlarms, SendReply, flash
  <2>3. QED
    BY <1>1, <2>1, <2>2, OnlyQueue, OtherDays DEF Roomy
<1>9. CASE TakeCommands
  <2>1. Only(p, p', Queue)
    BY <1>9, TakeDoes
  <2>2. /\ nvs' = nvs /\ live' = live /\ spoken' = spoken
        /\ phase = "updates" /\ phase' = "reply"
    BY <1>9 DEF TakeCommands, flash, ghost
  <2>3. QED
    BY <1>1, <1>2, <2>1, <2>2, OnlyQueue, OtherDays DEF Roomy, Silent
<1>10. CASE Elsewhere /\ ~ SaveState
  <2>1. /\ p' = p /\ nvs' = nvs /\ live' = live /\ spoken' = spoken
        /\ phase' # "off" => phase # "off"
        /\ phase' = "tick" => phase = "tick"
    BY <1>10 DEF Elsewhere, ram, vars, flash, ghost, told, WifiUp, DrainOutbox,
                 NoCommands, SaveVisits, Sleep, StayOff, Pass, Drink, AppSync, AskStatus
  <2>2. QED
    BY <1>1, <2>1, OtherDays
<1>11. QED
  BY <1>3, <1>4, <1>5, <1>6, <1>7, <1>8, <1>9, <1>10 DEF Next, Elsewhere

\* No report is skipped: a day that flash once held as the running one, beside
\* an earlier one last reported, and holds no longer was reported before the
\* save that says so, in whatever order the power failed (petkit_core.c:840-867,
\* main.c:385-397), while no poll fills the queue (PK_MAX_MSG) before the tick
\* that writes the report.
THEOREM ReportsInTurn == Spec /\ []Roomy => []ReportsNotSkipped
<1>1. DayInv => ReportsNotSkipped
  BY DEF DayInv, FlashDays, ReportsNotSkipped
<1>2. BaseInv /\ DayInv /\ Roomy' /\ [Next]_vars => DayInv'
  BY DaysKeep
<1>3. QED
  BY <1>1, <1>2, InitBase, BaseKeeps, InitDays, PTL DEF Spec

\* A poll fills the queue only if it has more to say than there is room for.
LEMMA RoomKeeps == BaseInv /\ Roomy /\ [Next]_vars /\ [FewAtOnce]_vars => Roomy'
<1> SUFFICES ASSUME BaseInv, Roomy, [Next]_vars, [FewAtOnce]_vars PROVE Roomy'
  OBVIOUS
<1>1. MaxMsg \in Nat
  BY Constants
<1>2. CASE BootPoll \/ RoundPoll
  <2>1. /\ p' \in Pk
        /\ Len(p'.msg) <= 6 + NewThresholds(p, p'.last)
    BY <1>2, PollDoes
  <2>2. Len(p'.msg) \in Nat /\ NewThresholds(p, p'.last) \in Nat
    <3>1. p \in Pk /\ p'.last \in PkState /\ p'.msg \in Seq(Msg)
      BY <2>1 DEF BaseInv, CoreInv, Pk
    <3>2. QED
      BY <3>1, LenProperties, NewThresholdsFew
  <2>3. CASE BootPoll
    <3>1. phase' # "tick"
      BY <2>3 DEF BootPoll
    <3>2. QED
      BY <3>1 DEF Roomy
  <2>4. CASE RoundPoll
    <3>1. vars' # vars
      BY <2>4 DEF RoundPoll, vars, ram
    <3>2. 6 + NewThresholds(p, p'.last) < MaxMsg
      BY <2>4, <3>1 DEF FewAtOnce
    <3>3. QED
      BY <1>1, <2>1, <2>2, <3>2 DEF Roomy
  <2>5. QED
    BY <1>2, <2>3, <2>4
<1>3. CASE RoundTick \/ SaveState \/ CrashInSave \/ Boot \/ Crash
  BY <1>3 DEF RoundTick, SaveState, CrashInSave, Boot, Crash, Off, Roomy
<1>4. CASE WifiDown \/ SendAlarms \/ SendReply \/ TakeCommands
  BY <1>4 DEF WifiDown, SendAlarms, SendReply, TakeCommands, Roomy
<1>5. CASE Elsewhere /\ ~ SaveState
  <2>1. /\ p' = p
        /\ phase' = "tick" => phase = "tick"
    BY <1>5 DEF Elsewhere, ram, vars, flash, ghost, told, WifiUp, DrainOutbox,
                 NoCommands, SaveVisits, Sleep, StayOff, Pass, Drink, AppSync, AskStatus
  <2>2. QED
    BY <2>1 DEF Roomy
<1>6. QED
  BY <1>2, <1>3, <1>4, <1>5 DEF Next, Elsewhere

\* No report is skipped (ReportsNotSkipped, above) while no single poll crosses
\* more thresholds for the first time than the queue has places for beside the
\* six other messages a poll can write: with the code's eight places
\* (PK_MAX_MSG), while no two of the fountain's six thresholds (three of the
\* battery, three of the filter; petkit_core.c:286-306) are first crossed between
\* two answered polls. How low the gauges are does not matter, and neither do
\* restarts, failed saves or the app.
THEOREM ReportsWithRoom == Spec /\ [][FewAtOnce]_vars => []ReportsNotSkipped
<1>1. Init => Roomy
  BY InitDays DEF DayInv
<1>2. BaseInv /\ Roomy /\ [Next]_vars /\ [FewAtOnce]_vars => Roomy'
  BY RoomKeeps
<1>3. Spec /\ [][FewAtOnce]_vars => []Roomy
  BY <1>1, <1>2, InitBase, BaseKeeps, PTL DEF Spec
<1>4. QED
  BY <1>3, ReportsInTurn, PTL

-----------------------------------------------------------------------------
(* Visits *)

\* What the steps below know of the sets of visits.
VisitFacts ==
  /\ now \in Nat /\ drinks \subseteq 0..now
  /\ p.visit \subseteq drinks /\ nvs_visits \subseteq drinks
  /\ buf \subseteq drinks /\ gone \subseteq drinks
  /\ p.last_ok_ts <= now /\ p.last_ok_ts \in Nat

LEMMA BaseVisits == BaseInv => VisitFacts
BY DEF BaseInv, CoreInv, WorldInv, FlashInv, VisitFacts, Pk

\* What is recent later is recent now.
LEMMA RecentShrinks ==
  ASSUME VisitFacts, now' \in Nat, now <= now', NEW v \in drinks, v + 2 * DaySec >= now'
  PROVE  v + 2 * DaySec >= now
<1>1. v \in Nat /\ 2 * DaySec \in Nat /\ now \in Nat
  BY Constants DEF VisitFacts
<1>2. QED
  BY <1>1

LEMMA InitVisits == Init => VisitInv
BY DEF Init, VisitInv, Recent, ReportCompleteAfterRestart

\* A poll keeps what can still matter, and one that read everything knows all
\* of it.
LEMMA PollVisits ==
  ASSUME BaseInv, VisitInv, FewDrinks, BootPoll \/ RoundPoll
  PROVE  VisitInv'
<1>1. VisitFacts
  BY BaseVisits
<1>2. /\ phase \in {"boot", "poll"} /\ now' = now /\ drinks' = drinks /\ gone' = gone
      /\ buf' = buf /\ nvs_visits' = nvs_visits /\ kept' = kept
      /\ phase' = IF phase = "boot" THEN "bootsave" ELSE "tick"
  BY DEF BootPoll, RoundPoll, cat, flash
<1>3. /\ kept \subseteq drinks
      /\ Recent(kept) \subseteq nvs_visits
      /\ Recent(nvs_visits) \subseteq p.visit
      /\ Recent(drinks \ gone) \subseteq buf \cup nvs_visits
      /\ phase = "poll" => p.last_ok_ts < now
  BY <1>2 DEF VisitInv
<1>4. /\ \/ p' = p
         \/ \E s \in Readings, fresh \in SUBSET buf : Answered(s, fresh)
      /\ \E level \in Nat : Told(p') \subseteq PollNotes(p) \cup {Note("thirst", level)}
  BY PollDoes
<1>5. \A m \in Told(p') : m.kind # "report"
  BY <1>4 DEF PollNotes, CriticalNotes, GaugeNotes, Note
<1>6. ASSUME NEW s \in Readings, NEW fresh \in SUBSET buf, Answered(s, fresh)
      PROVE  /\ Recent(p.visit \cup fresh) \subseteq p'.visit
             /\ p'.hist_short_streak = 0 => fresh = buf
  <2>1. Cardinality({v \in drinks : v + 2 * DaySec >= now}) < MaxVisits
    BY DEF FewDrinks, Recent
  <2>2. {v \in p.visit \cup fresh : v + 2 * DaySec >= now} \subseteq AddVisits(p.visit, fresh)
    <3>1. /\ now \in Nat /\ drinks \in SUBSET (0..now)
          /\ p.visit \in SUBSET drinks /\ fresh \in SUBSET drinks
      BY <1>1 DEF VisitFacts
    <3>2. QED
      BY <2>1, <3>1, RecentStay
  <2>3. QED
    BY <1>6, <2>2 DEF Answered, Recent
<1>7. Recent(nvs_visits) \subseteq p'.visit
  BY <1>3, <1>4, <1>6 DEF Recent
<1>8. phase = "poll" /\ ReadAll' => Recent(drinks \ gone) \subseteq p'.visit
  <2>1. CASE p' = p
    BY <1>1, <1>2, <1>3, <2>1 DEF ReadAll, VisitFacts
  <2>2. ASSUME NEW s \in Readings, NEW fresh \in SUBSET buf, Answered(s, fresh),
               p'.hist_short_streak = 0
        PROVE  Recent(drinks \ gone) \subseteq p'.visit
    BY <1>3, <1>6, <2>2 DEF Recent
  <2>3. QED
    BY <1>4, <2>1, <2>2 DEF ReadAll
<1>9. QED
  BY <1>2, <1>3, <1>5, <1>7, <1>8 DEF VisitInv, Recent, ReportCompleteAfterRestart

\* The report is written from a list that holds everything it should.
LEMMA TickVisits ==
  ASSUME BaseInv, VisitInv, RoundTick
  PROVE  VisitInv'
<1>1. VisitFacts
  BY BaseVisits
<1>2. /\ phase = "tick" /\ phase' = "radio"
      /\ now' = now /\ drinks' = drinks /\ gone' = gone
      /\ buf' = buf /\ nvs_visits' = nvs_visits /\ kept' = kept
  BY DEF RoundTick, cat, flash, ghost
<1>3. /\ kept \subseteq drinks
      /\ Recent(kept) \subseteq nvs_visits
      /\ Recent(nvs_visits) \subseteq p.visit
      /\ Recent(drinks \ gone) \subseteq buf \cup nvs_visits
      /\ \A m \in Told(p) : m.kind # "report"
      /\ ReadAll => Recent(drinks \ gone) \subseteq p.visit
  BY <1>2 DEF VisitInv
<1>4. /\ p'.hist_short_streak = p.hist_short_streak /\ p'.last_ok_ts = p.last_ok_ts
      /\ Recent(p.visit) \subseteq p'.visit
      /\ Told(p') \subseteq Told(p) \cup {TheReport(p), Note("contact", 1),
                                          Note("thirst", p.thirst_level + 1)}
  BY RoundTickDoes
<1>5. Recent(nvs_visits) \subseteq p'.visit
  BY <1>3, <1>4 DEF Recent
<1>6. ReportCompleteAfterRestart'
  <2> SUFFICES ASSUME ReadAll, NEW i \in DOMAIN p'.msg, p'.msg[i].kind = "report"
               PROVE  /\ p'.msg[i].drinks \subseteq {d \in drinks : DayOf(d) = p'.msg[i].arg}
                      /\ {d \in drinks \ gone : DayOf(d) = p'.msg[i].arg
                                                /\ d + 2 * DaySec >= now}
                           \subseteq p'.msg[i].drinks
    BY <1>2, <1>4 DEF ReportCompleteAfterRestart, ReadAll
  <2>1. p'.msg[i] \in Told(p')
    BY DEF Told
  <2>2. p'.msg[i] = TheReport(p)
    BY <1>3, <1>4, <2>1 DEF Note
  <2>3. p'.msg[i].arg = p.day_no /\ p'.msg[i].drinks = {v \in p.visit : DayOf(v) = p.day_no}
    BY <2>2 DEF TheReport, DrinksOn
  <2>4. Recent(drinks \ gone) \subseteq p.visit /\ p.visit \subseteq drinks
    BY <1>1, <1>3 DEF VisitFacts
  <2>5. QED
    BY <2>3, <2>4 DEF Recent
<1>7. QED
  BY <1>2, <1>3, <1>5, <1>6 DEF VisitInv, Recent

LEMMA VisitsKeep == BaseInv /\ VisitInv /\ FewDrinks /\ [Next]_vars => VisitInv'
<1> SUFFICES ASSUME BaseInv, VisitInv, FewDrinks, [Next]_vars PROVE VisitInv'
  OBVIOUS
<1>1. VisitFacts /\ p \in Pk
  BY BaseVisits DEF BaseInv, CoreInv
<1>2. /\ kept \subseteq drinks
      /\ Recent(kept) \subseteq nvs_visits
      /\ phase # "off" => Recent(nvs_visits) \subseteq p.visit
      /\ Recent(drinks \ gone) \subseteq buf \cup nvs_visits
      /\ phase = "poll" => p.last_ok_ts < now
      /\ phase = "tick" => \A m \in Told(p) : m.kind # "report"
      /\ phase = "tick" /\ ReadAll => Recent(drinks \ gone) \subseteq p.visit
  BY DEF VisitInv
<1>3. CASE BootPoll \/ RoundPoll
  BY <1>3, PollVisits
<1>4. CASE RoundTick
  BY <1>4, TickVisits
<1>5. CASE Boot
  <2>1. /\ nvs \in NvsState /\ nvs_visits \in SUBSET Nat /\ now \in Nat /\ Start <= now
    BY DEF BaseInv, FlashInv, WorldInv
  <2>2. p'.visit = nvs_visits /\ phase' = "boot" /\ now' = now /\ drinks' = drinks
        /\ gone' = gone /\ buf' = buf /\ nvs_visits' = nvs_visits /\ kept' = kept
    BY <1>5, <2>1, RestoredDoes DEF Boot, flash, cat
  <2>3. QED
    BY <1>2, <2>2 DEF VisitInv, Recent, ReportCompleteAfterRestart
<1>6. CASE Crash \/ CrashInSave
  <2>1. phase' = "off" /\ now' = now /\ drinks' = drinks
        /\ gone' = gone /\ buf' = buf /\ nvs_visits' = nvs_visits /\ kept' = kept
    BY <1>6 DEF Crash, CrashInSave, Off, flash, cat
  <2>2. QED
    BY <1>2, <2>1 DEF VisitInv, Recent, ReportCompleteAfterRestart
<1>7. CASE WifiDown \/ SendAlarms \/ SendReply \/ TakeCommands
  <2>1. p'.visit = p.visit
    <3>1. Only(p, p', Queue)
      BY <1>7, SendDoes, TakeDoes
    <3>2. QED
      BY <3>1, OnlyQueue
  <2>2. /\ phase # "off" /\ phase' \in {"updates", "savevisits", "reply"}
        /\ now' = now /\ drinks' = drinks
        /\ gone' = gone /\ buf' = buf /\ nvs_visits' = nvs_visits /\ kept' = kept
    BY <1>7 DEF WifiDown, SendAlarms, SendReply, TakeCommands, flash, cat, ghost
  <2>3. QED
    BY <1>2, <2>1, <2>2 DEF VisitInv, Recent, ReportCompleteAfterRestart
<1>8. CASE SaveVisits
  <2>1. /\ phase # "off" /\ phase' \in {"sleep", "savestate"} /\ p' = p
        /\ now' = now /\ drinks' = drinks /\ gone' = gone /\ buf' = buf
        /\ \/ nvs_visits' = p.visit /\ kept' = kept \cup p.visit
           \/ nvs_visits' = nvs_visits /\ kept' = kept
    BY <1>8 DEF SaveVisits, ram, cat
  <2>2. QED
    BY <1>1, <1>2, <2>1 DEF VisitInv, Recent, ReportCompleteAfterRestart, VisitFacts
<1>9. CASE WifiUp \/ DrainOutbox \/ NoCommands \/ SaveState
  <2>1. /\ phase # "off" /\ phase' \in {"outbox", "send", "savevisits", "sleep"} /\ p' = p
        /\ now' = now /\ drinks' = drinks /\ gone' = gone /\ buf' = buf
        /\ nvs_visits' = nvs_visits /\ kept' = kept
    BY <1>9 DEF WifiUp, DrainOutbox, NoCommands, SaveState, ram, cat, flash, ghost
  <2>2. QED
    BY <1>2, <2>1 DEF VisitInv, Recent, ReportCompleteAfterRestart
<1>10. CASE Sleep \/ StayOff
  <2>1. /\ (phase' = "off" /\ phase = "off") \/ (phase' = "poll" /\ phase = "sleep")
        /\ phase' = "poll" => now' = now + PollSec
        /\ p' = p /\ drinks' = drinks /\ gone' = gone /\ buf' = buf
        /\ nvs_visits' = nvs_visits /\ kept' = kept
    BY <1>10 DEF Sleep, StayOff, Pass, ram, cat, flash, ghost
  <2>2. now' \in Nat /\ now <= now'
    BY TimePasses
  <2>3. ASSUME NEW v \in drinks, v + 2 * DaySec >= now'
        PROVE  v + 2 * DaySec >= now
    BY <1>1, <2>2, <2>3, RecentShrinks
  <2>4. phase' = "poll" => p'.last_ok_ts < now'
    BY <1>1, <2>1, GatewayConstants DEF VisitFacts
  <2>5. /\ Recent(kept)' \subseteq Recent(kept)
        /\ Recent(nvs_visits)' \subseteq Recent(nvs_visits)
        /\ Recent(drinks \ gone)' \subseteq Recent(drinks \ gone)
    BY <1>1, <1>2, <2>1, <2>3 DEF Recent, VisitFacts
  <2>6. QED
    BY <1>2, <2>1, <2>4, <2>5 DEF VisitInv, ReportCompleteAfterRestart
<1>11. CASE Drink
  <2>1. /\ phase \in {"sleep", "off"} /\ phase' = phase /\ p' = p /\ now' = now
        /\ drinks' = drinks \cup {now} /\ buf' = buf \cup {now} /\ gone' = gone
        /\ nvs_visits' = nvs_visits /\ kept' = kept
    BY <1>11 DEF Drink, Quiet, ram, flash, ghost
  <2>2. QED
    BY <1>2, <2>1 DEF VisitInv, Recent, ReportCompleteAfterRestart
<1>12. CASE AppSync
  <2>1. /\ phase \in {"sleep", "off"} /\ phase' = phase /\ p' = p /\ now' = now
        /\ drinks' = drinks /\ buf' = {} /\ gone' = gone \cup (buf \ nvs_visits)
        /\ nvs_visits' = nvs_visits /\ kept' = kept
    BY <1>12 DEF AppSync, Quiet, ram, flash, ghost
  <2>2. QED
    BY <1>2, <2>1 DEF VisitInv, Recent, ReportCompleteAfterRestart
<1>13. CASE AskStatus
  <2>1. /\ phase \in {"sleep", "off"} /\ phase' = phase /\ p' = p /\ now' = now
        /\ drinks' = drinks /\ buf' = buf /\ gone' = gone
        /\ nvs_visits' = nvs_visits /\ kept' = kept
    BY <1>13 DEF AskStatus, Quiet, ram, flash, ghost, cat
  <2>2. QED
    BY <1>2, <2>1 DEF VisitInv, Recent, ReportCompleteAfterRestart
<1>14. CASE UNCHANGED vars
  BY <1>14 DEF vars, VisitInv, Recent, ReadAll, ReportCompleteAfterRestart, Told
<1>15. QED
  BY <1>3, <1>4, <1>5, <1>6, <1>7, <1>8, <1>9, <1>10, <1>11, <1>12, <1>13, <1>14 DEF Next

LEMMA VisitsAlways == Spec /\ []FewDrinks => []VisitInv
BY InitBase, BaseKeeps, InitVisits, VisitsKeep, PTL DEF Spec

\* A record that reached flash stays there for the two days it can matter, while
\* the cat drinks less than PK_MAX_VISITS times in two days
\* (pk_nvs.c:104-136, petkit_core.c:239-282).
THEOREM VisitsStay == Spec /\ []FewDrinks => []VisitsDurable
<1>1. VisitInv => VisitsDurable
  BY DEF VisitInv, VisitsDurable, Recent
<1>2. QED
  BY <1>1, VisitsAlways, PTL

\* A report written in a round that read the whole history has every visit of
\* its day that is not older than two days, whatever power cuts, failed saves
\* and phone apps came before (petkit_core.c:461-484, 526-609), while the cat drinks
\* less than PK_MAX_VISITS times in two days.
THEOREM ReportsComplete == Spec /\ []FewDrinks => []ReportCompleteAfterRestart
<1>1. VisitInv => ReportCompleteAfterRestart
  BY DEF VisitInv
<1>2. QED
  BY <1>1, VisitsAlways, PTL

=============================================================================
