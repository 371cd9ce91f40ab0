--------------------------- MODULE PetkitCore_proofs ---------------------------
(***************************************************************************)
(* What every function of the core does to pk_t: it keeps its type, and it *)
(* moves the visit list, last_drink_ts and thirst_level only where the C   *)
(* code says so.                                                           *)
(***************************************************************************)
EXTENDS PetkitCore, SequenceTheorems, FiniteSetTheorems, WellFoundedInduction, TLAPS

USE DEF Time

\* What the proofs use of the constants.
LEMMA Constants ==
  /\ DaySec \in Nat /\ DaySec > 0
  /\ SettleSec \in Nat /\ PollSec \in Nat /\ RecordLag \in Nat
  /\ ThirstSec \in Nat /\ EscalateSec \in Nat /\ UnreachableSec \in Nat
  /\ MaxVisits \in Nat /\ MaxMsg \in Nat
  /\ StreakMax \in Nat /\ StreakMax >= 3
BY CoreAssumption DEF CoreAssumption

\* q differs from p in nothing the thirst alarm looks back at.
SameDrinks(p, q) ==
  /\ q.visit = p.visit
  /\ q.last_drink_ts = p.last_drink_ts

SameThirst(p, q) == SameDrinks(p, q) /\ q.thirst_level = p.thirst_level

Fields == {"last", "visit", "last_drink_ts", "baseline_ready", "hist_short_streak",
           "a_hist_blind", "day_hist_short", "a_no_water", "a_fault", "thirst_level",
           "battery_latch", "filter_latch", "unreachable", "last_ok_ts", "day_messages",
           "day_no", "last_report_day", "msg"}

\* q differs from p in the fields of F at most.
Only(p, q, F) == \A f \in Fields \ F : q[f] = p[f]

\* The messages that wait in the queue.
Told(p) == {p.msg[i] : i \in DOMAIN p.msg}

\* Between p and q, at most n messages were queued, all of M; none was lost.
Says(p, q, M, n) ==
  /\ Told(p) \subseteq Told(q)
  /\ Told(q) \subseteq Told(p) \cup M
  /\ Len(q.msg) <= Len(p.msg) + n

-----------------------------------------------------------------------------
(* The queue *)

\* A message with no facts attached has the type of a message.
LEMMA NoteType ==
  ASSUME NEW kind \in Problems \cup {"battery", "filter", "report", "status"},
         NEW arg \in Nat
  PROVE  Note(kind, arg) \in Msg
BY DEF Note, Msg

\* msg_out never writes behind the end of the queue.
LEMMA QueueFits ==
  ASSUME NEW q \in Seq(Msg), Len(q) <= MaxMsg, NEW ms \in Seq(Msg)
  PROVE  LET room == MaxMsg - Len(q)
             n    == IF Len(ms) <= room THEN Len(ms) ELSE room
         IN  /\ n \in Nat
             /\ q \o SubSeq(ms, 1, n) \in {x \in Seq(Msg) : Len(x) <= MaxMsg}
<1> DEFINE room == MaxMsg - Len(q)
           n == IF Len(ms) <= room THEN Len(ms) ELSE room
<1>1. Len(q) \in Nat /\ Len(ms) \in Nat /\ MaxMsg \in Nat
  BY LenProperties, Constants
<1>2. n \in Nat /\ n <= room /\ n <= Len(ms)
  BY <1>1
<1>3. \A i \in 1..n : ms[i] \in Msg
  BY <1>1, <1>2, ElementOfSeq
<1> HIDE DEF n
<1>4. SubSeq(ms, 1, n) \in Seq(Msg) /\ Len(SubSeq(ms, 1, n)) = n
  <2>1. 1 \in Int /\ n \in Int
    BY <1>2
  <2>2. /\ SubSeq(ms, 1, n) \in Seq(Msg)
        /\ Len(SubSeq(ms, 1, n)) = IF 1 <= n THEN n - 1 + 1 ELSE 0
    BY <1>3, <2>1, SubSeqProperties
  <2> QED
    BY <2>2, <1>2
<1>5. /\ q \o SubSeq(ms, 1, n) \in Seq(Msg)
      /\ Len(q \o SubSeq(ms, 1, n)) = Len(q) + n
  BY <1>4, ConcatProperties
<1>6. Len(q) + n <= MaxMsg
  BY <1>1, <1>2
<1> QED
  BY <1>2, <1>5, <1>6 DEF n

\* It touches no field but the queue and the counter of alerts.
LEMMA SayAllType ==
  ASSUME NEW p \in Pk, NEW ms \in Seq(Msg)
  PROVE  SayAll(p, ms) \in Pk /\ SameThirst(p, SayAll(p, ms))
<1> DEFINE room == MaxMsg - Len(p.msg)
           n == IF Len(ms) <= room THEN Len(ms) ELSE room
<1>1. p.msg \in Seq(Msg) /\ Len(p.msg) <= MaxMsg /\ p.day_messages \in Nat
  BY DEF Pk
<1>2. /\ n \in Nat
      /\ p.msg \o SubSeq(ms, 1, n) \in {x \in Seq(Msg) : Len(x) <= MaxMsg}
  BY <1>1, QueueFits
<1>3. SayAll(p, ms) = [p EXCEPT !.msg = p.msg \o SubSeq(ms, 1, n),
                                !.day_messages = p.day_messages + n]
  BY DEF SayAll
<1>4. p.day_messages + n \in Nat
  BY <1>1, <1>2
<1> QED
  BY <1>2, <1>3, <1>4, ZenonT(30) DEF Pk, SameThirst, SameDrinks

\* One message: the same, for msg_out of a single message.
LEMMA SayType ==
  ASSUME NEW p \in Pk, NEW m \in Msg
  PROVE  Say(p, m) \in Pk /\ SameThirst(p, Say(p, m))
<1>1. <<m>> \in Seq(Msg)
  OBVIOUS
<1> QED
  BY <1>1, SayAllType DEF Say

\* A reply does not count as an alert.
LEMMA ReplyType ==
  ASSUME NEW p \in Pk, NEW m \in Msg
  PROVE  Reply(p, m) \in Pk /\ SameThirst(p, Reply(p, m))
<1>1. Say(p, m) \in Pk /\ SameThirst(p, Say(p, m))
  BY SayType
<1>2. p.day_messages \in Nat
  BY DEF Pk
<1> HIDE DEF Say
<1> QED
  BY <1>1, <1>2 DEF Reply, Pk, SameThirst, SameDrinks

\* The queue is emptied, and the start-up alarms are taken off the counter
\* without making it negative.
LEMMA ClearType ==
  ASSUME NEW p \in Pk
  PROVE  /\ MsgClear(p) \in Pk /\ SameThirst(p, MsgClear(p))
         /\ MsgDrop(p) \in Pk /\ SameThirst(p, MsgDrop(p))
<1>1. <<>> \in {x \in Seq(Msg) : Len(x) <= MaxMsg}
  BY EmptySeq, Constants
<1>2. p.day_messages \in Nat /\ Len(p.msg) \in Nat
  BY LenProperties DEF Pk
<1>3. (IF p.day_messages > Len(p.msg)
       THEN p.day_messages - Len(p.msg) ELSE 0) \in Nat
  <2> DEFINE d == p.day_messages
             l == Len(p.msg)
  <2>1. d \in Nat /\ l \in Nat
    BY <1>2
  <2> HIDE DEF d, l
  <2>2. (IF d > l THEN d - l ELSE 0) \in Nat
    BY <2>1
  <2> QED
    BY <2>2 DEF d, l
<1>4. MsgClear(p) \in Pk /\ SameThirst(p, MsgClear(p))
  BY <1>1 DEF MsgClear, Pk, SameThirst, SameDrinks
<1>5. MsgDrop(p) \in Pk /\ SameThirst(p, MsgDrop(p))
  BY <1>1, <1>3 DEF MsgDrop, Pk, SameThirst, SameDrinks
<1> QED
  BY <1>4, <1>5

-----------------------------------------------------------------------------
(* The alarm engine *)

\* A latch alarm queues at most one message.
LEMMA EdgeType ==
  ASSUME NEW p \in Pk, NEW kind \in Problems, NEW latched \in BOOLEAN,
         NEW holds \in BOOLEAN
  PROVE  Edge(p, kind, latched, holds) \in Pk
         /\ SameThirst(p, Edge(p, kind, latched, holds))
<1>1. Note(kind, IF holds THEN 1 ELSE 0) \in Msg
  BY NoteType
<1>2. Say(p, Note(kind, IF holds THEN 1 ELSE 0)) \in Pk
      /\ SameThirst(p, Say(p, Note(kind, IF holds THEN 1 ELSE 0)))
  BY <1>1, SayType
<1> QED
  BY <1>2 DEF Edge, SameThirst, SameDrinks

\* The water and the fault alarm queue at most two messages and change only
\* their latches.
LEMMA CheckCriticalType ==
  ASSUME NEW p \in Pk
  PROVE  CheckCritical(p) \in Pk /\ SameThirst(p, CheckCritical(p))
<1>1. ASSUME NEW q \in Pk
      PROVE  CheckWater(q) \in Pk /\ SameThirst(q, CheckWater(q))
  <2>1. q.a_no_water \in BOOLEAN /\ q.last.no_water \in BOOLEAN
    BY DEF Pk, PkState
  <2>2. "water" \in Problems
    BY DEF Problems
  <2> DEFINE e == Edge(q, "water", q.a_no_water, q.last.no_water)
  <2>3. e \in Pk /\ SameThirst(q, e)
    BY <2>1, <2>2, EdgeType
  <2>4. CheckWater(q) = [e EXCEPT !.a_no_water = q.last.no_water]
    BY DEF CheckWater
  <2> HIDE DEF e
  <2> QED
    BY <2>1, <2>3, <2>4 DEF Pk, SameThirst, SameDrinks
<1>2. ASSUME NEW q \in Pk
      PROVE  CheckFault(q) \in Pk /\ SameThirst(q, CheckFault(q))
  <2>1. q.a_fault \in BOOLEAN /\ q.last.fault \in BOOLEAN
    BY DEF Pk, PkState
  <2>2. "fault" \in Problems
    BY DEF Problems
  <2> DEFINE e == Edge(q, "fault", q.a_fault, q.last.fault)
  <2>3. e \in Pk /\ SameThirst(q, e)
    BY <2>1, <2>2, EdgeType
  <2>4. CheckFault(q) = [e EXCEPT !.a_fault = q.last.fault]
    BY DEF CheckFault
  <2> HIDE DEF e
  <2> QED
    BY <2>1, <2>3, <2>4 DEF Pk, SameThirst, SameDrinks
<1>3. CheckWater(p) \in Pk /\ SameThirst(p, CheckWater(p))
  BY <1>1
<1>4. /\ CheckFault(CheckWater(p)) \in Pk
      /\ SameThirst(CheckWater(p), CheckFault(CheckWater(p)))
  BY <1>2, <1>3
<1> QED
  BY <1>3, <1>4 DEF CheckCritical, SameThirst, SameDrinks

\* The gauges set latch bits 1..3 only and leave the thirst alarm alone.
LEMMA CheckThresholdsType ==
  ASSUME NEW p \in Pk
  PROVE  CheckThresholds(p) \in Pk /\ SameThirst(p, CheckThresholds(p))
<1> DEFINE battery == (1..p.last.battery) \ p.battery_latch
           filter == (1..p.last.filter) \ p.filter_latch
           ms == ThresholdNotes(battery, filter)
           said == SayAll(p, ms)
<1>1. /\ p.last.battery \in 0..3 /\ p.last.filter \in 0..3
      /\ p.battery_latch \in SUBSET (1..3) /\ p.filter_latch \in SUBSET (1..3)
  BY DEF Pk, PkState
<1>2. battery \in SUBSET (1..3) /\ filter \in SUBSET (1..3)
  BY <1>1
<1> HIDE DEF battery, filter
<1>3. ms \in Seq(Msg)
  <2>1. ASSUME NEW kind \in {"battery", "filter"}, NEW level \in 1..3, NEW due
        PROVE  DueNote(kind, level, due) \in Seq(Msg)
    <3>1. Note(kind, level) \in Msg
      BY NoteType
    <3>2. <<Note(kind, level)>> \in Seq(Msg) /\ <<>> \in Seq(Msg)
      BY <3>1
    <3> QED
      BY <3>2 DEF DueNote
  <2>2. /\ DueNote("battery", 1, battery) \in Seq(Msg)
        /\ DueNote("battery", 2, battery) \in Seq(Msg)
        /\ DueNote("battery", 3, battery) \in Seq(Msg)
        /\ DueNote("filter", 1, filter) \in Seq(Msg)
        /\ DueNote("filter", 2, filter) \in Seq(Msg)
        /\ DueNote("filter", 3, filter) \in Seq(Msg)
    BY <2>1
  <2> QED
    BY <2>2, ConcatProperties DEF ThresholdNotes
<1>4. said \in Pk /\ SameThirst(p, said)
  BY <1>3, SayAllType
<1>5. CheckThresholds(p) =
        [said EXCEPT
           !.battery_latch = IF p.last.battery = 0 THEN {} ELSE @ \cup battery,
           !.filter_latch  = IF p.last.filter = 0 THEN {} ELSE @ \cup filter]
  BY DEF CheckThresholds, battery, filter
<1> DEFINE b == IF p.last.battery = 0 THEN {} ELSE said.battery_latch \cup battery
           f == IF p.last.filter = 0 THEN {} ELSE said.filter_latch \cup filter
<1>6. CheckThresholds(p) = [said EXCEPT !.battery_latch = b, !.filter_latch = f]
  BY <1>5
<1>7. b \in SUBSET (1..3) /\ f \in SUBSET (1..3)
  <2>1. /\ said.battery_latch \in SUBSET (1..3)
        /\ said.filter_latch \in SUBSET (1..3)
    BY <1>4, ZenonT(30) DEF Pk, PkState
  <2> QED
    BY <1>2, <2>1
<1> HIDE DEF said, b, f
<1> DEFINE q == CheckThresholds(p)
<1>8. q \in Pk
  BY <1>4, <1>6, <1>7 DEF Pk
<1>9. SameThirst(said, q)
  BY <1>4, <1>6 DEF Pk, SameThirst, SameDrinks
<1> QED
  BY <1>4, <1>8, <1>9 DEF SameThirst, SameDrinks

\* Blindness is announced and taken back without touching the thirst alarm.
LEMMA CheckHistoryType ==
  ASSUME NEW p \in Pk
  PROVE  CheckHistory(p) \in Pk /\ SameThirst(p, CheckHistory(p))
<1>1. Note("history", 1) \in Msg /\ Note("history", 0) \in Msg
  BY NoteType DEF Problems
<1> DEFINE on == Say(p, Note("history", 1))
           off == Say(p, Note("history", 0))
<1>2. on \in Pk /\ SameThirst(p, on) /\ off \in Pk /\ SameThirst(p, off)
  BY <1>1, SayType
<1>3. \/ CheckHistory(p) = [on EXCEPT !.a_hist_blind = TRUE]
      \/ CheckHistory(p) = [off EXCEPT !.a_hist_blind = FALSE]
      \/ CheckHistory(p) = p
  BY DEF CheckHistory
<1> HIDE DEF on, off
<1> QED
  BY <1>2, <1>3, ZenonT(30) DEF Pk, SameThirst, SameDrinks

\* Setting the level changes nothing else.
LEMMA LevelType ==
  ASSUME NEW p \in Pk, NEW level \in 0..2
  PROVE  LET q == [p EXCEPT !.thirst_level = level] IN
           q \in Pk /\ SameDrinks(p, q) /\ q.thirst_level = level
BY DEF Pk, SameDrinks

\* check_thirst raises the level only against a dry spell that is long enough,
\* and measures it from last_drink_ts.
ThirstRaised(p, q, now) ==
  \/ q.thirst_level = p.thirst_level
  \/ /\ q.thirst_level \in {1, 2}
     /\ p.last_drink_ts # 0
     /\ now >= p.last_drink_ts
               + (IF q.thirst_level = 2 THEN EscalateSec ELSE ThirstSec) + Grace

\* check_thirst raises the level only against a dry spell that long.
LEMMA CheckThirstType ==
  ASSUME NEW p \in Pk, NEW now \in Nat, p.last_drink_ts <= now
  PROVE  /\ CheckThirst(p, now) \in Pk
         /\ SameDrinks(p, CheckThirst(p, now))
         /\ ThirstRaised(p, CheckThirst(p, now), now)
<1>1. Note("thirst", 1) \in Msg /\ Note("thirst", 2) \in Msg
  BY NoteType DEF Problems
<1> DEFINE one == Say(p, Note("thirst", 1))
           two == Say(p, Note("thirst", 2))
           gap == IF now > p.last_drink_ts THEN now - p.last_drink_ts ELSE 0
<1>2. one \in Pk /\ SameThirst(p, one) /\ two \in Pk /\ SameThirst(p, two)
  BY <1>1, SayType
<1>3. \/ /\ CheckThirst(p, now) = [one EXCEPT !.thirst_level = 1]
         /\ MayClaimThirst(p) /\ gap >= ThirstSec + Grace
      \/ /\ CheckThirst(p, now) = [two EXCEPT !.thirst_level = 2]
         /\ MayClaimThirst(p) /\ gap >= EscalateSec + Grace
      \/ CheckThirst(p, now) = p
  BY DEF CheckThirst
<1>4. p.last_drink_ts \in Nat
  BY DEF Pk
<1>5. MayClaimThirst(p) => p.last_drink_ts # 0
  BY DEF MayClaimThirst
<1>6. \A span \in Nat :
        gap >= span + Grace => now >= p.last_drink_ts + span + Grace
  BY <1>4, Constants DEF Grace
<1> HIDE DEF one, two, gap
<1>7. CASE CheckThirst(p, now) = p
  BY <1>7 DEF ThirstRaised, SameDrinks
<1>8. CASE /\ CheckThirst(p, now) = [one EXCEPT !.thirst_level = 1]
           /\ MayClaimThirst(p) /\ gap >= ThirstSec + Grace
  <2>1. now >= p.last_drink_ts + ThirstSec + Grace /\ p.last_drink_ts # 0
    BY <1>5, <1>6, <1>8, Constants
  <2>2. CheckThirst(p, now).thirst_level = 1
    BY <1>2, <1>8, LevelType
  <2>3. ThirstRaised(p, CheckThirst(p, now), now)
    BY <2>1, <2>2 DEF ThirstRaised
  <2>4. CheckThirst(p, now) \in Pk /\ SameDrinks(p, CheckThirst(p, now))
    <3> DEFINE q == [one EXCEPT !.thirst_level = 1]
    <3>0. one \in Pk /\ 1 \in 0..2
      BY <1>2
    <3>1. q \in Pk /\ SameDrinks(one, q)
      BY <3>0, LevelType
    <3>2. SameDrinks(p, one)
      BY <1>2 DEF SameThirst
    <3> HIDE DEF q
    <3>3. SameDrinks(p, q)
      BY <3>1, <3>2 DEF SameDrinks
    <3> QED
      BY <1>8, <3>1, <3>3 DEF q
  <2> QED
    BY <2>3, <2>4
<1>9. CASE /\ CheckThirst(p, now) = [two EXCEPT !.thirst_level = 2]
           /\ MayClaimThirst(p) /\ gap >= EscalateSec + Grace
  <2>1. now >= p.last_drink_ts + EscalateSec + Grace /\ p.last_drink_ts # 0
    BY <1>5, <1>6, <1>9, Constants
  <2>2. CheckThirst(p, now).thirst_level = 2
    BY <1>2, <1>9, LevelType
  <2>3. ThirstRaised(p, CheckThirst(p, now), now)
    BY <2>1, <2>2 DEF ThirstRaised
  <2>4. CheckThirst(p, now) \in Pk /\ SameDrinks(p, CheckThirst(p, now))
    <3> DEFINE q == [two EXCEPT !.thirst_level = 2]
    <3>0. two \in Pk /\ 2 \in 0..2
      BY <1>2
    <3>1. q \in Pk /\ SameDrinks(two, q)
      BY <3>0, LevelType
    <3>2. SameDrinks(p, two)
      BY <1>2 DEF SameThirst
    <3> HIDE DEF q
    <3>3. SameDrinks(p, q)
      BY <3>1, <3>2 DEF SameDrinks
    <3> QED
      BY <1>9, <3>1, <3>3 DEF q
  <2> QED
    BY <2>3, <2>4
<1> QED
  BY <1>3, <1>7, <1>8, <1>9

-----------------------------------------------------------------------------
(* The day *)

\* The number of a day is a natural number.
LEMMA DayOfType ==
  ASSUME NEW t \in Nat
  PROVE  DayOf(t) \in Nat
BY Constants DEF DayOf

\* The report is queued; nothing else changes.
LEMMA EmitReportType ==
  ASSUME NEW p \in Pk, NEW day \in Nat
  PROVE  EmitReport(p, day) \in Pk /\ SameThirst(p, EmitReport(p, day))
<1> DEFINE m == [kind |-> "report", arg |-> day, drinks |-> DrinksOn(p, day),
                 short |-> p.day_hist_short, alerts |-> p.day_messages]
<1>1. m \in Msg
  BY DEF Msg, Pk, DrinksOn
<1> HIDE DEF m
<1>2. Say(p, m) \in Pk /\ SameThirst(p, Say(p, m))
  BY <1>1, SayType
<1> QED
  BY <1>2 DEF EmitReport, m

\* Closing a day only ever shortens the list, and leaves the thirst alarm
\* what it looks back at.
LEMMA CloseDayType ==
  ASSUME NEW p \in Pk, NEW now \in Nat
  PROVE  /\ CloseDay(p, now) \in Pk
         /\ CloseDay(p, now).visit \subseteq p.visit
         /\ CloseDay(p, now).last_drink_ts = p.last_drink_ts
         /\ CloseDay(p, now).thirst_level = p.thirst_level
<1>1. ASSUME NEW q \in Pk
      PROVE  LET r == DayRollover(q, DayOf(now), now) IN
               /\ r \in Pk
               /\ r.visit \subseteq q.visit
               /\ r.last_drink_ts = q.last_drink_ts
               /\ r.thirst_level = q.thirst_level
  <2> DEFINE cutoff == IF now > 2 * DaySec THEN now - 2 * DaySec ELSE 0
             kept == {v \in q.visit : v >= cutoff}
             day == DayOf(now)
  <2>1. day \in Nat
    BY DayOfType
  <2>2. kept \in SUBSET Nat /\ kept \subseteq q.visit
    BY DEF Pk
  <2>3. DayRollover(q, DayOf(now), now) =
          [q EXCEPT !.day_no = day, !.day_messages = 0,
                    !.day_hist_short = FALSE, !.visit = kept]
    BY DEF DayRollover
  <2> HIDE DEF kept, day
  <2> DEFINE r == [q EXCEPT !.day_no = day, !.day_messages = 0,
                            !.day_hist_short = FALSE, !.visit = kept]
  <2>4. r \in Pk
    BY <2>1, <2>2 DEF Pk
  <2>5. r.visit = kept /\ r.last_drink_ts = q.last_drink_ts
        /\ r.thirst_level = q.thirst_level
    BY DEF Pk
  <2> QED
    BY <2>2, <2>3, <2>4, <2>5 DEF day
<1> DEFINE stamped == [p EXCEPT !.last_report_day = p.day_no]
<1>2. stamped \in Pk /\ SameThirst(p, stamped) /\ p.day_no \in Nat
  BY DEF Pk, SameThirst, SameDrinks
<1>3. EmitReport(stamped, p.day_no) \in Pk
      /\ SameThirst(stamped, EmitReport(stamped, p.day_no))
  BY <1>2, EmitReportType
<1> DEFINE told == IF p.last_report_day < p.day_no
                   THEN EmitReport(stamped, p.day_no) ELSE p
<1>4. told \in Pk /\ SameThirst(p, told)
  BY <1>2, <1>3 DEF SameThirst, SameDrinks
<1>5. \/ CloseDay(p, now) = DayRollover(told, DayOf(now), now)
      \/ CloseDay(p, now) = p
  BY DEF CloseDay
<1> HIDE DEF told
<1>6. CASE CloseDay(p, now) = p
  BY <1>6
<1>7. CASE CloseDay(p, now) = DayRollover(told, DayOf(now), now)
  BY <1>1, <1>4, <1>7 DEF SameThirst, SameDrinks
<1> QED
  BY <1>5, <1>6, <1>7

\* Neither end of an outage touches the thirst alarm.
LEMMA ContactType ==
  ASSUME NEW p \in Pk, NEW now \in Nat
  PROVE  /\ CheckContact(p, now) \in Pk /\ SameThirst(p, CheckContact(p, now))
         /\ TakeContact(p, now) \in Pk /\ SameThirst(p, TakeContact(p, now))
<1>1. Note("contact", 1) \in Msg /\ Note("contact", 0) \in Msg
  BY NoteType DEF Problems
<1> DEFINE lost == Say(p, Note("contact", 1))
           found == Say(p, Note("contact", 0))
           said == IF p.unreachable THEN found ELSE p
<1>2. lost \in Pk /\ SameThirst(p, lost) /\ found \in Pk /\ SameThirst(p, found)
  BY <1>1, SayType
<1>3. said \in Pk /\ SameThirst(p, said)
  BY <1>2 DEF SameThirst, SameDrinks
<1>4. \/ CheckContact(p, now) = [lost EXCEPT !.unreachable = TRUE]
      \/ CheckContact(p, now) = p
  BY DEF CheckContact
<1>5. TakeContact(p, now) = [said EXCEPT !.unreachable = FALSE, !.last_ok_ts = now]
  BY DEF TakeContact
<1> HIDE DEF lost, said
<1>6. CheckContact(p, now) \in Pk /\ SameThirst(p, CheckContact(p, now))
  BY <1>2, <1>4 DEF Pk, SameThirst, SameDrinks
<1>7. TakeContact(p, now) \in Pk /\ SameThirst(p, TakeContact(p, now))
  BY <1>3, <1>5, ZenonT(30) DEF Pk, SameThirst, SameDrinks
<1> QED
  BY <1>6, <1>7

-----------------------------------------------------------------------------
(* A poll *)

\* A valid reading replaces the last one and nothing else.
LEMMA TakeReadingType ==
  ASSUME NEW p \in Pk, NEW s \in PkState
  PROVE  TakeReading(p, s) \in Pk /\ SameThirst(p, TakeReading(p, s))
BY DEF TakeReading, Pk, SameThirst, SameDrinks

\* The streak of short reads saturates within its type.
LEMMA TakeHistoryType ==
  ASSUME NEW p \in Pk, NEW hist \in {"ok", "short"}
  PROVE  TakeHistory(p, hist) \in Pk /\ SameThirst(p, TakeHistory(p, hist))
<1> DEFINE streak == IF p.hist_short_streak < StreakMax
                     THEN p.hist_short_streak + 1 ELSE p.hist_short_streak
<1>1. streak \in 0..StreakMax
  BY Constants DEF Pk
<1>2. 0 \in 0..StreakMax
  BY Constants
<1>3. \/ TakeHistory(p, hist) = [p EXCEPT !.hist_short_streak = streak,
                                          !.day_hist_short = TRUE]
      \/ TakeHistory(p, hist) = [p EXCEPT !.hist_short_streak = 0,
                                          !.baseline_ready = TRUE]
  BY DEF TakeHistory
<1> HIDE DEF streak
<1> QED
  BY <1>1, <1>2, <1>3, ZenonT(30) DEF Pk, SameThirst, SameDrinks

\* A non-empty set of naturals has a least element.
LEMMA LeastElement ==
  ASSUME NEW T \in SUBSET Nat, T # {}
  PROVE  \E t \in T : \A u \in T : t <= u
<1> DEFINE R == {x \in Nat \X Nat : x[1] < x[2]}
<1>1. R = OpToRel(<, Nat)
  BY DEF OpToRel
<1>2. IsWellFoundedOn(R, Nat)
  BY <1>1, NatLessThanWellFounded
<1> HIDE DEF R
<1>3. PICK t \in T : \A u \in T : ~ (<<u, t>> \in R)
  BY <1>2, WFMin
<1>4. \A u \in T : t <= u
  <2> TAKE u \in T
  <2>1. <<u, t>> \in Nat \X Nat /\ u \in Nat /\ t \in Nat
    OBVIOUS
  <2>2. ~ (u < t)
    BY <1>3, <2>1 DEF R
  <2> QED
    BY <2>1, <2>2
<1> QED
  BY <1>4

\* A non-empty set of naturals with an upper bound has a greatest element.
LEMMA MaxOfBounded ==
  ASSUME NEW S \in SUBSET Nat, S # {}, NEW n \in Nat, \A x \in S : x <= n
  PROVE  Max(S) \in S /\ \A x \in S : x <= Max(S)
<1> DEFINE T == {n - x : x \in S}
<1>1. \A x \in S : n - x \in Nat
  OBVIOUS
<1>2. T \in SUBSET Nat /\ T # {}
  BY <1>1
<1> HIDE DEF T
<1>3. \E t \in T : \A u \in T : t <= u
  BY <1>2, LeastElement
<1> USE DEF T
<1>4. PICK m \in S : \A u \in T : n - m <= u
  BY <1>3
<1>5. \A x \in S : m >= x
  <2> TAKE x \in S
  <2>1. n - m <= n - x
    BY <1>4
  <2> QED
    BY <2>1
<1>6. Max(S) \in S /\ \A x \in S : Max(S) >= x
  BY <1>5 DEF Max
<1> QED
  BY <1>6

\* The records of one read: the list holds nothing but old and new ones, and
\* last_drink_ts is carried to the latest of those inserted, never back.
LEMMA TakeVisitsDoes ==
  ASSUME NEW p \in Pk, NEW now \in Nat,
         NEW fresh \in SUBSET Nat, \A x \in fresh : x <= now, p.last_drink_ts <= now
  PROVE  LET q == TakeVisits(p, fresh) IN
           /\ q \in Pk
           /\ Only(p, q, {"visit", "last_drink_ts"})
           /\ q.visit = AddVisits(p.visit, fresh)
           /\ q.visit \subseteq p.visit \cup fresh
           /\ \A v \in fresh \ p.visit : v <= q.last_drink_ts
           /\ p.last_drink_ts <= q.last_drink_ts
           /\ q.last_drink_ts <= now
<1> DEFINE list == AddVisits(p.visit, fresh)
           in == Inserted(p.visit, fresh)
           last == IF \E v \in in : v > p.last_drink_ts THEN Max(in)
                   ELSE p.last_drink_ts
           q == TakeVisits(p, fresh)
<1>1. p.visit \in SUBSET Nat /\ p.last_drink_ts \in Nat
  BY DEF Pk
<1>2. in \subseteq fresh /\ fresh \ p.visit \subseteq in
  BY DEF Inserted
<1> HIDE DEF in
<1>3. /\ last \in Nat /\ p.last_drink_ts <= last /\ last <= now
      /\ \A v \in in : v <= last
  <2>1. CASE \E v \in in : v > p.last_drink_ts
    <3>1. in \in SUBSET Nat /\ in # {} /\ \A x \in in : x <= now
      BY <1>2, <2>1
    <3>2. Max(in) \in in /\ \A x \in in : x <= Max(in)
      BY <3>1, MaxOfBounded
    <3>3. last = Max(in)
      BY <2>1
    <3> HIDE DEF last
    <3>4. last \in Nat /\ last <= now /\ \A x \in in : x <= last
      BY <3>1, <3>2, <3>3
    <3>5. PICK v \in in : v > p.last_drink_ts
      BY <2>1
    <3>6. p.last_drink_ts <= last
      BY <1>1, <3>1, <3>4, <3>5
    <3> QED
      BY <3>4, <3>6
  <2>2. CASE ~ \E v \in in : v > p.last_drink_ts
    <3>1. last = p.last_drink_ts
      BY <2>2
    <3>2. in \in SUBSET Nat
      BY <1>2
    <3> QED
      BY <1>1, <2>2, <3>1, <3>2
  <2> QED
    BY <2>1, <2>2
<1>4. list \subseteq p.visit \cup fresh
  <2> DEFINE new == fresh \ p.visit
             full == /\ Cardinality(p.visit) = MaxVisits
                     /\ new # {}
                     /\ \A x \in new, y \in p.visit : x < y
                     /\ \A y \in p.visit \cap fresh : \E z \in p.visit : z < y
  <2>1. CASE full
    <3>1. new \in SUBSET Nat /\ new # {} /\ \A x \in new : x <= now
      BY <2>1
    <3>2. Max(new) \in new
      BY <3>1, MaxOfBounded
    <3>3. list = (p.visit \ {Min(p.visit)}) \cup {Max(new)}
      BY <2>1 DEF AddVisits
    <3> QED
      BY <3>2, <3>3
  <2>2. CASE ~full
    <3>1. list = Newest(MaxVisits, p.visit \cup fresh)
      BY <2>2 DEF AddVisits
    <3> QED
      BY <3>1 DEF Newest
  <2> QED
    BY <2>1, <2>2
<1>5. q = [p EXCEPT !.visit = list, !.last_drink_ts = last]
  BY DEF TakeVisits, in
<1> HIDE DEF list, last, q
<1>6. q \in Pk
  BY <1>1, <1>3, <1>4, <1>5 DEF Pk
<1>7. q.visit = list /\ q.last_drink_ts = last /\ Only(p, q, {"visit", "last_drink_ts"})
  BY <1>5 DEF Pk, Only, Fields
<1>8. \A v \in fresh \ p.visit : v <= last
  BY <1>2, <1>3
<1>9. list = AddVisits(p.visit, fresh)
  BY DEF list
<1> QED
  BY <1>3, <1>4, <1>6, <1>7, <1>8, <1>9 DEF q

\* No record of the list is later than last_drink_ts.
LEMMA TakeVisitsType ==
  ASSUME NEW p \in Pk, NEW now \in Nat,
         NEW fresh \in SUBSET Nat, \A x \in fresh : x <= now,
         \A v \in p.visit : v <= p.last_drink_ts, p.last_drink_ts <= now
  PROVE  LET q == TakeVisits(p, fresh) IN
           /\ q \in Pk
           /\ q.thirst_level = p.thirst_level
           /\ \A v \in q.visit : v <= q.last_drink_ts
           /\ p.last_drink_ts <= q.last_drink_ts
           /\ q.last_drink_ts <= now
<1> DEFINE q == TakeVisits(p, fresh)
<1>1. /\ q \in Pk /\ Only(p, q, {"visit", "last_drink_ts"})
      /\ q.visit \subseteq p.visit \cup fresh
      /\ \A v \in fresh \ p.visit : v <= q.last_drink_ts
      /\ p.last_drink_ts <= q.last_drink_ts /\ q.last_drink_ts <= now
  BY TakeVisitsDoes
<1> HIDE DEF q
<1>2. q.thirst_level = p.thirst_level
  BY <1>1 DEF Only, Fields
<1>3. \A v \in q.visit : v <= q.last_drink_ts
  <2>1. p.visit \in SUBSET Nat /\ p.last_drink_ts \in Nat /\ q.last_drink_ts \in Nat
    BY <1>1 DEF Pk
  <2>2. \A v \in p.visit : v <= q.last_drink_ts
    BY <1>1, <2>1
  <2>3. QED
    BY <1>1, <2>2
<1>4. QED
  BY <1>1, <1>2, <1>3 DEF q

\* Only a drink later than the one known before this poll closes the alarm.
LEMMA ClearThirstType ==
  ASSUME NEW p \in Pk, NEW prev_drink \in Nat
  PROVE  LET q == ClearThirst(p, prev_drink) IN
           /\ q \in Pk /\ SameDrinks(p, q)
           /\ IF p.thirst_level > 0 /\ p.last_drink_ts > prev_drink
              THEN q.thirst_level = 0 ELSE q.thirst_level = p.thirst_level
<1>1. Note("thirst", 0) \in Msg
  BY NoteType DEF Problems
<1> DEFINE said == Say(p, Note("thirst", 0))
           q == [said EXCEPT !.thirst_level = 0]
<1>2. said \in Pk /\ SameThirst(p, said)
  BY <1>1, SayType
<1> HIDE DEF said
<1>3. q \in Pk /\ SameDrinks(said, q) /\ q.thirst_level = 0
  <2>1. said \in Pk /\ 0 \in 0..2
    BY <1>2
  <2> QED
    BY <2>1, LevelType
<1>4. CASE p.thirst_level > 0 /\ p.last_drink_ts > prev_drink
  <2>1. ClearThirst(p, prev_drink) = q
    BY <1>4 DEF ClearThirst, said
  <2> HIDE DEF q
  <2>2. SameDrinks(p, q)
    BY <1>2, <1>3 DEF SameThirst, SameDrinks
  <2> QED
    BY <1>3, <1>4, <2>1, <2>2
<1>5. CASE ~(p.thirst_level > 0 /\ p.last_drink_ts > prev_drink)
  <2>1. ClearThirst(p, prev_drink) = p
    BY <1>5 DEF ClearThirst
  <2> QED
    BY <1>5, <2>1 DEF SameDrinks
<1> QED
  BY <1>4, <1>5

\* The checks of one reading together.
LEMMA CheckReadingType ==
  ASSUME NEW p \in Pk
  PROVE  CheckReading(p) \in Pk /\ SameThirst(p, CheckReading(p))
<1>1. CheckCritical(p) \in Pk /\ SameThirst(p, CheckCritical(p))
  BY CheckCriticalType
<1>2. /\ CheckThresholds(CheckCritical(p)) \in Pk
      /\ SameThirst(CheckCritical(p), CheckThresholds(CheckCritical(p)))
  BY <1>1, CheckThresholdsType
<1> QED
  BY <1>1, <1>2 DEF CheckReading, SameThirst, SameDrinks

-----------------------------------------------------------------------------
(* The invariant of the core, and the calls that keep it *)

\* No record is from the future, last_drink_ts is the latest of the list or
\* later, and an open thirst alarm is about a dry spell that is long enough.
Sound(p, now) ==
  /\ p \in Pk
  /\ \A v \in p.visit : v <= p.last_drink_ts
  /\ p.last_drink_ts <= now
  /\ p.thirst_level > 0 =>
       /\ p.last_drink_ts # 0
       /\ now >= p.last_drink_ts
                 + (IF p.thirst_level = 2 THEN EscalateSec ELSE ThirstSec) + Grace

\* Whatever leaves the list, last_drink_ts and the level alone keeps it.
LEMMA SoundSame ==
  ASSUME NEW now \in Nat, NEW p, Sound(p, now), NEW q \in Pk, SameThirst(p, q)
  PROVE  Sound(q, now)
BY DEF Sound, SameThirst, SameDrinks

\* Time passing keeps it.
LEMMA SoundLater ==
  ASSUME NEW now \in Nat, NEW later \in Nat, now <= later, NEW p, Sound(p, now)
  PROVE  Sound(p, later)
<1>1. p.last_drink_ts \in Nat /\ Grace \in Nat /\ p \in Pk
  BY Constants DEF Sound, Pk, Grace
<1> QED
  BY <1>1, Constants DEF Sound

\* check_thirst keeps it, in a poll and in a tick.
LEMMA SoundCheckThirst ==
  ASSUME NEW now \in Nat, NEW p, Sound(p, now)
  PROVE  Sound(CheckThirst(p, now), now)
<1>1. p \in Pk /\ p.last_drink_ts <= now
  BY DEF Sound
<1> DEFINE q == CheckThirst(p, now)
<1>2. q \in Pk /\ SameDrinks(p, q) /\ ThirstRaised(p, q, now)
  BY <1>1, CheckThirstType
<1> HIDE DEF q
<1>3. Sound(q, now)
  BY <1>2 DEF Sound, SameDrinks, ThirstRaised
<1> QED
  BY <1>3 DEF q

\* pk_init.
LEMMA SoundInit ==
  ASSUME NEW now \in Nat
  PROVE  Sound(PkInit(now), now)
<1>1. DayOf(now) \in Nat /\ DayOf(now) - 1 \in Nat \cup {-1}
  BY DayOfType
<1>2. <<>> \in {x \in Seq(Msg) : Len(x) <= MaxMsg} /\ 0 \in 0..StreakMax
  BY EmptySeq, Constants
<1>3. NoReading \in PkState
  BY DEF NoReading, PkState
<1> DEFINE day == DayOf(now)
<1>4. PkInit(now) \in Pk
  <2> HIDE DEF day
  <2> QED
    BY <1>1, <1>2, <1>3 DEF PkInit, Pk, day
<1>5. PkInit(now).visit = {} /\ PkInit(now).last_drink_ts = 0
      /\ PkInit(now).thirst_level = 0
  BY DEF PkInit
<1> QED
  BY <1>4, <1>5 DEF Sound

\* pk_tick.
LEMMA SoundTick ==
  ASSUME NEW now \in Nat, NEW p, Sound(p, now)
  PROVE  Sound(Tick(p, now), now)
<1> DEFINE closed == CloseDay(p, now)
           checked == CheckContact(closed, now)
<1>1. p \in Pk
  BY DEF Sound
<1>2. /\ closed \in Pk /\ closed.visit \subseteq p.visit
      /\ closed.last_drink_ts = p.last_drink_ts
      /\ closed.thirst_level = p.thirst_level
  BY <1>1, CloseDayType
<1> HIDE DEF closed
<1>3. Sound(closed, now)
  BY <1>2 DEF Sound
<1>4. checked \in Pk /\ SameThirst(closed, checked)
  BY <1>2, ContactType
<1> HIDE DEF checked
<1>5. Sound(checked, now)
  BY <1>3, <1>4, SoundSame
<1>6. Sound(CheckThirst(checked, now), now)
  BY <1>5, SoundCheckThirst
<1> QED
  BY <1>6 DEF Tick, checked, closed

\* pk_poll_ok.
LEMMA SoundPollOk ==
  ASSUME NEW now \in Nat, NEW p, Sound(p, now), NEW s \in PkState,
         NEW fresh \in SUBSET Nat, \A x \in fresh : x <= now,
         NEW hist \in {"ok", "short"}
  PROVE  Sound(PollOk(p, s, fresh, hist, now), now)
<1> DEFINE a == TakeContact(p, now)
           b == TakeReading(a, s)
           c == TakeVisits(b, fresh)
           read == TakeHistory(c, hist)
           calm == ClearThirst(read, p.last_drink_ts)
           d == CheckReading(calm)
           e == CheckHistory(d)
<1>1. a \in Pk /\ SameThirst(p, a)
  BY ContactType DEF Sound
<1> HIDE DEF a
<1>2. b \in Pk /\ SameThirst(a, b)
  BY <1>1, TakeReadingType
<1> HIDE DEF b
<1>3. /\ \A v \in b.visit : v <= b.last_drink_ts
      /\ b.last_drink_ts <= now
      /\ b.last_drink_ts = p.last_drink_ts /\ b.thirst_level = p.thirst_level
  BY <1>1, <1>2 DEF Sound, SameThirst, SameDrinks
<1>4. /\ c \in Pk /\ c.thirst_level = b.thirst_level
      /\ \A v \in c.visit : v <= c.last_drink_ts
      /\ b.last_drink_ts <= c.last_drink_ts /\ c.last_drink_ts <= now
  BY <1>2, <1>3, TakeVisitsType
<1> HIDE DEF c
<1>5. read \in Pk /\ SameThirst(c, read)
  BY <1>4, TakeHistoryType
<1> HIDE DEF read
<1>6. p.last_drink_ts \in Nat
  BY DEF Sound, Pk
<1>7. /\ calm \in Pk /\ SameDrinks(read, calm)
      /\ IF read.thirst_level > 0 /\ read.last_drink_ts > p.last_drink_ts
         THEN calm.thirst_level = 0 ELSE calm.thirst_level = read.thirst_level
  BY <1>5, <1>6, ClearThirstType
<1> HIDE DEF calm
<1>8. Sound(calm, now)
  <2>1. /\ \A v \in calm.visit : v <= calm.last_drink_ts
        /\ p.last_drink_ts <= calm.last_drink_ts /\ calm.last_drink_ts <= now
    BY <1>3, <1>4, <1>5, <1>7 DEF SameThirst, SameDrinks
  <2>2. calm.last_drink_ts \in Nat /\ calm.thirst_level \in 0..2
    BY <1>7 DEF Pk
  <2>3. CASE calm.thirst_level > 0
    <3>1. /\ calm.thirst_level = p.thirst_level
          /\ calm.last_drink_ts = p.last_drink_ts
      BY <1>3, <1>4, <1>5, <1>6, <1>7, <2>1, <2>2, <2>3 DEF SameThirst, SameDrinks
    <3> QED
      BY <1>7, <2>1, <2>3, <3>1 DEF Sound
  <2>4. CASE ~(calm.thirst_level > 0)
    BY <1>7, <2>1, <2>4 DEF Sound
  <2> QED
    BY <2>3, <2>4
<1>9. d \in Pk /\ SameThirst(calm, d)
  BY <1>7, CheckReadingType
<1> HIDE DEF d
<1>10. e \in Pk /\ SameThirst(d, e)
  BY <1>9, CheckHistoryType
<1> HIDE DEF e
<1>11. Sound(e, now)
  BY <1>8, <1>9, <1>10, SoundSame
<1>12. Sound(CheckThirst(e, now), now)
  BY <1>11, SoundCheckThirst
<1> QED
  BY <1>12 DEF PollOk, a, b, c, read, calm, d, e
-----------------------------------------------------------------------------
(* What every function says, and which fields it writes *)

Queue == {"msg", "day_messages"}

\* One step after another.
LEMMA OnlyThen ==
  ASSUME NEW p, NEW q, NEW r, NEW F, NEW G, Only(p, q, F), Only(q, r, G)
  PROVE  Only(p, r, F \cup G)
BY DEF Only

LEMMA SaysThen ==
  ASSUME NEW p \in Pk, NEW q \in Pk, NEW r \in Pk, NEW M, NEW N,
         NEW m \in Nat, NEW n \in Nat, Says(p, q, M, m), Says(q, r, N, n)
  PROVE  Says(p, r, M \cup N, m + n)
<1>1. Len(p.msg) \in Nat /\ Len(q.msg) \in Nat /\ Len(r.msg) \in Nat
  BY LenProperties DEF Pk
<1>2. Len(r.msg) <= Len(p.msg) + (m + n)
  <2>1. Len(q.msg) <= Len(p.msg) + m /\ Len(r.msg) <= Len(q.msg) + n
    BY DEF Says
  <2> DEFINE a == Len(p.msg)
             b == Len(q.msg)
             c == Len(r.msg)
  <2>2. a \in Nat /\ b \in Nat /\ c \in Nat /\ b <= a + m /\ c <= b + n
    BY <1>1, <2>1
  <2> HIDE DEF a, b, c
  <2>3. c <= a + (m + n)
    BY <2>2
  <2>4. QED
    BY <2>3 DEF a, c
<1>3. Told(p) \subseteq Told(r) /\ Told(r) \subseteq Told(p) \cup (M \cup N)
  BY DEF Says
<1>4. QED
  BY <1>2, <1>3 DEF Says

\* A step that does not write to the queue says nothing.
LEMMA SaysNothing ==
  ASSUME NEW p \in Pk, NEW q \in Pk, q.msg = p.msg
  PROVE  Says(p, q, {}, 0)
<1>1. Len(p.msg) \in Nat
  BY LenProperties DEF Pk
<1>2. QED
  BY <1>1 DEF Says, Told

\* What is said may be said to be of a larger set.
LEMMA SaysMore ==
  ASSUME NEW p \in Pk, NEW q \in Pk, NEW M, NEW N, NEW m \in Nat, NEW n \in Nat,
         Says(p, q, M, m), M \subseteq N, m <= n
  PROVE  Says(p, q, N, n)
<1>1. Len(p.msg) \in Nat /\ Len(q.msg) \in Nat
  BY LenProperties DEF Pk
<1>2. QED
  BY <1>1 DEF Says

\* msg_out: what does not fit is lost, what waits already is not.
LEMMA SayAllSays ==
  ASSUME NEW p \in Pk, NEW ms \in Seq(Msg)
  PROVE  LET q == SayAll(p, ms)
             M == {ms[i] : i \in DOMAIN ms}
         IN  /\ Only(p, q, Queue)
             /\ Says(p, q, M, Len(ms))
             /\ Len(p.msg) + Len(ms) <= MaxMsg => M \subseteq Told(q)
<1> DEFINE room == MaxMsg - Len(p.msg)
           n == IF Len(ms) <= room THEN Len(ms) ELSE room
           M == {ms[i] : i \in DOMAIN ms}
           new == SubSeq(ms, 1, n)
           all == p.msg \o new
           q == SayAll(p, ms)
<1>1. p.msg \in Seq(Msg) /\ Len(p.msg) \in Nat /\ Len(p.msg) <= MaxMsg /\ Len(ms) \in Nat
  BY LenProperties DEF Pk
<1>2. n \in Nat /\ n <= Len(ms) /\ (Len(p.msg) + Len(ms) <= MaxMsg => n = Len(ms))
  BY <1>1, Constants
<1> HIDE DEF n
<1>3. new \in Seq(Msg) /\ Len(new) = n /\ \A i \in 1..n : new[i] = ms[i]
  <2>1. \A i \in 1..n : ms[i] \in Msg
    BY <1>1, <1>2, ElementOfSeq
  <2>2. /\ new \in Seq(Msg)
        /\ Len(new) = IF 1 <= n THEN n - 1 + 1 ELSE 0
        /\ \A i \in 1..n - 1 + 1 : new[i] = ms[1 + i - 1]
    <3>1. 1 \in Int /\ n \in Int
      BY <1>2
    <3>2. QED
      BY <2>1, <3>1, SubSeqProperties
  <2>3. QED
    BY <2>2, <1>2
<1> HIDE DEF new
<1>4. /\ all \in Seq(Msg) /\ Len(all) = Len(p.msg) + n
      /\ \A i \in 1..Len(p.msg) : all[i] = p.msg[i]
      /\ \A i \in 1..n : all[Len(p.msg) + i] = new[i]
  <2>1. /\ all \in Seq(Msg) /\ Len(all) = Len(p.msg) + Len(new)
        /\ \A i \in 1..Len(p.msg) + Len(new) :
             all[i] = IF i <= Len(p.msg) THEN p.msg[i] ELSE new[i - Len(p.msg)]
    BY <1>1, <1>3, ConcatProperties, ZenonT(30)
  <2>2. QED
    BY <1>1, <1>2, <1>3, <2>1
<1> HIDE DEF all
<1>5. q = [p EXCEPT !.msg = all, !.day_messages = p.day_messages + n]
  BY DEF SayAll, all, new, n
<1>6. q.msg = all /\ Only(p, q, Queue)
  BY <1>5 DEF Pk, Only, Fields, Queue
<1> HIDE DEF q
<1>7. /\ DOMAIN p.msg = 1..Len(p.msg) /\ DOMAIN ms = 1..Len(ms)
      /\ DOMAIN all = 1..Len(all)
  BY <1>1, <1>4, LenProperties
<1>8. Told(p) \subseteq Told(q)
  <2>1. ASSUME NEW i \in 1..Len(p.msg)
        PROVE  i \in 1..Len(all) /\ all[i] = p.msg[i]
    BY <1>1, <1>2, <1>4
  <2>2. QED
    BY <1>6, <1>7, <2>1 DEF Told
<1>9. Told(q) \subseteq Told(p) \cup M
  <2>1. ASSUME NEW i \in 1..Len(all)
        PROVE  all[i] \in Told(p) \cup M
    <3>1. CASE i \in 1..Len(p.msg)
      BY <1>4, <1>7, <3>1 DEF Told
    <3>2. CASE i \notin 1..Len(p.msg)
      <4>1. i - Len(p.msg) \in 1..n /\ i = Len(p.msg) + (i - Len(p.msg))
        BY <1>1, <1>2, <1>4, <3>2
      <4>2. all[i] = ms[i - Len(p.msg)]
        BY <1>3, <1>4, <4>1
      <4>3. i - Len(p.msg) \in 1..Len(ms)
        BY <1>1, <1>2, <4>1
      <4>4. QED
        BY <1>7, <4>2, <4>3
    <3>3. QED
      BY <3>1, <3>2
  <2>2. QED
    BY <1>6, <1>7, <2>1 DEF Told
<1>10. ASSUME Len(p.msg) + Len(ms) <= MaxMsg
       PROVE  M \subseteq Told(q)
  <2>1. ASSUME NEW i \in 1..Len(ms)
        PROVE  Len(p.msg) + i \in 1..Len(all) /\ all[Len(p.msg) + i] = ms[i]
    BY <1>1, <1>2, <1>3, <1>4, <1>10
  <2>2. QED
    BY <1>6, <1>7, <2>1 DEF Told
<1>11. Len(q.msg) <= Len(p.msg) + Len(ms)
  BY <1>1, <1>2, <1>4, <1>6
<1>12. QED
  BY <1>6, <1>8, <1>9, <1>10, <1>11 DEF Says, q

\* One message.
LEMMA SaySays ==
  ASSUME NEW p \in Pk, NEW m \in Msg
  PROVE  /\ Only(p, Say(p, m), Queue)
         /\ Says(p, Say(p, m), {m}, 1)
         /\ Len(p.msg) < MaxMsg => m \in Told(Say(p, m))
<1> DEFINE ms == <<m>>
<1>1. ms \in Seq(Msg) /\ Len(ms) = 1 /\ {ms[i] : i \in DOMAIN ms} = {m}
  OBVIOUS
<1>2. Len(p.msg) \in Nat
  BY LenProperties DEF Pk
<1>3. Say(p, m) = SayAll(p, ms)
  BY DEF Say
<1> DEFINE M == {ms[i] : i \in DOMAIN ms}
<1>4. /\ Only(p, SayAll(p, ms), Queue)
      /\ Says(p, SayAll(p, ms), M, Len(ms))
      /\ Len(p.msg) + Len(ms) <= MaxMsg => M \subseteq Told(SayAll(p, ms))
  BY <1>1, SayAllSays
<1>5. M = {m}
  BY <1>1
<1> HIDE DEF ms, M
<1>6. Len(p.msg) < MaxMsg => Len(p.msg) + 1 <= MaxMsg
  BY <1>2, Constants
<1>7. QED
  BY <1>1, <1>3, <1>4, <1>5, <1>6

\* Writing another field says nothing.
LEMMA SaysKept ==
  ASSUME NEW p, NEW q, NEW r, NEW M, NEW n, Says(p, q, M, n), r.msg = q.msg
  PROVE  Says(p, r, M, n)
BY DEF Says, Told

\* At most one message.
LEMMA SaysOne ==
  ASSUME NEW p \in Pk, NEW m \in Msg, NEW q, q = p \/ q = Say(p, m)
  PROVE  q \in Pk /\ Only(p, q, Queue) /\ Says(p, q, {m}, 1)
<1>1. CASE q = p
  <2>1. Says(p, q, {}, 0)
    BY <1>1, SaysNothing
  <2>2. Says(p, q, {m}, 1)
    BY <1>1, <2>1, SaysMore
  <2>3. QED
    BY <1>1, <2>2 DEF Only
<1>2. CASE q = Say(p, m)
  BY <1>2, SaySays, SayType
<1>3. QED
  BY <1>1, <1>2

\* An outage is announced when it begins and when it ends.
LEMMA ContactSays ==
  ASSUME NEW p \in Pk, NEW now \in Nat
  PROVE  /\ LET q == TakeContact(p, now)
            IN  /\ Only(p, q, Queue \cup {"unreachable", "last_ok_ts"})
                /\ Says(p, q, {Note("contact", 0)}, 1)
                /\ q.last_ok_ts = now
         /\ LET q == CheckContact(p, now)
            IN  /\ Only(p, q, Queue \cup {"unreachable"})
                /\ Says(p, q, {Note("contact", 1)}, 1)
<1> DEFINE back == Note("contact", 0)
           away == Note("contact", 1)
<1>1. back \in Msg /\ away \in Msg
  BY NoteType DEF Problems
<1> HIDE DEF back, away
<1>2. ASSUME NEW q, q = TakeContact(p, now)
      PROVE  /\ Only(p, q, Queue \cup {"unreachable", "last_ok_ts"})
             /\ Says(p, q, {back}, 1)
             /\ q.last_ok_ts = now
  <2> DEFINE said == IF p.unreachable THEN Say(p, back) ELSE p
  <2>1. said \in Pk /\ Only(p, said, Queue) /\ Says(p, said, {back}, 1)
    <3>1. said = p \/ said = Say(p, back)
      OBVIOUS
    <3> HIDE DEF said
    <3>2. QED
      BY <1>1, <3>1, SaysOne
  <2>2. q = [said EXCEPT !.unreachable = FALSE, !.last_ok_ts = now]
    BY <1>2 DEF TakeContact, back
  <2> HIDE DEF said
  <2>3. Only(said, q, {"unreachable", "last_ok_ts"}) /\ q.msg = said.msg /\ q.last_ok_ts = now
    BY <2>1, <2>2 DEF Pk, Only, Fields
  <2>4. QED
    BY <2>1, <2>3, OnlyThen, SaysKept
<1>3. ASSUME NEW q, q = CheckContact(p, now)
      PROVE  Only(p, q, Queue \cup {"unreachable"}) /\ Says(p, q, {away}, 1)
  <2>1. PICK said : /\ said = p \/ said = Say(p, away)
                    /\ q = said \/ q = [said EXCEPT !.unreachable = TRUE]
    <3>1. q = p \/ q = [Say(p, away) EXCEPT !.unreachable = TRUE]
      BY <1>3 DEF CheckContact, away
    <3>2. QED
      BY <3>1
  <2>2. said \in Pk /\ Only(p, said, Queue) /\ Says(p, said, {away}, 1)
    BY <1>1, <2>1, SaysOne
  <2>3. Only(said, q, {"unreachable"}) /\ q.msg = said.msg
    BY <2>1, <2>2 DEF Pk, Only, Fields
  <2>4. QED
    BY <2>2, <2>3, OnlyThen, SaysKept
<1>4. QED
  BY <1>2, <1>3 DEF back, away

\* The end of a dry spell is announced when a later drink is known.
LEMMA ClearThirstSays ==
  ASSUME NEW p \in Pk, NEW prev_drink \in Nat
  PROVE  LET q == ClearThirst(p, prev_drink)
         IN  /\ Only(p, q, Queue \cup {"thirst_level"})
             /\ Says(p, q, {Note("thirst", 0)}, 1)
<1> DEFINE over == Note("thirst", 0)
           q == ClearThirst(p, prev_drink)
<1>1. over \in Msg
  BY NoteType DEF Problems
<1> HIDE DEF over, q
<1>2. PICK said : /\ said = p \/ said = Say(p, over)
                  /\ q = said \/ q = [said EXCEPT !.thirst_level = 0]
  <2>1. q = p \/ q = [Say(p, over) EXCEPT !.thirst_level = 0]
    BY DEF ClearThirst, over, q
  <2>2. QED
    BY <2>1
<1>3. said \in Pk /\ Only(p, said, Queue) /\ Says(p, said, {over}, 1)
  BY <1>1, <1>2, SaysOne
<1>4. Only(said, q, {"thirst_level"}) /\ q.msg = said.msg
  BY <1>2, <1>3 DEF Pk, Only, Fields
<1>5. QED
  BY <1>3, <1>4, OnlyThen, SaysKept DEF over, q

\* check_thirst claims thirst one level at a time, and only of a higher level.
LEMMA CheckThirstSays ==
  ASSUME NEW p \in Pk, NEW now \in Nat
  PROVE  LET q == CheckThirst(p, now)
         IN  /\ Only(p, q, Queue \cup {"thirst_level"})
             /\ Says(p, q, {Note("thirst", p.thirst_level + 1)}, 1)
             /\ q.thirst_level >= p.thirst_level
<1> DEFINE m == Note("thirst", p.thirst_level + 1)
           q == CheckThirst(p, now)
<1>1. p.thirst_level \in 0..2
  BY DEF Pk
<1>2. m \in Msg
  <2>1. p.thirst_level + 1 \in Nat /\ "thirst" \in Problems
    BY <1>1 DEF Problems
  <2>2. QED
    BY <2>1, NoteType
<1> HIDE DEF m, q
<1>3. PICK said : /\ said = p \/ said = Say(p, m)
                  /\ \/ q = said /\ said = p
                     \/ q = [said EXCEPT !.thirst_level = 1] /\ p.thirst_level = 0
                     \/ q = [said EXCEPT !.thirst_level = 2] /\ p.thirst_level = 1
  <2>1. \/ q = p
        \/ q = [Say(p, m) EXCEPT !.thirst_level = 1] /\ p.thirst_level = 0
        \/ q = [Say(p, m) EXCEPT !.thirst_level = 2] /\ p.thirst_level = 1
    BY DEF CheckThirst, m, q
  <2>2. QED
    BY <2>1
<1>4. said \in Pk /\ Only(p, said, Queue) /\ Says(p, said, {m}, 1)
  BY <1>2, <1>3, SaysOne
<1>5. Only(said, q, {"thirst_level"}) /\ q.msg = said.msg /\ q.thirst_level >= p.thirst_level
  BY <1>1, <1>3, <1>4, SMTT(20) DEF Pk, Only, Fields
<1>6. QED
  BY <1>4, <1>5, OnlyThen, SaysKept DEF m, q

\* Blindness is announced when it is certain and when it ends.
LEMMA CheckHistorySays ==
  ASSUME NEW p \in Pk
  PROVE  LET q == CheckHistory(p)
         IN  /\ Only(p, q, Queue \cup {"a_hist_blind"})
             /\ Says(p, q, {Note("history", 0), Note("history", 1)}, 1)
<1> DEFINE off == Note("history", 0)
           on == Note("history", 1)
           q == CheckHistory(p)
<1>1. on \in Msg /\ off \in Msg
  BY NoteType DEF Problems
<1> HIDE DEF on, off, q
<1>2. PICK m \in {on, off}, said \in {p, Say(p, on), Say(p, off)} :
           /\ said = p \/ said = Say(p, m)
           /\ \/ q = said
              \/ q = [said EXCEPT !.a_hist_blind = TRUE]
              \/ q = [said EXCEPT !.a_hist_blind = FALSE]
  <2>1. \/ q = p
        \/ q = [Say(p, on) EXCEPT !.a_hist_blind = TRUE]
        \/ q = [Say(p, off) EXCEPT !.a_hist_blind = FALSE]
    BY DEF CheckHistory, on, off, q
  <2>2. QED
    BY <2>1
<1>3. said \in Pk /\ Only(p, said, Queue) /\ Says(p, said, {m}, 1)
  BY <1>1, <1>2, SaysOne
<1>4. Only(said, q, {"a_hist_blind"}) /\ q.msg = said.msg
  BY <1>2, <1>3 DEF Pk, Only, Fields
<1>5. q \in Pk
  BY CheckHistoryType DEF q
<1>6. Says(p, q, {off, on}, 1)
  BY <1>3, <1>4, <1>5, SaysKept, SaysMore
<1>7. QED
  BY <1>3, <1>4, <1>6, OnlyThen DEF on, off, q

\* The latch alarms: one message at an edge, the alarm only if it was not raised.
CriticalNotes(p) ==
  {Note("water", 0), Note("fault", 0)}
    \cup (IF p.a_no_water THEN {} ELSE {Note("water", 1)})
    \cup (IF p.a_fault THEN {} ELSE {Note("fault", 1)})

LEMMA CheckCriticalSays ==
  ASSUME NEW p \in Pk
  PROVE  LET q == CheckCritical(p)
         IN  /\ Only(p, q, Queue \cup {"a_no_water", "a_fault"})
             /\ Says(p, q, CriticalNotes(p), 2)
             /\ q.a_no_water = p.last.no_water /\ q.a_fault = p.last.fault
<1> DEFINE w == CheckWater(p)
           f == CheckFault(w)
           wet == Note("water", IF p.last.no_water THEN 1 ELSE 0)
           bad == Note("fault", IF p.last.fault THEN 1 ELSE 0)
<1>1. p.last.no_water \in BOOLEAN /\ p.last.fault \in BOOLEAN
      /\ p.a_no_water \in BOOLEAN /\ p.a_fault \in BOOLEAN
  BY DEF Pk, PkState
<1>2. wet \in Msg /\ bad \in Msg
  BY NoteType DEF Problems
<1>3. w \in Pk /\ f \in Pk
  <2>1. ASSUME NEW q \in Pk
        PROVE  CheckWater(q) \in Pk /\ CheckFault(q) \in Pk
    <3>1. q.last.no_water \in BOOLEAN /\ q.last.fault \in BOOLEAN
          /\ q.a_no_water \in BOOLEAN /\ q.a_fault \in BOOLEAN
      BY DEF Pk, PkState
    <3>2. "water" \in Problems /\ "fault" \in Problems
      BY DEF Problems
    <3>3. /\ Edge(q, "water", q.a_no_water, q.last.no_water) \in Pk
          /\ Edge(q, "fault", q.a_fault, q.last.fault) \in Pk
      BY <3>1, <3>2, EdgeType
    <3>4. QED
      BY <3>1, <3>3 DEF CheckWater, CheckFault, Pk
  <2>2. QED
    BY <2>1
<1>4. /\ Only(p, w, Queue \cup {"a_no_water"}) /\ w.a_no_water = p.last.no_water
      /\ IF p.last.no_water # p.a_no_water THEN Says(p, w, {wet}, 1) ELSE Says(p, w, {}, 0)
  <2> DEFINE e == Edge(p, "water", p.a_no_water, p.last.no_water)
  <2>1. IF p.last.no_water # p.a_no_water THEN e = Say(p, wet) ELSE e = p
    BY DEF Edge
  <2>2. w = [e EXCEPT !.a_no_water = p.last.no_water]
    BY DEF CheckWater
  <2> HIDE DEF e, wet, w
  <2>3. e \in Pk /\ Only(p, e, Queue)
    BY <1>2, <2>1, SaysOne
  <2>4. Only(e, w, {"a_no_water"}) /\ w.msg = e.msg /\ w.a_no_water = p.last.no_water
    BY <2>2, <2>3 DEF Pk, Only, Fields
  <2>5. IF p.last.no_water # p.a_no_water THEN Says(p, e, {wet}, 1) ELSE Says(p, e, {}, 0)
    BY <1>2, <2>1, SaysOne, SaysNothing
  <2>6. QED
    BY <2>3, <2>4, <2>5, OnlyThen, SaysKept
<1>5. w.last = p.last /\ w.a_fault = p.a_fault
  BY <1>4 DEF Only, Fields, Queue
<1>6. /\ Only(w, f, Queue \cup {"a_fault"}) /\ f.a_fault = p.last.fault
      /\ IF p.last.fault # p.a_fault THEN Says(w, f, {bad}, 1) ELSE Says(w, f, {}, 0)
  <2> DEFINE e == Edge(w, "fault", w.a_fault, w.last.fault)
  <2>1. IF p.last.fault # p.a_fault THEN e = Say(w, bad) ELSE e = w
    BY <1>5 DEF Edge
  <2>2. f = [e EXCEPT !.a_fault = p.last.fault]
    BY <1>5 DEF CheckFault
  <2> HIDE DEF e, bad, f, w
  <2>3. e \in Pk /\ Only(w, e, Queue)
    BY <1>2, <1>3, <2>1, SaysOne
  <2>4. Only(e, f, {"a_fault"}) /\ f.msg = e.msg /\ f.a_fault = p.last.fault
    BY <2>2, <2>3 DEF Pk, Only, Fields
  <2>5. IF p.last.fault # p.a_fault THEN Says(w, e, {bad}, 1) ELSE Says(w, e, {}, 0)
    BY <1>2, <1>3, <2>1, SaysOne, SaysNothing
  <2>6. QED
    BY <2>3, <2>4, <2>5, OnlyThen, SaysKept
<1> HIDE DEF w, f
<1>7. Only(p, f, Queue \cup {"a_no_water", "a_fault"})
  BY <1>4, <1>6 DEF Only, Queue
<1>8. f.a_no_water = p.last.no_water
  BY <1>4, <1>6 DEF Only, Fields, Queue
<1>9. Says(p, w, CriticalNotes(p), 1)
  <2>1. p.last.no_water # p.a_no_water => {wet} \subseteq CriticalNotes(p)
    BY <1>1 DEF CriticalNotes
  <2> HIDE DEF wet
  <2>2. QED
    BY <1>3, <1>4, <2>1, SaysMore
<1>10. Says(w, f, CriticalNotes(p), 1)
  <2>1. p.last.fault # p.a_fault => {bad} \subseteq CriticalNotes(p)
    BY <1>1 DEF CriticalNotes
  <2> HIDE DEF bad
  <2>2. QED
    BY <1>3, <1>6, <2>1, SaysMore
<1>11. Says(p, f, CriticalNotes(p) \cup CriticalNotes(p), 1 + 1)
  BY <1>3, <1>9, <1>10, SaysThen
<1>12. Says(p, f, CriticalNotes(p), 2)
  BY <1>11 DEF Says
<1>13. QED
  BY <1>6, <1>7, <1>8, <1>12 DEF CheckCritical, f, w

\* The gauges: a message for each threshold that is not latched, and no more
\* messages than thresholds that are reached.
GaugeNotes(p) ==
  {Note("battery", level) : level \in (1..3) \ p.battery_latch}
    \cup {Note("filter", level) : level \in 1..3}

\* How many of the thresholds of a gauge are in a set, and how many of the
\* thresholds that reading s is at or below p has not latched yet.
HowMany(due) ==
  LET one(level) == IF level \in due THEN 1 ELSE 0
  IN  one(1) + (one(2) + one(3))

NewThresholds(p, s) ==
  HowMany((1..s.battery) \ p.battery_latch) + HowMany((1..s.filter) \ p.filter_latch)

LEMMA HowManyFew ==
  ASSUME NEW n \in 0..3, NEW due, due \subseteq 1..n
  PROVE  HowMany(due) \in Nat /\ HowMany(due) <= n
<1> DEFINE one(level) == IF level \in due THEN 1 ELSE 0
<1>1. \A level \in 1..3 : one(level) \in 0..1 /\ (level > n => one(level) = 0)
  OBVIOUS
<1>2. HowMany(due) = one(1) + (one(2) + one(3))
  BY DEF HowMany
<1> HIDE DEF one
<1>3. n = 0 \/ n = 1 \/ n = 2 \/ n = 3
  OBVIOUS
<1>4. QED
  BY <1>1, <1>2, <1>3

LEMMA NewThresholdsFew ==
  ASSUME NEW p \in Pk, NEW s \in PkState
  PROVE  NewThresholds(p, s) \in Nat /\ NewThresholds(p, s) <= s.battery + s.filter
<1> DEFINE b == HowMany((1..s.battery) \ p.battery_latch)
           f == HowMany((1..s.filter) \ p.filter_latch)
<1>1. s.battery \in 0..3 /\ s.filter \in 0..3
  BY DEF PkState
<1>2. b \in Nat /\ b <= s.battery
  BY <1>1, HowManyFew
<1>3. f \in Nat /\ f <= s.filter
  BY <1>1, HowManyFew
<1>4. NewThresholds(p, s) = b + f
  BY DEF NewThresholds
<1> HIDE DEF b, f
<1>5. QED
  BY <1>1, <1>2, <1>3, <1>4

LEMMA DueNoteSays ==
  ASSUME NEW kind \in {"battery", "filter"}, NEW level \in 1..3, NEW due
  PROVE  LET d == DueNote(kind, level, due)
         IN  /\ d \in Seq(Msg)
             /\ Len(d) <= (IF level \in due THEN 1 ELSE 0)
             /\ \A i \in DOMAIN d : d[i] = Note(kind, level) /\ level \in due
<1>1. Note(kind, level) \in Msg
  BY NoteType
<1>2. CASE level \in due
  <2>1. DueNote(kind, level, due) = <<Note(kind, level)>>
    BY <1>2 DEF DueNote
  <2>2. QED
    BY <1>1, <1>2, <2>1
<1>3. CASE level \notin due
  <2>1. DueNote(kind, level, due) = <<>>
    BY <1>3 DEF DueNote
  <2>2. QED
    BY <2>1
<1>4. QED
  BY <1>2, <1>3

\* The elements of a concatenation are those of its parts.
LEMMA ConcatParts ==
  ASSUME NEW a \in Seq(Msg), NEW b \in Seq(Msg), NEW M,
         \A i \in DOMAIN a : a[i] \in M, \A i \in DOMAIN b : b[i] \in M
  PROVE  /\ a \o b \in Seq(Msg) /\ Len(a \o b) = Len(a) + Len(b)
         /\ \A i \in DOMAIN (a \o b) : (a \o b)[i] \in M
<1> DEFINE c == a \o b
<1>1. /\ c \in Seq(Msg) /\ Len(c) = Len(a) + Len(b)
      /\ \A i \in 1..Len(a) + Len(b) : c[i] = IF i <= Len(a) THEN a[i] ELSE b[i - Len(a)]
  BY ConcatProperties
<1>2. /\ DOMAIN a = 1..Len(a) /\ DOMAIN b = 1..Len(b) /\ DOMAIN c = 1..Len(a) + Len(b)
      /\ Len(a) \in Nat /\ Len(b) \in Nat
  BY <1>1, LenProperties
<1> HIDE DEF c
<1>3. ASSUME NEW i \in DOMAIN c
      PROVE  c[i] \in M
  <2>1. CASE i <= Len(a)
    <3>1. i \in DOMAIN a /\ c[i] = a[i]
      BY <1>1, <1>2, <2>1
    <3>2. QED
      BY <3>1
  <2>2. CASE ~(i <= Len(a))
    <3>1. i - Len(a) \in DOMAIN b /\ c[i] = b[i - Len(a)]
      BY <1>1, <1>2, <2>2
    <3>2. QED
      BY <3>1
  <2>3. QED
    BY <2>1, <2>2
<1>4. QED
  BY <1>1, <1>3 DEF c

LEMMA ThresholdNotesSay ==
  ASSUME NEW battery, battery \subseteq 1..3, NEW filter, filter \subseteq 1..3
  PROVE  LET ms == ThresholdNotes(battery, filter)
             M == {Note("battery", level) : level \in battery}
                    \cup {Note("filter", level) : level \in filter}
         IN  /\ ms \in Seq(Msg) /\ Len(ms) <= HowMany(battery) + HowMany(filter)
             /\ \A i \in DOMAIN ms : ms[i] \in M
<1> DEFINE M == {Note("battery", level) : level \in battery}
                  \cup {Note("filter", level) : level \in filter}
           count(level, due) == IF level \in due THEN 1 ELSE 0
           b1 == DueNote("battery", 1, battery)
           b2 == DueNote("battery", 2, battery)
           b3 == DueNote("battery", 3, battery)
           f1 == DueNote("filter", 1, filter)
           f2 == DueNote("filter", 2, filter)
           f3 == DueNote("filter", 3, filter)
<1>1. ASSUME NEW level \in 1..3
      PROVE  /\ DueNote("battery", level, battery) \in Seq(Msg)
             /\ Len(DueNote("battery", level, battery)) <= count(level, battery)
             /\ \A i \in DOMAIN DueNote("battery", level, battery) :
                  DueNote("battery", level, battery)[i] \in M
             /\ DueNote("filter", level, filter) \in Seq(Msg)
             /\ Len(DueNote("filter", level, filter)) <= count(level, filter)
             /\ \A i \in DOMAIN DueNote("filter", level, filter) :
                  DueNote("filter", level, filter)[i] \in M
  <2> DEFINE d == DueNote("battery", level, battery)
             e == DueNote("filter", level, filter)
  <2>1. /\ d \in Seq(Msg) /\ Len(d) <= count(level, battery)
        /\ \A i \in DOMAIN d : d[i] = Note("battery", level) /\ level \in battery
    BY DueNoteSays
  <2>2. /\ e \in Seq(Msg) /\ Len(e) <= count(level, filter)
        /\ \A i \in DOMAIN e : e[i] = Note("filter", level) /\ level \in filter
    BY DueNoteSays
  <2> HIDE DEF d, e, count
  <2>3. \A i \in DOMAIN d : d[i] \in M
    BY <2>1
  <2>4. \A i \in DOMAIN e : e[i] \in M
    BY <2>2
  <2>5. QED
    BY <2>1, <2>2, <2>3, <2>4 DEF d, e
<1> HIDE DEF M
<1>2. /\ b1 \in Seq(Msg) /\ b2 \in Seq(Msg) /\ b3 \in Seq(Msg)
      /\ f1 \in Seq(Msg) /\ f2 \in Seq(Msg) /\ f3 \in Seq(Msg)
      /\ (\A i \in DOMAIN b1 : b1[i] \in M) /\ (\A i \in DOMAIN b2 : b2[i] \in M)
      /\ (\A i \in DOMAIN b3 : b3[i] \in M) /\ (\A i \in DOMAIN f1 : f1[i] \in M)
      /\ (\A i \in DOMAIN f2 : f2[i] \in M) /\ (\A i \in DOMAIN f3 : f3[i] \in M)
  BY <1>1
<1>3. /\ Len(b1) <= count(1, battery) /\ Len(b2) <= count(2, battery) /\ Len(b3) <= count(3, battery)
      /\ Len(f1) <= count(1, filter) /\ Len(f2) <= count(2, filter) /\ Len(f3) <= count(3, filter)
  BY <1>1
<1>4. /\ Len(b1) \in Nat /\ Len(b2) \in Nat /\ Len(b3) \in Nat
      /\ Len(f1) \in Nat /\ Len(f2) \in Nat /\ Len(f3) \in Nat
  BY <1>2, LenProperties
<1> HIDE DEF b1, b2, b3, f1, f2, f3
<1> DEFINE c2 == b1 \o f1
           c3 == c2 \o b2
           c4 == c3 \o f2
           c5 == c4 \o b3
           c6 == c5 \o f3
<1>5. c2 \in Seq(Msg) /\ Len(c2) = Len(b1) + Len(f1) /\ \A i \in DOMAIN c2 : c2[i] \in M
  BY <1>2, ConcatParts
<1> HIDE DEF c2
<1>6. c3 \in Seq(Msg) /\ Len(c3) = Len(c2) + Len(b2) /\ \A i \in DOMAIN c3 : c3[i] \in M
  BY <1>2, <1>5, ConcatParts
<1> HIDE DEF c3
<1>7. c4 \in Seq(Msg) /\ Len(c4) = Len(c3) + Len(f2) /\ \A i \in DOMAIN c4 : c4[i] \in M
  BY <1>2, <1>6, ConcatParts
<1> HIDE DEF c4
<1>8. c5 \in Seq(Msg) /\ Len(c5) = Len(c4) + Len(b3) /\ \A i \in DOMAIN c5 : c5[i] \in M
  BY <1>2, <1>7, ConcatParts
<1> HIDE DEF c5
<1>9. c6 \in Seq(Msg) /\ Len(c6) = Len(c5) + Len(f3) /\ \A i \in DOMAIN c6 : c6[i] \in M
  BY <1>2, <1>8, ConcatParts
<1>10. Len(c6) <= HowMany(battery) + HowMany(filter)
  <2> HIDE DEF c6
  <2>1. Len(c6) = Len(b1) + Len(b2) + Len(b3) + (Len(f1) + Len(f2) + Len(f3))
    BY <1>4, <1>5, <1>6, <1>7, <1>8, <1>9
  <2>2. /\ HowMany(battery) = count(1, battery) + (count(2, battery) + count(3, battery))
        /\ HowMany(filter) = count(1, filter) + (count(2, filter) + count(3, filter))
    BY DEF HowMany
  <2>3. /\ count(1, battery) \in Nat /\ count(2, battery) \in Nat /\ count(3, battery) \in Nat
    OBVIOUS
  <2>4. /\ count(1, filter) \in Nat /\ count(2, filter) \in Nat /\ count(3, filter) \in Nat
    OBVIOUS
  <2>5. /\ Len(b1) <= count(1, battery) /\ Len(b2) <= count(2, battery)
        /\ Len(b3) <= count(3, battery)
    BY <1>3
  <2>6. /\ Len(f1) <= count(1, filter) /\ Len(f2) <= count(2, filter)
        /\ Len(f3) <= count(3, filter)
    BY <1>3
  <2> HIDE DEF count
  <2>7. Len(b1) + Len(b2) + Len(b3) <= HowMany(battery) /\ HowMany(battery) \in Nat
    BY <1>4, <2>2, <2>3, <2>5
  <2>8. Len(f1) + Len(f2) + Len(f3) <= HowMany(filter) /\ HowMany(filter) \in Nat
    BY <1>4, <2>2, <2>4, <2>6
  <2>9. QED
    BY <1>4, <2>1, <2>7, <2>8
<1>11. ThresholdNotes(battery, filter) = c6
  BY DEF ThresholdNotes, c6, c5, c4, c3, c2, b1, b2, b3, f1, f2, f3
<1> HIDE DEF c6
<1>12. QED
  BY <1>9, <1>10, <1>11 DEF M

LEMMA CheckThresholdsSays ==
  ASSUME NEW p \in Pk
  PROVE  LET q == CheckThresholds(p)
         IN  /\ Only(p, q, Queue \cup {"battery_latch", "filter_latch"})
             /\ Says(p, q, GaugeNotes(p), NewThresholds(p, p.last))
             /\ q.battery_latch = IF p.last.battery = 0 THEN {}
                                  ELSE p.battery_latch \cup 1..p.last.battery
<1> DEFINE battery == (1..p.last.battery) \ p.battery_latch
           filter == (1..p.last.filter) \ p.filter_latch
           ms == ThresholdNotes(battery, filter)
           said == SayAll(p, ms)
           q == CheckThresholds(p)
           M == {Note("battery", level) : level \in battery}
                  \cup {Note("filter", level) : level \in filter}
<1>1. /\ p.last.battery \in 0..3 /\ p.last.filter \in 0..3
      /\ p.battery_latch \in SUBSET (1..3) /\ p.filter_latch \in SUBSET (1..3)
  BY DEF Pk, PkState
<1>2. battery \subseteq 1..p.last.battery /\ filter \subseteq 1..p.last.filter
  OBVIOUS
<1>3. M \subseteq GaugeNotes(p)
  BY <1>1 DEF GaugeNotes
<1>4. q = [said EXCEPT
             !.battery_latch = IF p.last.battery = 0 THEN {} ELSE @ \cup battery,
             !.filter_latch  = IF p.last.filter = 0 THEN {} ELSE @ \cup filter]
  BY DEF CheckThresholds
<1>5. p.battery_latch \cup battery = p.battery_latch \cup 1..p.last.battery
  OBVIOUS
<1> HIDE DEF battery, filter
<1>6. ms \in Seq(Msg) /\ Len(ms) <= HowMany(battery) + HowMany(filter)
      /\ \A i \in DOMAIN ms : ms[i] \in M
  <2>1. battery \subseteq 1..3 /\ filter \subseteq 1..3
    BY <1>1, <1>2
  <2>2. QED
    BY <2>1, ThresholdNotesSay
<1> HIDE DEF M, ms
<1> DEFINE N == {ms[i] : i \in DOMAIN ms}
<1>7. said \in Pk /\ Only(p, said, Queue) /\ Says(p, said, N, Len(ms))
  BY <1>6, SayAllType, SayAllSays
<1>8. said.battery_latch = p.battery_latch
  BY <1>7 DEF Only, Fields, Queue
<1> HIDE DEF said, q
<1>9. /\ Only(said, q, {"battery_latch", "filter_latch"}) /\ q.msg = said.msg
      /\ q.battery_latch = IF p.last.battery = 0 THEN {} ELSE said.battery_latch \cup battery
  BY <1>4, <1>7 DEF Pk, Only, Fields
<1>10. q \in Pk
  BY CheckThresholdsType DEF q
<1>11. /\ Len(ms) \in Nat /\ NewThresholds(p, p.last) \in Nat
       /\ Len(ms) <= NewThresholds(p, p.last)
  <2>1. p.last \in PkState
    BY DEF Pk
  <2>2. NewThresholds(p, p.last) = HowMany(battery) + HowMany(filter)
    BY DEF NewThresholds, battery, filter
  <2>3. QED
    BY <1>6, <2>1, <2>2, LenProperties, NewThresholdsFew
<1>12. Says(p, q, N, Len(ms))
  BY <1>7, <1>9, SaysKept
<1>13. N \subseteq GaugeNotes(p)
  BY <1>3, <1>6
<1> HIDE DEF N
<1>14. Says(p, q, GaugeNotes(p), NewThresholds(p, p.last))
  BY <1>10, <1>11, <1>12, <1>13, SaysMore
<1>15. Only(p, q, Queue \cup {"battery_latch", "filter_latch"})
  BY <1>7, <1>9, OnlyThen
<1>16. QED
  BY <1>5, <1>8, <1>9, <1>14, <1>15 DEF q

\* The checks of one reading: none of them runs before there is one.
LEMMA CheckReadingSays ==
  ASSUME NEW p \in Pk
  PROVE  LET q == CheckReading(p)
         IN  /\ Only(p, q, Queue \cup {"a_no_water", "a_fault", "battery_latch", "filter_latch"})
             /\ Says(p, q, CriticalNotes(p) \cup GaugeNotes(p),
                     2 + NewThresholds(p, p.last))
             /\ IF p.last.valid
                THEN /\ q.a_no_water = p.last.no_water /\ q.a_fault = p.last.fault
                     /\ q.battery_latch = IF p.last.battery = 0 THEN {}
                                          ELSE p.battery_latch \cup 1..p.last.battery
                ELSE q = p
<1> DEFINE c == CheckCritical(p)
           g == CheckThresholds(c)
           q == CheckReading(p)
           all == Queue \cup {"a_no_water", "a_fault", "battery_latch", "filter_latch"}
           n == NewThresholds(p, p.last)
<1>1. p.last \in PkState /\ p.last.valid \in BOOLEAN
  BY DEF Pk, PkState
<1>2. n \in Nat
  BY <1>1, NewThresholdsFew
<1> HIDE DEF n
<1>3. CASE p.last.valid
  <2>1. /\ c \in Pk /\ Only(p, c, Queue \cup {"a_no_water", "a_fault"})
        /\ Says(p, c, CriticalNotes(p), 2)
        /\ c.a_no_water = p.last.no_water /\ c.a_fault = p.last.fault
    BY CheckCriticalType, CheckCriticalSays
  <2> HIDE DEF c
  <2>2. /\ c.last = p.last /\ c.battery_latch = p.battery_latch
        /\ c.filter_latch = p.filter_latch
    BY <2>1 DEF Only, Fields, Queue
  <2>3. /\ g \in Pk /\ Only(c, g, Queue \cup {"battery_latch", "filter_latch"})
        /\ Says(c, g, GaugeNotes(c), NewThresholds(c, c.last))
        /\ g.battery_latch = IF c.last.battery = 0 THEN {}
                             ELSE c.battery_latch \cup 1..c.last.battery
    BY <2>1, CheckThresholdsType, CheckThresholdsSays
  <2>4. GaugeNotes(c) = GaugeNotes(p) /\ NewThresholds(c, c.last) = n
    BY <2>2 DEF GaugeNotes, NewThresholds, n
  <2> HIDE DEF g
  <2>5. Says(p, g, CriticalNotes(p) \cup GaugeNotes(p), 2 + n)
    BY <1>2, <2>1, <2>3, <2>4, SaysThen
  <2>6. Only(p, g, all) /\ g.a_no_water = p.last.no_water /\ g.a_fault = p.last.fault
    BY <2>1, <2>3 DEF Only, Fields, Queue
  <2>7. q = g
    BY <1>3 DEF CheckReading, g, c
  <2> HIDE DEF q
  <2>8. QED
    BY <1>3, <2>2, <2>3, <2>5, <2>6, <2>7 DEF q, n
<1>4. CASE ~p.last.valid
  <2>1. q = p
    BY <1>4 DEF CheckReading
  <2>2. Says(p, p, {}, 0)
    BY SaysNothing
  <2>3. Says(p, p, CriticalNotes(p) \cup GaugeNotes(p), 2 + n)
    BY <1>2, <2>2, SaysMore
  <2>4. QED
    BY <1>4, <2>1, <2>3 DEF Only, n
<1>5. QED
  BY <1>1, <1>3, <1>4

\* The report of the day that is over.
TheReport(p) ==
  [kind |-> "report", arg |-> p.day_no, drinks |-> DrinksOn(p, p.day_no),
   short |-> p.day_hist_short, alerts |-> p.day_messages]

\* A day is closed once, with its report unless it was reported before.
LEMMA CloseDaySays ==
  ASSUME NEW p \in Pk, NEW now \in Nat
  PROVE  LET q == CloseDay(p, now)
         IN  \/ q = p
             \/ /\ DayOf(now) # p.day_no
                /\ Only(p, q, Queue \cup {"day_no", "last_report_day", "day_hist_short", "visit"})
                /\ q.day_no = DayOf(now)
                /\ q.visit \subseteq p.visit
                /\ {v \in p.visit : v + 2 * DaySec >= now} \subseteq q.visit
                /\ IF p.last_report_day < p.day_no
                   THEN /\ q.last_report_day = p.day_no
                        /\ Says(p, q, {TheReport(p)}, 1)
                        /\ Len(p.msg) < MaxMsg => TheReport(p) \in Told(q)
                   ELSE /\ q.last_report_day = p.last_report_day
                        /\ q.msg = p.msg
<1> DEFINE q == CloseDay(p, now)
           stamped == [p EXCEPT !.last_report_day = p.day_no]
           m == TheReport(p)
           told == IF p.last_report_day < p.day_no THEN Say(stamped, m) ELSE p
           cutoff == IF now > 2 * DaySec THEN now - 2 * DaySec ELSE 0
           day == DayOf(now)
<1>1. \/ q = p
      \/ day # p.day_no /\ q = DayRollover(told, day, now)
  <2>1. EmitReport(stamped, p.day_no) = Say(stamped, m)
    BY DEF EmitReport, TheReport, DrinksOn, Pk
  <2>2. QED
    BY <2>1 DEF CloseDay
<1>2. stamped \in Pk /\ Only(p, stamped, {"last_report_day"}) /\ stamped.msg = p.msg
      /\ stamped.last_report_day = p.day_no
  BY DEF Pk, Only, Fields
<1>3. m \in Msg
  BY DEF TheReport, Msg, Pk, DrinksOn
<1> HIDE DEF stamped, m
<1>4. /\ told \in Pk /\ Only(p, told, Queue \cup {"last_report_day"})
      /\ IF p.last_report_day < p.day_no
         THEN /\ told.last_report_day = p.day_no
              /\ Says(p, told, {m}, 1)
              /\ Len(p.msg) < MaxMsg => m \in Told(told)
         ELSE told = p
  <2>1. CASE p.last_report_day < p.day_no
    <3> DEFINE said == Say(stamped, m)
    <3>1. /\ said \in Pk /\ Only(stamped, said, Queue) /\ Says(stamped, said, {m}, 1)
          /\ Len(stamped.msg) < MaxMsg => m \in Told(said)
      BY <1>2, <1>3, SayType, SaySays
    <3>2. told = said
      BY <2>1
    <3> HIDE DEF said, told
    <3>3. Only(p, said, {"last_report_day"} \cup Queue)
      BY <1>2, <3>1, OnlyThen
    <3>4. said.last_report_day = stamped.last_report_day
      BY <3>1 DEF Only, Fields, Queue
    <3>5. Says(p, said, {m}, 1)
      BY <1>2, <3>1 DEF Says, Told
    <3>6. QED
      BY <1>2, <2>1, <3>1, <3>2, <3>3, <3>4, <3>5 DEF Only
  <2>2. CASE ~(p.last_report_day < p.day_no)
    BY <2>2 DEF Only
  <2>3. QED
    BY <2>1, <2>2
<1> HIDE DEF told
<1>5. CASE day # p.day_no /\ q = DayRollover(told, day, now)
  <2> DEFINE kept == {v \in told.visit : v >= cutoff}
  <2>1. q = [told EXCEPT !.day_no = day, !.day_messages = 0, !.day_hist_short = FALSE,
                         !.visit = kept]
    BY <1>5 DEF DayRollover
  <2> HIDE DEF kept, q, day
  <2>2. /\ Only(told, q, {"day_no", "day_messages", "day_hist_short", "visit"})
        /\ q.day_no = day /\ q.visit = kept /\ q.msg = told.msg
        /\ q.last_report_day = told.last_report_day
    BY <1>4, <2>1 DEF Pk, Only, Fields
  <2>3. Only(p, q, Queue \cup {"day_no", "last_report_day", "day_hist_short", "visit"})
    BY <1>4, <2>2 DEF Only, Queue
  <2>4. told.visit = p.visit
    BY <1>4 DEF Only, Fields, Queue
  <2>5. kept \subseteq p.visit /\ {v \in p.visit : v + 2 * DaySec >= now} \subseteq kept
    <3>1. p.visit \subseteq Nat
      BY DEF Pk
    <3>2. \A v \in Nat : v + 2 * DaySec >= now => v >= cutoff
      BY Constants
    <3> HIDE DEF cutoff
    <3>3. QED
      BY <2>4, <3>1, <3>2 DEF kept
  <2>6. /\ p.last_report_day < p.day_no =>
             /\ Says(p, q, {m}, 1)
             /\ Len(p.msg) < MaxMsg => m \in Told(q)
    BY <1>4, <2>2, SaysKept DEF Told
  <2>7. QED
    BY <1>4, <1>5, <2>2, <2>3, <2>4, <2>5, <2>6 DEF q, m, day
<1>6. QED
  BY <1>1, <1>5

-----------------------------------------------------------------------------
(* The calls of the platform as a whole *)

\* What a poll may say: all that it announces is an edge of what p knew.
PollNotes(p) ==
  {Note("contact", 0), Note("thirst", 0), Note("history", 0), Note("history", 1)}
    \cup CriticalNotes(p) \cup GaugeNotes(p)

\* What pk_poll_ok, called with reading s and the records of fresh, makes of p.
PollOkEffect(p, q, s, fresh, hist, now) ==
  /\ q \in Pk
  /\ p.last_drink_ts <= q.last_drink_ts /\ q.last_drink_ts <= now
  /\ q.day_no = p.day_no /\ q.last_report_day = p.last_report_day
  /\ q.last_ok_ts = now
  /\ q.visit = AddVisits(p.visit, fresh)
  /\ q.visit \subseteq p.visit \cup fresh
  /\ (\A v \in p.visit : v <= p.last_drink_ts) =>
       \A v \in fresh : v <= q.last_drink_ts
  /\ q.hist_short_streak = 0 => hist = "ok"
  /\ q.hist_short_streak >= 3 => q.a_hist_blind
  /\ q.last = IF s.valid THEN s ELSE p.last
  /\ IF q.last.valid
     THEN /\ q.a_no_water = q.last.no_water /\ q.a_fault = q.last.fault
          /\ q.battery_latch = IF q.last.battery = 0 THEN {}
                               ELSE p.battery_latch \cup 1..q.last.battery
     ELSE /\ q.a_no_water = p.a_no_water /\ q.a_fault = p.a_fault
          /\ q.battery_latch = p.battery_latch
  /\ q.thirst_level < p.thirst_level => p.last_drink_ts < q.last_drink_ts
  /\ \E level \in Nat :
       /\ level > p.thirst_level \/ p.last_drink_ts < q.last_drink_ts
       /\ Says(p, q, PollNotes(p) \cup {Note("thirst", level)},
               6 + NewThresholds(p, q.last))
  /\ \E e \in Pk : q = CheckThirst(e, now) /\ Told(e) \subseteq Told(p) \cup PollNotes(p)

\* pk_poll_ok.
LEMMA PollOkDoes ==
  ASSUME NEW now \in Nat, NEW p \in Pk, p.last_drink_ts <= now, NEW s \in PkState,
         NEW fresh \in SUBSET Nat, \A x \in fresh : x <= now,
         NEW hist \in {"ok", "short"}
  PROVE  PollOkEffect(p, PollOk(p, s, fresh, hist, now), s, fresh, hist, now)
<1> DEFINE a == TakeContact(p, now)
           b == TakeReading(a, s)
           c == TakeVisits(b, fresh)
           read == TakeHistory(c, hist)
           calm == ClearThirst(read, p.last_drink_ts)
           d == CheckReading(calm)
           e == CheckHistory(d)
           q == CheckThirst(e, now)
<1>1. /\ a \in Pk /\ Only(p, a, Queue \cup {"unreachable", "last_ok_ts"})
      /\ Says(p, a, {Note("contact", 0)}, 1) /\ a.last_ok_ts = now
  BY ContactType, ContactSays
<1> HIDE DEF a
<1>2. /\ b \in Pk /\ Only(a, b, {"last"}) /\ b.last = IF s.valid THEN s ELSE a.last
  BY <1>1, TakeReadingType, ZenonT(30) DEF TakeReading, Pk, Only, Fields
<1> HIDE DEF b
<1>3. /\ p.last = a.last /\ p.visit = b.visit /\ p.last_drink_ts = b.last_drink_ts
      /\ p.thirst_level = b.thirst_level /\ p.hist_short_streak = b.hist_short_streak
      /\ b.msg = a.msg /\ b.last_ok_ts = now
      /\ p.day_no = b.day_no /\ p.last_report_day = b.last_report_day
      /\ p.a_no_water = b.a_no_water /\ p.a_fault = b.a_fault
      /\ p.battery_latch = b.battery_latch /\ p.filter_latch = b.filter_latch
  BY <1>1, <1>2 DEF Only, Fields, Queue
<1>4. /\ c \in Pk /\ Only(b, c, {"visit", "last_drink_ts"})
      /\ c.visit = AddVisits(p.visit, fresh) /\ c.visit \subseteq p.visit \cup fresh
      /\ p.last_drink_ts <= c.last_drink_ts /\ c.last_drink_ts <= now
      /\ \A v \in fresh \ p.visit : v <= c.last_drink_ts
  BY <1>2, <1>3, TakeVisitsDoes
<1> HIDE DEF c
<1>5. /\ read \in Pk /\ Only(c, read, {"hist_short_streak", "day_hist_short", "baseline_ready"})
      /\ read.hist_short_streak = 0 => hist = "ok"
  <2>1. read \in Pk
    BY <1>4, TakeHistoryType
  <2>2. c.hist_short_streak \in 0..StreakMax
    BY <1>4 DEF Pk
  <2> DEFINE streak == IF c.hist_short_streak < StreakMax
                       THEN c.hist_short_streak + 1 ELSE c.hist_short_streak
  <2>3. streak # 0
    BY <2>2, Constants
  <2>4. IF hist = "short"
        THEN read = [c EXCEPT !.hist_short_streak = streak, !.day_hist_short = TRUE]
        ELSE read = [c EXCEPT !.hist_short_streak = 0, !.baseline_ready = TRUE]
    BY DEF TakeHistory
  <2> HIDE DEF streak, read
  <2>5. QED
    BY <1>4, <2>1, <2>3, <2>4 DEF Pk, Only, Fields
<1> HIDE DEF read
<1>6. p.last_drink_ts \in Nat /\ p.thirst_level \in 0..2
  BY DEF Pk
<1>7. /\ calm \in Pk /\ Only(read, calm, Queue \cup {"thirst_level"})
      /\ Says(read, calm, {Note("thirst", 0)}, 1)
      /\ IF read.thirst_level > 0 /\ read.last_drink_ts > p.last_drink_ts
         THEN calm.thirst_level = 0 ELSE calm.thirst_level = read.thirst_level
  BY <1>5, <1>6, ClearThirstType, ClearThirstSays
<1> HIDE DEF calm
<1>8. /\ d \in Pk
      /\ Only(calm, d, Queue \cup {"a_no_water", "a_fault", "battery_latch", "filter_latch"})
      /\ Says(calm, d, CriticalNotes(calm) \cup GaugeNotes(calm),
              2 + NewThresholds(calm, calm.last))
      /\ IF calm.last.valid
         THEN /\ d.a_no_water = calm.last.no_water /\ d.a_fault = calm.last.fault
              /\ d.battery_latch = IF calm.last.battery = 0 THEN {}
                                   ELSE calm.battery_latch \cup 1..calm.last.battery
         ELSE d = calm
  BY <1>7, CheckReadingType, CheckReadingSays
<1> HIDE DEF d
<1>9. /\ e \in Pk /\ Only(d, e, Queue \cup {"a_hist_blind"})
      /\ Says(d, e, {Note("history", 0), Note("history", 1)}, 1)
  BY <1>8, CheckHistoryType, CheckHistorySays
<1> HIDE DEF e
<1>10. /\ read.visit = c.visit /\ read.last_drink_ts = c.last_drink_ts
       /\ read.thirst_level = p.thirst_level /\ read.msg = a.msg
       /\ read.last = b.last /\ read.last_ok_ts = now
       /\ read.day_no = p.day_no /\ read.last_report_day = p.last_report_day
       /\ read.a_no_water = p.a_no_water /\ read.a_fault = p.a_fault
       /\ read.battery_latch = p.battery_latch /\ read.filter_latch = p.filter_latch
  BY <1>3, <1>4, <1>5 DEF Only, Fields
<1>11. /\ calm.visit = c.visit /\ calm.last_drink_ts = c.last_drink_ts
       /\ calm.last = b.last /\ calm.last_ok_ts = now
       /\ calm.hist_short_streak = read.hist_short_streak
       /\ calm.day_no = p.day_no /\ calm.last_report_day = p.last_report_day
       /\ calm.a_no_water = p.a_no_water /\ calm.a_fault = p.a_fault
       /\ calm.battery_latch = p.battery_latch /\ calm.filter_latch = p.filter_latch
  BY <1>7, <1>10 DEF Only, Fields, Queue
<1>12. /\ e.visit = c.visit /\ e.last_drink_ts = c.last_drink_ts
       /\ e.last = b.last /\ e.last_ok_ts = now
       /\ e.hist_short_streak = read.hist_short_streak
       /\ e.day_no = p.day_no /\ e.last_report_day = p.last_report_day
       /\ e.thirst_level = calm.thirst_level
       /\ e.a_no_water = d.a_no_water /\ e.a_fault = d.a_fault
       /\ e.battery_latch = d.battery_latch
  BY <1>8, <1>9, <1>11 DEF Only, Fields, Queue
<1>13. /\ q \in Pk /\ Only(e, q, Queue \cup {"thirst_level"})
       /\ Says(e, q, {Note("thirst", e.thirst_level + 1)}, 1)
       /\ q.thirst_level >= e.thirst_level
  BY <1>4, <1>9, <1>12, CheckThirstType, CheckThirstSays
<1> HIDE DEF q
<1>14. /\ q.visit = c.visit /\ q.last_drink_ts = c.last_drink_ts
       /\ q.last = b.last /\ q.last_ok_ts = now
       /\ q.hist_short_streak = read.hist_short_streak
       /\ q.day_no = p.day_no /\ q.last_report_day = p.last_report_day
       /\ q.a_no_water = d.a_no_water /\ q.a_fault = d.a_fault
       /\ q.battery_latch = d.battery_latch
  BY <1>12, <1>13 DEF Only, Fields, Queue
<1>15. IF q.last.valid
       THEN /\ q.a_no_water = q.last.no_water /\ q.a_fault = q.last.fault
            /\ q.battery_latch = IF q.last.battery = 0 THEN {}
                                 ELSE p.battery_latch \cup 1..q.last.battery
       ELSE /\ q.a_no_water = p.a_no_water /\ q.a_fault = p.a_fault
            /\ q.battery_latch = p.battery_latch
  BY <1>8, <1>11, <1>14
<1> DEFINE level == e.thirst_level + 1
           t == {Note("thirst", level)}
           n == NewThresholds(p, calm.last)
<1>16. calm.thirst_level \in 0..2 /\ q.thirst_level \in 0..2 /\ c.last_drink_ts \in Nat
  BY <1>4, <1>7, <1>13 DEF Pk
<1>17. /\ level \in Nat
       /\ level > p.thirst_level \/ p.last_drink_ts < q.last_drink_ts
       /\ q.thirst_level < p.thirst_level => p.last_drink_ts < q.last_drink_ts
  BY <1>6, <1>7, <1>10, <1>12, <1>13, <1>14, <1>16
<1>18. calm.last \in PkState
  BY <1>7 DEF Pk
<1>19. /\ n \in Nat /\ 2 + n \in Nat /\ 6 + NewThresholds(p, q.last) = 6 + n
       /\ 2 + NewThresholds(calm, calm.last) = 2 + n
  <2>1. n \in Nat
    BY <1>18, NewThresholdsFew
  <2>2. q.last = calm.last
    BY <1>11, <1>14
  <2>3. NewThresholds(calm, calm.last) = n
    BY <1>11 DEF NewThresholds
  <2> HIDE DEF n
  <2>4. 2 + n \in Nat
    BY <2>1
  <2>5. QED
    BY <2>1, <2>2, <2>3, <2>4 DEF n
<1> HIDE DEF n, level
<1>20. CriticalNotes(calm) \cup GaugeNotes(calm) = CriticalNotes(p) \cup GaugeNotes(p)
  BY <1>11 DEF CriticalNotes, GaugeNotes
<1> DEFINE M == PollNotes(p) \cup t
<1>21. Says(p, read, M, 1)
  <2>1. Says(p, read, {Note("contact", 0)}, 1)
    BY <1>1, <1>10, SaysKept
  <2>2. QED
    BY <1>5, <2>1, SaysMore DEF PollNotes
<1>22. Says(read, calm, M, 1)
  BY <1>5, <1>7, SaysMore DEF PollNotes
<1>23. Says(calm, d, M, 2 + n)
  <2>1. CriticalNotes(calm) \cup GaugeNotes(calm) \subseteq M
    BY <1>20 DEF PollNotes
  <2>2. CASE calm.last.valid
    <3>1. Says(calm, d, CriticalNotes(calm) \cup GaugeNotes(calm), 2 + n)
      BY <1>8, <1>19, <2>2
    <3>2. QED
      BY <1>7, <1>8, <1>19, <2>1, <3>1, SaysMore
  <2>3. CASE ~ calm.last.valid
    <3>1. d = calm
      BY <1>8, <2>3
    <3>2. Says(calm, d, {}, 0)
      BY <1>7, <3>1, SaysNothing
    <3>3. 0 <= 2 + n /\ 2 + n \in Nat
      BY <1>19
    <3>4. QED
      BY <1>7, <1>8, <3>2, <3>3, SaysMore
  <2>4. QED
    BY <2>2, <2>3
<1>24. Says(d, e, M, 1)
  <2>1. {Note("history", 0), Note("history", 1)} \subseteq M
    BY DEF PollNotes
  <2>2. QED
    BY <1>8, <1>9, <2>1, SaysMore
<1>25. Says(e, q, M, 1)
  BY <1>9, <1>13, SaysMore DEF level
<1> HIDE DEF M, t
<1>26. Says(p, calm, M \cup M, 1 + 1)
  BY <1>5, <1>7, <1>21, <1>22, SaysThen
<1>27. Says(p, d, M \cup M \cup M, 1 + 1 + (2 + n))
  <2>1. ASSUME NEW a2 \in Nat, NEW m \in Nat,
               Says(p, calm, M \cup M, a2), Says(calm, d, M, m)
        PROVE  Says(p, d, (M \cup M) \cup M, a2 + m)
    BY <1>7, <1>8, <2>1, SaysThen
  <2>2. 1 + 1 \in Nat
    OBVIOUS
  <2>3. QED
    BY <1>19, <1>23, <1>26, <2>1, <2>2
<1>28. Says(d, q, M \cup M, 1 + 1)
  BY <1>8, <1>9, <1>13, <1>24, <1>25, SaysThen
<1>29. Says(p, q, (M \cup M \cup M) \cup (M \cup M), (1 + 1 + (2 + n)) + (1 + 1))
  BY <1>8, <1>13, <1>19, <1>27, <1>28, SaysThen
<1>30. Says(p, q, M, 6 + n)
  <2>1. (1 + 1 + (2 + n)) + (1 + 1) = 6 + n
    BY <1>19
  <2>2. (M \cup M \cup M) \cup (M \cup M) = M
    OBVIOUS
  <2>3. QED
    BY <1>29, <2>1, <2>2
<1>31. \E lev \in Nat :
         /\ lev > p.thirst_level \/ p.last_drink_ts < q.last_drink_ts
         /\ Says(p, q, PollNotes(p) \cup {Note("thirst", lev)},
                 6 + NewThresholds(p, q.last))
  BY <1>17, <1>19, <1>30 DEF M, t
<1>32. PollOk(p, s, fresh, hist, now) = q
  BY DEF PollOk, q, e, d, calm, read, c, b, a
<1>33. (\A v \in p.visit : v <= p.last_drink_ts) => \A v \in fresh : v <= q.last_drink_ts
  <2>1. p.visit \in SUBSET Nat
    BY DEF Pk
  <2>2. ASSUME \A v \in p.visit : v <= p.last_drink_ts, NEW v \in fresh
        PROVE  v <= c.last_drink_ts
    <3>1. CASE v \in p.visit
      BY <1>4, <1>6, <1>16, <2>2, <3>1
    <3>2. CASE v \notin p.visit
      BY <1>4, <3>2
    <3> QED
      BY <3>1, <3>2
  <2> QED
    BY <1>14, <2>2
<1>34. q.hist_short_streak >= 3 => q.a_hist_blind
  <2>1. d.hist_short_streak \in Nat /\ d.a_hist_blind \in BOOLEAN
    BY <1>8, Constants DEF Pk
  <2>2. e.hist_short_streak = d.hist_short_streak /\ q.hist_short_streak = e.hist_short_streak
        /\ q.a_hist_blind = e.a_hist_blind
    BY <1>9, <1>13 DEF Only, Fields, Queue
  <2>3. e.hist_short_streak >= 3 => e.a_hist_blind
    <3>1. Say(d, Note("history", 1)) \in Pk
      BY <1>8, SayType, NoteType DEF Problems
    <3>2. CASE d.hist_short_streak >= 3 /\ ~ d.a_hist_blind
      <4>1. e = [Say(d, Note("history", 1)) EXCEPT !.a_hist_blind = TRUE]
        BY <3>2 DEF CheckHistory, e
      <4> QED
        BY <3>1, <4>1 DEF Pk
    <3>3. CASE d.a_hist_blind /\ d.hist_short_streak # 0
      <4>1. e = d
        BY <3>3 DEF CheckHistory, e
      <4> QED
        BY <3>3, <4>1
    <3>4. CASE ~ (d.hist_short_streak >= 3)
      BY <2>2, <3>4
    <3> QED
      BY <2>1, <2>2, <3>2, <3>3, <3>4
  <2> QED
    BY <2>2, <2>3
<1>35. Told(e) \subseteq Told(p) \cup PollNotes(p)
  <2>1. Told(read) \subseteq Told(p) \cup PollNotes(p)
    BY <1>1, <1>10 DEF Says, Told, PollNotes
  <2>2. Told(calm) \subseteq Told(read) \cup PollNotes(p)
    BY <1>7 DEF Says, PollNotes
  <2>3. Told(d) \subseteq Told(calm) \cup PollNotes(p)
    BY <1>8, <1>20 DEF Says, PollNotes
  <2>4. Told(e) \subseteq Told(d) \cup PollNotes(p)
    BY <1>9 DEF Says, PollNotes
  <2> QED
    BY <2>1, <2>2, <2>3, <2>4
<1>36. \E before \in Pk : q = CheckThirst(before, now)
                          /\ Told(before) \subseteq Told(p) \cup PollNotes(p)
  BY <1>9, <1>35 DEF q
<1>37. QED
  BY <1>2, <1>3, <1>4, <1>5, <1>13, <1>14, <1>15, <1>17, <1>31, <1>32, <1>33, <1>34, <1>36
     DEF PollOkEffect

\* pk_tick.
LEMMA TickDoes ==
  ASSUME NEW now \in Nat, NEW p \in Pk, p.last_drink_ts <= now
  PROVE  LET q == Tick(p, now)
         IN  /\ q \in Pk
             /\ Only(p, q, Queue \cup {"day_no", "last_report_day", "day_hist_short", "visit",
                                       "unreachable", "thirst_level"})
             /\ q.visit \subseteq p.visit
             /\ {v \in p.visit : v + 2 * DaySec >= now} \subseteq q.visit
             /\ q.thirst_level >= p.thirst_level
             /\ Told(p) \subseteq Told(q)
             /\ Told(q) \subseteq Told(p) \cup {TheReport(p), Note("contact", 1),
                                                Note("thirst", p.thirst_level + 1)}
             /\ \/ q.day_no = p.day_no /\ q.last_report_day = p.last_report_day
                \/ /\ q.day_no = DayOf(now) /\ DayOf(now) # p.day_no
                   /\ IF p.last_report_day < p.day_no
                      THEN /\ q.last_report_day = p.day_no
                           /\ Len(p.msg) < MaxMsg => TheReport(p) \in Told(q)
                      ELSE q.last_report_day = p.last_report_day
             /\ \E e \in Pk :
                  /\ q = CheckThirst(e, now)
                  /\ Only(p, e, Queue \cup {"day_no", "last_report_day", "day_hist_short",
                                           "visit", "unreachable"})
                  /\ Told(e) \subseteq Told(p) \cup {TheReport(p), Note("contact", 1)}
<1> DEFINE c == CloseDay(p, now)
           k == CheckContact(c, now)
           q == CheckThirst(k, now)
           days == Queue \cup {"day_no", "last_report_day", "day_hist_short", "visit"}
           recent == {v \in p.visit : v + 2 * DaySec >= now}
<1>1. /\ c \in Pk /\ Only(p, c, days)
      /\ c.visit \subseteq p.visit /\ recent \subseteq c.visit
      /\ Told(p) \subseteq Told(c) /\ Told(c) \subseteq Told(p) \cup {TheReport(p)}
      /\ \/ c.day_no = p.day_no /\ c.last_report_day = p.last_report_day
         \/ /\ c.day_no = DayOf(now) /\ DayOf(now) # p.day_no
            /\ IF p.last_report_day < p.day_no
               THEN /\ c.last_report_day = p.day_no
                    /\ Len(p.msg) < MaxMsg => TheReport(p) \in Told(c)
               ELSE c.last_report_day = p.last_report_day
  <2>1. c \in Pk
    BY CloseDayType
  <2>2. CASE c = p
    BY <2>1, <2>2 DEF Only
  <2>3. CASE /\ DayOf(now) # p.day_no
             /\ Only(p, c, days)
             /\ c.day_no = DayOf(now)
             /\ c.visit \subseteq p.visit
             /\ recent \subseteq c.visit
             /\ IF p.last_report_day < p.day_no
                THEN /\ c.last_report_day = p.day_no
                     /\ Says(p, c, {TheReport(p)}, 1)
                     /\ Len(p.msg) < MaxMsg => TheReport(p) \in Told(c)
                ELSE /\ c.last_report_day = p.last_report_day
                     /\ c.msg = p.msg
    <3> HIDE DEF c, days, recent
    <3>1. Told(p) \subseteq Told(c) /\ Told(c) \subseteq Told(p) \cup {TheReport(p)}
      BY <2>3 DEF Says, Told
    <3>2. QED
      BY <2>1, <2>3, <3>1
  <2>4. QED
    BY <2>2, <2>3, CloseDaySays
<1> HIDE DEF c
<1>2. /\ k \in Pk /\ Only(c, k, Queue \cup {"unreachable"})
      /\ Says(c, k, {Note("contact", 1)}, 1)
  BY <1>1, ContactType, ContactSays
<1> HIDE DEF k
<1>3. /\ k.visit = c.visit /\ k.last_drink_ts = p.last_drink_ts
      /\ k.thirst_level = p.thirst_level
      /\ k.day_no = c.day_no /\ k.last_report_day = c.last_report_day
  BY <1>1, <1>2 DEF Only, Fields, Queue
<1>4. /\ q \in Pk /\ Only(k, q, Queue \cup {"thirst_level"})
      /\ Says(k, q, {Note("thirst", p.thirst_level + 1)}, 1)
      /\ q.thirst_level >= p.thirst_level
  BY <1>2, <1>3, CheckThirstType, CheckThirstSays
<1> HIDE DEF q
<1>5. /\ q.visit = c.visit
      /\ q.day_no = c.day_no /\ q.last_report_day = c.last_report_day
  BY <1>3, <1>4 DEF Only, Fields, Queue
<1>6. Told(c) \subseteq Told(q)
      /\ Told(q) \subseteq Told(c) \cup {Note("contact", 1), Note("thirst", p.thirst_level + 1)}
  BY <1>2, <1>4 DEF Says
<1>7. Only(p, q, Queue \cup {"day_no", "last_report_day", "day_hist_short", "visit",
                             "unreachable", "thirst_level"})
  BY <1>1, <1>2, <1>4 DEF Only
<1>8. Tick(p, now) = q
  BY DEF Tick, q, k, c
<1>9. Told(q) \subseteq Told(p) \cup {TheReport(p), Note("contact", 1),
                                      Note("thirst", p.thirst_level + 1)}
  BY <1>1, <1>6
<1>10. Told(p) \subseteq Told(q)
  BY <1>1, <1>6
<1> HIDE DEF recent
<1>11. \/ q.day_no = p.day_no /\ q.last_report_day = p.last_report_day
       \/ /\ q.day_no = DayOf(now) /\ DayOf(now) # p.day_no
          /\ IF p.last_report_day < p.day_no
             THEN /\ q.last_report_day = p.day_no
                  /\ Len(p.msg) < MaxMsg => TheReport(p) \in Told(q)
             ELSE q.last_report_day = p.last_report_day
  BY <1>1, <1>5, <1>6
<1>12. q.visit \subseteq p.visit /\ recent \subseteq q.visit
  BY <1>1, <1>5
<1>13. Only(p, k, Queue \cup {"day_no", "last_report_day", "day_hist_short",
                             "visit", "unreachable"})
  BY <1>1, <1>2 DEF Only
<1>14. Told(k) \subseteq Told(p) \cup {TheReport(p), Note("contact", 1)}
  BY <1>1, <1>2 DEF Says
<1>15. \E e \in Pk :
         /\ q = CheckThirst(e, now)
         /\ Only(p, e, Queue \cup {"day_no", "last_report_day", "day_hist_short",
                                  "visit", "unreachable"})
         /\ Told(e) \subseteq Told(p) \cup {TheReport(p), Note("contact", 1)}
  BY <1>2, <1>13, <1>14 DEF q
<1>16. QED
  BY <1>4, <1>7, <1>8, <1>9, <1>10, <1>11, <1>12, <1>15 DEF recent

\* A list that has room for the visits of two days loses none of them to an
\* older record, whichever branch of add_visit is taken.
LEMMA RecentStay ==
  ASSUME NEW t \in Nat, NEW n \in Nat, NEW D \in SUBSET (0..n),
         NEW visit \in SUBSET D, NEW fresh \in SUBSET D,
         Cardinality({v \in D : v + 2 * DaySec >= t}) < MaxVisits
  PROVE  {v \in visit \cup fresh : v + 2 * DaySec >= t} \subseteq AddVisits(visit, fresh)
<1> DEFINE R == {v \in D : v + 2 * DaySec >= t}
           S == visit \cup fresh
           new == fresh \ visit
<1>1. D \in SUBSET Nat /\ 2 * DaySec \in Nat /\ MaxVisits \in Nat
  BY Constants
<1>2. IsFiniteSet(D) /\ IsFiniteSet(R) /\ Cardinality(R) \in Nat
  <2>1. IsFiniteSet(0..n)
    BY FS_Interval
  <2>2. IsFiniteSet(D) /\ IsFiniteSet(R)
    BY <2>1, FS_Subset
  <2>3. QED
    BY <2>2, FS_CardinalityType
<1>3. \A x \in R, y \in D : x <= y => y \in R
  BY <1>1
<1>4. SUFFICES ASSUME NEW x \in S, x \in R PROVE x \in AddVisits(visit, fresh)
  OBVIOUS
<1>5. Cardinality(R) < MaxVisits
  OBVIOUS
<1> HIDE DEF R
<1>6. x \in Newest(MaxVisits, S)
  <2> DEFINE B == {y \in S : y > x}
  <2>1. B \in SUBSET (R \ {x})
    <3>1. ASSUME NEW y \in S, y > x PROVE y \in R /\ y # x
      BY <1>1, <1>3, <1>4, <3>1
    <3>2. QED
      BY <3>1
  <2>2. IsFiniteSet(R \ {x}) /\ Cardinality(R \ {x}) = Cardinality(R) - 1
    BY <1>2, <1>4, FS_RemoveElement
  <2>3. IsFiniteSet(B) /\ Cardinality(B) <= Cardinality(R \ {x})
    BY <2>1, <2>2, FS_Subset
  <2>4. Cardinality(B) \in Nat
    BY <2>3, FS_CardinalityType
  <2>5. Cardinality(B) < MaxVisits
    BY <1>1, <1>2, <1>5, <2>2, <2>3, <2>4
  <2>6. QED
    BY <2>5 DEF Newest
<1>7. CASE /\ Cardinality(visit) = MaxVisits
           /\ new # {}
           /\ \A z \in new, y \in visit : z < y
           /\ \A y \in visit \cap fresh : \E z \in visit : z < y
  <2>1. ~ (visit \subseteq R)
    <3>1. ASSUME visit \subseteq R PROVE FALSE
      <4>1. Cardinality(visit) <= Cardinality(R) /\ Cardinality(visit) \in Nat
        BY <1>2, <3>1, FS_Subset, FS_CardinalityType
      <4>2. QED
        BY <1>1, <1>2, <1>5, <1>7, <4>1
    <3>2. QED
      BY <3>1
  <2>2. PICK m \in visit : \A y \in visit : m <= y
    BY <1>1, <2>1, LeastElement
  <2>3. Min(visit) \in visit /\ \A y \in visit : Min(visit) <= y
    BY <2>2 DEF Min
  <2>4. x \in visit
    <3>1. ASSUME x \in new PROVE FALSE
      <4>1. \A y \in visit : x <= y
        BY <1>1, <1>7, <3>1
      <4>2. QED
        BY <1>3, <1>4, <2>1, <4>1
    <3>2. QED
      BY <3>1
  <2>5. x # Min(visit)
    BY <1>3, <1>4, <2>1, <2>3
  <2>6. x \in (visit \ {Min(visit)}) \cup {Max(new)}
    BY <2>4, <2>5
  <2>7. AddVisits(visit, fresh) = (visit \ {Min(visit)}) \cup {Max(new)}
    BY <1>7 DEF AddVisits
  <2>8. QED
    BY <2>6, <2>7
<1>8. CASE ~ (/\ Cardinality(visit) = MaxVisits
              /\ new # {}
              /\ \A z \in new, y \in visit : z < y
              /\ \A y \in visit \cap fresh : \E z \in visit : z < y)
  <2>1. AddVisits(visit, fresh) = Newest(MaxVisits, S)
    BY <1>8 DEF AddVisits
  <2>2. QED
    BY <1>6, <2>1
<1>9. QED
  BY <1>7, <1>8
=============================================================================
