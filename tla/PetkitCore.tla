----------------------------- MODULE PetkitCore -----------------------------
(***************************************************************************)
(* core/petkit_core.c: the platform-free monitoring core.                  *)
(*                                                                         *)
(* The C core is one structure, pk_t, and functions that the platform      *)
(* layer calls on it from a single thread.  Here pk_t is a record and      *)
(* every function is an operator from a record to a record, so that a call *)
(* sequence in C is a composition here, in the same order.  Modules that   *)
(* drive the core keep the record in a variable.                           *)
(*                                                                         *)
(* Abstractions:                                                           *)
(*  - time is a natural number, in the units the configuration constants   *)
(*    use, and local time is UTC (tz_offset_sec shifts every operand of    *)
(*    every comparison alike);                                             *)
(*  - battery_pct and filter_pct are replaced by the number of configured  *)
(*    thresholds the reading is at or below, 0..3, which is all the core   *)
(*    compares them for;                                                   *)
(*  - a visit is its timestamp; the list, which the C code keeps sorted    *)
(*    and without duplicates, is the set of its timestamps (VisitList      *)
(*    relates the array loops to this set);                                *)
(*  - a message is its kind and the facts it states.  An all-clear is the  *)
(*    kind of its alarm at level 0.  Figures that are only printed (poll   *)
(*    counters, pump time, uptime, durations) are left out.                *)
(***************************************************************************)
EXTENDS Integers, Sequences, FiniteSets, FiniteSetsExt

CONSTANTS
  DaySec,          \* length of a civil day
  SettleSec,       \* cfg.report_settle_min, in the unit of time
  PollSec,         \* cfg.poll_sec
  RecordLag,       \* PK_RECORD_LAG_SEC
  ThirstSec,       \* cfg.thirst_sec
  EscalateSec,     \* cfg.thirst_escalate_sec
  UnreachableSec,  \* cfg.unreachable_sec
  MaxVisits,       \* PK_MAX_VISITS
  MaxMsg,          \* PK_MAX_MSG
  StreakMax        \* where hist_short_streak saturates, 255 in C

ASSUME CoreAssumption ==
  /\ DaySec \in Nat \ {0}
  /\ {SettleSec, PollSec, RecordLag, ThirstSec, EscalateSec, UnreachableSec}
       \subseteq Nat
  /\ MaxVisits \in Nat \ {0}
  /\ MaxMsg \in Nat \ {0}
  /\ StreakMax \in Nat /\ StreakMax >= 3

Time == Nat

\* The alarms that have an all-clear; battery, filter and report do not.
Problems == {"water", "fault", "contact", "history", "thirst"}

Msg == [kind : Problems \cup {"battery", "filter", "report", "status"},
        arg : Nat, drinks : SUBSET Time, short : BOOLEAN, alerts : Nat]

Note(kind, arg) ==
  [kind |-> kind, arg |-> arg, drinks |-> {}, short |-> FALSE, alerts |-> 0]

PkState == [valid : BOOLEAN, power : BOOLEAN, no_water : BOOLEAN,
            fault : BOOLEAN, battery : 0..3, filter : 0..3]

\* What memset leaves in pk_t.last: no reading yet.
NoReading == [valid |-> FALSE, power |-> FALSE, no_water |-> FALSE,
              fault |-> FALSE, battery |-> 3, filter |-> 3]

Pk == [last : PkState, visit : SUBSET Time, last_drink_ts : Time,
       baseline_ready : BOOLEAN, hist_short_streak : 0..StreakMax,
       a_hist_blind : BOOLEAN, day_hist_short : BOOLEAN,
       a_no_water : BOOLEAN, a_fault : BOOLEAN, thirst_level : 0..2,
       battery_latch : SUBSET (1..3), filter_latch : SUBSET (1..3),
       unreachable : BOOLEAN, last_ok_ts : Time, day_messages : Nat,
       day_no : Nat, last_report_day : Nat \cup {-1},
       msg : {q \in Seq(Msg) : Len(q) <= MaxMsg}]

-----------------------------------------------------------------------------
(* The clock *)

DayOf(t) == t \div DaySec
SecOfDay(t) == t % DaySec

-----------------------------------------------------------------------------
(* The outbound queue *)

\* msg_out for each of ms in turn: what does not fit is dropped without a
\* trace, and only what was stored is counted.
SayAll(p, ms) ==
  LET room == MaxMsg - Len(p.msg)
      n    == IF Len(ms) <= room THEN Len(ms) ELSE room
  IN  [p EXCEPT !.msg = @ \o SubSeq(ms, 1, n), !.day_messages = @ + n]

Say(p, m) == SayAll(p, <<m>>)

\* Fault: the answer to a command is counted as an alert.
ReplyCounted(p, m) == Say(p, m)

\* reply: queued like a message, not counted as an alert.
Reply(p, m) == [Say(p, m) EXCEPT !.day_messages = p.day_messages]

MsgClear(p) == [p EXCEPT !.msg = <<>>]

\* pk_msg_drop: the platform swallows the start-up alarms.
MsgDrop(p) ==
  [p EXCEPT !.day_messages = IF @ > Len(p.msg) THEN @ - Len(p.msg) ELSE 0,
            !.msg = <<>>]

-----------------------------------------------------------------------------
(* The rolling window of visits *)

\* The n latest of S.
Newest(n, S) == {x \in S : Cardinality({y \in S : y > x}) < n}

\* The window after add_visit has been called on every element of fresh,
\* oldest first.  A full window that is offered nothing but records older
\* than all it holds loses its oldest record to the latest of them.
AddVisits(visit, fresh) ==
  LET new == fresh \ visit
  IN  IF /\ Cardinality(visit) = MaxVisits
         /\ new # {}
         /\ \A x \in new, y \in visit : x < y
         /\ \A y \in visit \cap fresh : \E z \in visit : z < y
      THEN (visit \ {Min(visit)}) \cup {Max(new)}
      ELSE Newest(MaxVisits, visit \cup fresh)

\* The records of fresh for which add_visit reaches its last line: those that
\* were not in the list when their turn came.  The oldest one held may have
\* been pushed out by an older record just before its own turn.
Inserted(visit, fresh) ==
  LET new == fresh \ visit
  IN  new \cup {y \in visit \cap fresh :
                  /\ Cardinality(visit) = MaxVisits
                  /\ \A z \in visit : y <= z
                  /\ \E x \in new : x < y}

\* Fault: a late record moves last_drink_ts back.
TakeVisitsBackwards(p, fresh) ==
  LET in == Inserted(p.visit, fresh)
  IN  [p EXCEPT !.visit = AddVisits(p.visit, fresh),
                !.last_drink_ts = IF in # {} THEN Max(in) ELSE @]

TakeVisits(p, fresh) ==
  LET in == Inserted(p.visit, fresh)
  IN  [p EXCEPT !.visit = AddVisits(p.visit, fresh),
                !.last_drink_ts = IF \E v \in in : v > @ THEN Max(in) ELSE @]

-----------------------------------------------------------------------------
(* The alarm engine *)

DeviceUnhealthy(p) ==
  \/ ~p.last.valid
  \/ p.last.no_water
  \/ p.last.fault
  \/ ~p.last.power
  \/ p.unreachable

DueNote(kind, level, due) ==
  IF level \in due THEN <<Note(kind, level)>> ELSE <<>>

\* The two gauges are visited threshold by threshold, battery first.
ThresholdNotes(battery, filter) ==
  DueNote("battery", 1, battery) \o DueNote("filter", 1, filter)
    \o DueNote("battery", 2, battery) \o DueNote("filter", 2, filter)
    \o DueNote("battery", 3, battery) \o DueNote("filter", 3, filter)

CheckThresholds(p) ==
  LET battery == (1..p.last.battery) \ p.battery_latch
      filter  == (1..p.last.filter) \ p.filter_latch
  IN  [SayAll(p, ThresholdNotes(battery, filter)) EXCEPT
         !.battery_latch = IF p.last.battery = 0 THEN {} ELSE @ \cup battery,
         !.filter_latch  = IF p.last.filter = 0 THEN {} ELSE @ \cup filter]

\* One message when a condition starts and one when it ends.
Edge(p, kind, latched, holds) ==
  IF holds # latched THEN Say(p, Note(kind, IF holds THEN 1 ELSE 0)) ELSE p

\* Fault: the latch is not released.
CheckWaterSticky(p) ==
  [Edge(p, "water", p.a_no_water, p.last.no_water)
     EXCEPT !.a_no_water = @ \/ p.last.no_water]

CheckWater(p) ==
  [Edge(p, "water", p.a_no_water, p.last.no_water)
     EXCEPT !.a_no_water = p.last.no_water]

CheckFault(p) ==
  [Edge(p, "fault", p.a_fault, p.last.fault) EXCEPT !.a_fault = p.last.fault]

CheckCritical(p) == CheckFault(CheckWater(p))

\* Fault: the fountain's write lag is forgotten.
GraceOfOnePoll == PollSec

Grace == PollSec + RecordLag

\* Fault: a history that cannot be read counts as a dry one.
MayClaimThirstBlind(p) ==
  /\ p.baseline_ready
  /\ p.last_drink_ts # 0
  /\ ~DeviceUnhealthy(p)

MayClaimThirst(p) ==
  /\ p.baseline_ready
  /\ p.last_drink_ts # 0
  /\ ~DeviceUnhealthy(p)
  /\ p.hist_short_streak = 0

CheckThirst(p, now) ==
  LET gap == IF now > p.last_drink_ts THEN now - p.last_drink_ts ELSE 0
  IN  IF /\ MayClaimThirst(p)
         /\ p.thirst_level = 0
         /\ gap >= ThirstSec + Grace
      THEN [Say(p, Note("thirst", 1)) EXCEPT !.thirst_level = 1]
      ELSE IF /\ MayClaimThirst(p)
              /\ p.thirst_level = 1
              /\ gap >= EscalateSec + Grace
      THEN [Say(p, Note("thirst", 2)) EXCEPT !.thirst_level = 2]
      ELSE p

CheckHistory(p) ==
  IF p.hist_short_streak >= 3 /\ ~p.a_hist_blind
  THEN [Say(p, Note("history", 1)) EXCEPT !.a_hist_blind = TRUE]
  ELSE IF p.hist_short_streak = 0 /\ p.a_hist_blind
  THEN [Say(p, Note("history", 0)) EXCEPT !.a_hist_blind = FALSE]
  ELSE p

-----------------------------------------------------------------------------
(* The day *)

DrinksOn(p, day) == {v \in p.visit : DayOf(v) = day}

EmitReport(p, day) ==
  Say(p, [kind |-> "report", arg |-> day, drinks |-> DrinksOn(p, day),
          short |-> p.day_hist_short, alerts |-> p.day_messages])

DayRollover(p, day, now) ==
  LET cutoff == IF now > 2 * DaySec THEN now - 2 * DaySec ELSE 0
  IN  [p EXCEPT !.day_no = day,
                !.day_messages = 0,
                !.day_hist_short = FALSE,
                !.visit = {v \in @ : v >= cutoff}]

\* Fault: the report does not wait for the last records of the day.
CloseDayAtMidnight(p, now) ==
  IF DayOf(now) # p.day_no
  THEN DayRollover(IF p.last_report_day < p.day_no
                   THEN EmitReport([p EXCEPT !.last_report_day = p.day_no],
                                   p.day_no)
                   ELSE p,
                   DayOf(now), now)
  ELSE p

\* Fault: the report is stamped with the day that has begun.
CloseDayStampToday(p, now) ==
  IF DayOf(now) # p.day_no /\ SecOfDay(now) >= SettleSec
  THEN DayRollover(IF p.last_report_day < p.day_no
                   THEN EmitReport([p EXCEPT !.last_report_day = DayOf(now)],
                                   p.day_no)
                   ELSE p,
                   DayOf(now), now)
  ELSE p

\* The report of the finished day comes before the counters are reset.
CloseDay(p, now) ==
  IF DayOf(now) # p.day_no /\ SecOfDay(now) >= SettleSec
  THEN DayRollover(IF p.last_report_day < p.day_no
                   THEN EmitReport([p EXCEPT !.last_report_day = p.day_no],
                                   p.day_no)
                   ELSE p,
                   DayOf(now), now)
  ELSE p

CheckContact(p, now) ==
  IF /\ ~p.unreachable
     /\ p.last_ok_ts # 0
     /\ now - p.last_ok_ts >= UnreachableSec
  THEN [Say(p, Note("contact", 1)) EXCEPT !.unreachable = TRUE]
  ELSE p

-----------------------------------------------------------------------------
(* The public interface *)

PkInit(now) ==
  [last |-> NoReading, visit |-> {}, last_drink_ts |-> 0,
   baseline_ready |-> FALSE, hist_short_streak |-> 0,
   a_hist_blind |-> FALSE, day_hist_short |-> FALSE,
   a_no_water |-> FALSE, a_fault |-> FALSE, thirst_level |-> 0,
   battery_latch |-> {}, filter_latch |-> {},
   unreachable |-> FALSE, last_ok_ts |-> now, day_messages |-> 0,
   day_no |-> DayOf(now), last_report_day |-> DayOf(now) - 1, msg |-> <<>>]

\* The answer moves last_ok_ts and ends an outage.
TakeContact(p, now) ==
  [(IF p.unreachable THEN Say(p, Note("contact", 0)) ELSE p)
     EXCEPT !.unreachable = FALSE, !.last_ok_ts = now]

TakeReading(p, s) == IF s.valid THEN [p EXCEPT !.last = s] ELSE p

\* Fault: the streak does not saturate.
TakeHistoryUnbounded(p, hist) ==
  IF hist = "short"
  THEN [p EXCEPT !.hist_short_streak = @ + 1, !.day_hist_short = TRUE]
  ELSE [p EXCEPT !.hist_short_streak = 0, !.baseline_ready = TRUE]

TakeHistory(p, hist) ==
  IF hist = "short"
  THEN [p EXCEPT !.hist_short_streak = IF @ < StreakMax THEN @ + 1 ELSE @,
                 !.day_hist_short = TRUE]
  ELSE [p EXCEPT !.hist_short_streak = 0, !.baseline_ready = TRUE]

\* Fault: only an escalated alarm is closed.
ClearThirstEscalated(p, prev_drink) ==
  IF p.thirst_level = 2 /\ p.last_drink_ts > prev_drink
  THEN [Say(p, Note("thirst", 0)) EXCEPT !.thirst_level = 0]
  ELSE p

\* A drink later than the one known before this poll ends a dry spell.
ClearThirst(p, prev_drink) ==
  IF p.thirst_level > 0 /\ p.last_drink_ts > prev_drink
  THEN [Say(p, Note("thirst", 0)) EXCEPT !.thirst_level = 0]
  ELSE p

CheckReading(p) ==
  IF p.last.valid THEN CheckThresholds(CheckCritical(p)) ELSE p

PollOk(p, s, fresh, hist, now) ==
  LET read == TakeHistory(TakeVisits(TakeReading(TakeContact(p, now), s),
                                     fresh), hist)
      calm == ClearThirst(read, p.last_drink_ts)
  IN  CheckThirst(CheckHistory(CheckReading(calm)), now)

\* Only counters that are printed change.
PollFail(p) == p

Tick(p, now) == CheckThirst(CheckContact(CloseDay(p, now), now), now)

Command(p) == Reply(p, Note("status", 0))
=============================================================================
