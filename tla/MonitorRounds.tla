---------------------------- MODULE MonitorRounds ----------------------------
(***************************************************************************)
(* The core in the loop both platform layers run (app_main in              *)
(* esp32/main/main.c, run() in petkit_pc.py): one poll of the fountain per *)
(* round, pk_tick, then the queue handed over, then any command answered,  *)
(* then sleep.  The network always works here and the process never stops; *)
(* Gateway lifts both.                                                     *)
(*                                                                         *)
(* Around the core: the cat, which drinks; the fountain, which writes each *)
(* record up to RecordLag after the visit and replays all it holds; the    *)
(* phone app, which may empty the fountain at any moment; and the user,    *)
(* who remembers the last thing heard about each problem.                  *)
(***************************************************************************)
EXTENDS PetkitCore

CONSTANTS
  FirstPoll,   \* the set of times the gateway may start at
  OldRecords,  \* what the fountain may hold by then
  MaxTime,     \* bound: the clock stops here
  MaxDrinks,   \* bound: visits of the cat
  MaxFails,    \* bound: polls that fail
  MaxShorts,   \* bound: history reads that come up short
  MaxSyncs,    \* bound: times the phone app empties the fountain
  Readings     \* the states the fountain may report

ASSUME RoundsAssumption ==
  /\ FirstPoll \subseteq Time
  /\ OldRecords \subseteq Time
  /\ \A t \in OldRecords, f \in FirstPoll : 0 < t /\ t < f
  /\ {MaxTime, MaxDrinks, MaxFails, MaxShorts, MaxSyncs} \subseteq Nat
  /\ Readings \subseteq PkState
  /\ PollSec > 0 /\ PollSec < DaySec - SettleSec

VARIABLES
  p,        \* pk_t
  now,      \* time(NULL)
  phase,    \* where the loop is
  roundAt,  \* when this round's poll was
  wet,      \* visits the fountain has not written yet
  buf,      \* records the fountain holds
  drinks,   \* every visit of the cat so far
  gone,     \* records the app took before the gateway saw them
  used,     \* how much of each bounded event has happened
  heard,    \* the last level the user was told for each problem
  reported, \* the days the user got a report for, in order
  alerts    \* alerts the user got since the last report

cat == <<wet, buf, drinks, gone>>
user == <<heard, reported, alerts>>
vars == <<p, now, phase, roundAt, wet, buf, drinks, gone, used, heard, reported, alerts>>

Phases == {"boot", "idle", "tick", "deliver", "answer", "reply"}

Spend(event, bound) ==
  used[event] < bound /\ used' = [used EXCEPT ![event] = @ + 1]

-----------------------------------------------------------------------------
(* What the user gets *)

Positions(ms, kind) == {i \in DOMAIN ms : ms[i].kind = kind}

\* What somebody who knew of the level start knows of a problem before the
\* message at place i, and after all of ms.
LevelBefore(ms, kind, i, start) ==
  LET I == {j \in Positions(ms, kind) : j < i}
  IN  IF I = {} THEN start ELSE ms[Max(I)].arg

LastLevel(ms, kind, start) == LevelBefore(ms, kind, Len(ms) + 1, start)

\* The queue goes out in order; alerts starts again behind a report, of which
\* a tick queues one at most.
Deliver ==
  /\ phase = "deliver"
  /\ heard' = [k \in Problems |-> LastLevel(p.msg, k, heard[k])]
  /\ LET reports == Positions(p.msg, "report") IN
       IF reports = {}
       THEN alerts' = alerts + Len(p.msg) /\ UNCHANGED reported
       ELSE /\ alerts' = Len(p.msg) - Max(reports)
            /\ reported' = Append(reported, p.msg[Max(reports)].arg)
  /\ p' = MsgClear(p)
  /\ phase' = "answer"
  /\ UNCHANGED <<now, roundAt, wet, buf, drinks, gone, used>>

Ask ==
  /\ phase = "answer"
  /\ p' = Command(p)
  /\ phase' = "reply"
  /\ UNCHANGED <<now, roundAt, wet, buf, drinks, gone, used, heard, reported, alerts>>

NobodyAsks ==
  /\ phase = "answer"
  /\ phase' = "idle"
  /\ UNCHANGED <<p, now, roundAt, wet, buf, drinks, gone, used, heard, reported, alerts>>

DeliverReply ==
  /\ phase = "reply"
  /\ p' = MsgClear(p)
  /\ phase' = "idle"
  /\ UNCHANGED <<now, roundAt, wet, buf, drinks, gone, used, heard, reported, alerts>>

-----------------------------------------------------------------------------
(* The cat, the fountain, the app and the clock, between two rounds *)

Drink ==
  /\ phase = "idle"
  /\ now \notin drinks
  /\ Spend("drink", MaxDrinks)
  /\ drinks' = drinks \cup {now}
  /\ wet' = wet \cup {now}
  /\ UNCHANGED <<p, now, phase, roundAt, buf, gone, heard, reported, alerts>>

WriteRecord(t) ==
  /\ phase = "idle"
  /\ wet' = wet \ {t}
  /\ buf' = buf \cup {t}
  /\ UNCHANGED <<p, now, phase, roundAt, drinks, gone, used, heard, reported, alerts>>

AppSync ==
  /\ phase = "idle"
  /\ buf # {}
  /\ Spend("sync", MaxSyncs)
  /\ buf' = {}
  /\ gone' = gone \cup {t \in buf : t \notin p.visit}
  /\ UNCHANGED <<p, now, phase, roundAt, wet, drinks, heard, reported, alerts>>

\* A record is written at the latest RecordLag after its visit.
Pass ==
  /\ phase = "idle"
  /\ now < roundAt + PollSec
  /\ now < MaxTime
  /\ \A t \in wet : now < t + RecordLag
  /\ now' = now + 1
  /\ UNCHANGED <<p, phase, roundAt, wet, buf, drinks, gone, used, heard, reported, alerts>>

-----------------------------------------------------------------------------
(* The rounds *)

\* A read that stops early has the oldest records and misses at least one.
ReadFountain(hist, fresh) ==
  \/ hist = "ok" /\ fresh = buf /\ UNCHANGED used
  \/ /\ hist = "short"
     /\ fresh # buf /\ \A t \in fresh, u \in buf \ fresh : t < u
     /\ Spend("short", MaxShorts)

\* The alarms of the first poll are old news and are swallowed, a thirst alarm
\* among them: the user is taken to know.
BootPollOk ==
  /\ phase = "boot"
  /\ \E s \in Readings, hist \in {"ok", "short"}, fresh \in SUBSET buf :
       LET q == PollOk(p, s, fresh, hist, now) IN
         /\ ReadFountain(hist, fresh)
         /\ p' = MsgDrop(q)
         /\ heard' = [k \in Problems |-> LastLevel(q.msg, k, heard[k])]
  /\ phase' = "idle"
  /\ UNCHANGED <<now, roundAt, wet, buf, drinks, gone, reported, alerts>>

BootPollFail ==
  /\ phase = "boot"
  /\ Spend("fail", MaxFails)
  /\ p' = PollFail(p)
  /\ phase' = "idle"
  /\ UNCHANGED <<now, roundAt, wet, buf, drinks, gone, heard, reported, alerts>>

RoundStarts == phase = "idle" /\ now = roundAt + PollSec

RoundPollOk ==
  /\ RoundStarts
  /\ \E s \in Readings, hist \in {"ok", "short"}, fresh \in SUBSET buf :
       /\ ReadFountain(hist, fresh)
       /\ p' = PollOk(p, s, fresh, hist, now)
  /\ roundAt' = now
  /\ phase' = "tick"
  /\ UNCHANGED <<now, wet, buf, drinks, gone, heard, reported, alerts>>

RoundPollFail ==
  /\ RoundStarts
  /\ Spend("fail", MaxFails)
  /\ p' = PollFail(p)
  /\ roundAt' = now
  /\ phase' = "tick"
  /\ UNCHANGED <<now, wet, buf, drinks, gone, heard, reported, alerts>>

RoundTick ==
  /\ phase = "tick"
  /\ p' = Tick(p, now)
  /\ phase' = "deliver"
  /\ UNCHANGED <<now, roundAt, wet, buf, drinks, gone, used, heard, reported, alerts>>

-----------------------------------------------------------------------------
Init ==
  /\ now \in FirstPoll
  /\ p = PkInit(now)
  /\ phase = "boot"
  /\ roundAt = now
  /\ buf \in SUBSET OldRecords
  /\ drinks = buf
  /\ wet = {} /\ gone = {}
  /\ used = [e \in {"drink", "fail", "short", "sync"} |-> 0]
  /\ heard = [k \in Problems |-> 0]
  /\ reported = <<>>
  /\ alerts = 0

Next ==
  \/ BootPollOk \/ BootPollFail
  \/ RoundPollOk \/ RoundPollFail \/ RoundTick
  \/ Deliver \/ Ask \/ NobodyAsks \/ DeliverReply
  \/ Drink \/ (\E t \in wet : WriteRecord(t)) \/ AppSync \/ Pass

Spec == Init /\ [][Next]_vars

-----------------------------------------------------------------------------
(* Properties *)

TypeOK ==
  /\ p \in Pk
  /\ {now, roundAt} \subseteq Time
  /\ phase \in Phases
  /\ {wet, buf, drinks, gone} \subseteq SUBSET Time
  /\ used \in [{"drink", "fail", "short", "sync"} -> Nat]
  /\ heard \in [Problems -> Nat]
  /\ reported \in Seq(Nat)
  /\ alerts \in Nat

\* How long a dry spell the thirst message of this level claims.
Claimed(level) == IF level = 2 THEN EscalateSec ELSE ThirstSec

\* The open thirst alarm is about a dry spell long enough, in the records the
\* gateway holds now: a later record always closes it (thirst_level is only
\* ever raised against last_drink_ts, and cleared when that moves).
ThirstJustified ==
  p.thirst_level > 0 =>
    /\ p.last_drink_ts # 0
    /\ now >= p.last_drink_ts + Claimed(p.thirst_level) + Grace

\* last_drink_ts is the latest record of the window, or later; no record is
\* from the future.
LastDrinkIsLatest ==
  /\ \A v \in p.visit : v <= p.last_drink_ts
  /\ p.last_drink_ts <= now

Unread == {d \in drinks \ gone : d > p.last_drink_ts}

\* What "would a drink that ended the dry spell already be visible to me"
\* comes to: with complete reads, and at most one poll missed since the last,
\* a thirst message is queued only if the cat really did not drink for the
\* hours it names.  Records the phone app took away first are excepted.
ThirstClaimsTrue ==
  /\ phase = "deliver"
  /\ now <= p.last_ok_ts + PollSec
  => \A i \in DOMAIN p.msg :
       p.msg[i].kind = "thirst" /\ p.msg[i].arg > 0 =>
         \A d \in Unread : d >= p.last_drink_ts + Claimed(p.msg[i].arg)

\* The same without the condition on missed polls.
ThirstAlwaysTrue ==
  phase = "deliver" =>
    \A i \in DOMAIN p.msg :
      p.msg[i].kind = "thirst" /\ p.msg[i].arg > 0 =>
        \A d \in Unread : d >= p.last_drink_ts + Claimed(p.msg[i].arg)

Queued(kind) == Positions(p.msg, kind)

FullReadNow == p.last_ok_ts = now /\ p.hist_short_streak = 0

\* The report of a finished day lists every visit of that day and no other,
\* if the read of the closing round was complete: nothing is lost to the
\* fountain's write lag at either end of the day, to the rollover, to the
\* pruning of the window or to the poll phase.
ReportComplete ==
  phase = "deliver" /\ FullReadNow =>
    \A i \in Queued("report") :
      /\ p.msg[i].drinks \subseteq {d \in drinks : DayOf(d) = p.msg[i].arg}
      /\ {d \in drinks \ gone : DayOf(d) = p.msg[i].arg} \subseteq p.msg[i].drinks

StartDay == IF reported = <<>> THEN p.day_no ELSE reported[1]

\* Every day is reported, once, in order, in the first round past its settle
\* time: no day is skipped or repeated whatever the poll phase, and the day
\* whose counters are running is the one after the last reported.
DaysReportedInTurn ==
  phase = "answer" =>
    /\ \A i \in DOMAIN reported : reported[i] = StartDay + i - 1
    /\ p.day_no = StartDay + Len(reported)
    /\ p.last_report_day = p.day_no - 1
    /\ SecOfDay(now) >= SettleSec => p.day_no = DayOf(now)

\* How bad the latches say each problem is.
Level(q, k) ==
  CASE k = "water"   -> IF q.a_no_water THEN 1 ELSE 0
    [] k = "fault"   -> IF q.a_fault THEN 1 ELSE 0
    [] k = "contact" -> IF q.unreachable THEN 1 ELSE 0
    [] k = "history" -> IF q.a_hist_blind THEN 1 ELSE 0
    [] k = "thirst"  -> q.thirst_level

\* Messages about one problem are edges: each differs from the one before it
\* across rounds, a second thirst message follows the first, and the last one
\* the user was sent is the state of the latch.
Edges(q, known) ==
  \A k \in Problems :
    /\ \A i \in Positions(q.msg, k) :
         LET before == LevelBefore(q.msg, k, i, known[k])
         IN  \/ q.msg[i].arg = before + 1
             \/ q.msg[i].arg = 0 /\ before > 0
    /\ LastLevel(q.msg, k, known[k]) = Level(q, k)

MessagesAreEdges == phase = "deliver" => Edges(p, heard)

\* "N alerts sent today" is the number the user really got for that day,
\* whether or not questions were answered in between.
ReceiptExact ==
  /\ phase = "deliver" =>
       \A i \in Queued("report") :
         p.msg[i].alerts = alerts + i - 1 /\ Queued("report") = {i}
  /\ phase = "idle" => p.day_messages = alerts

\* Blindness is announced in the round it has lasted three reads, and from
\* the first short read to the first complete one nothing is claimed about
\* thirst.
BlindIsSilentAndLoud ==
  phase = "deliver" /\ p.hist_short_streak > 0 =>
    /\ Queued("thirst") \subseteq {i \in DOMAIN p.msg : p.msg[i].arg = 0}
    /\ p.hist_short_streak >= 3 => p.a_hist_blind
=============================================================================
