------------------------------- MODULE Gateway -------------------------------
(***************************************************************************)
(* esp32/main/main.c: the superloop that polls the fountain, hands what    *)
(* the core says to Telegram, keeps an outbox for what would not go,       *)
(* answers commands, and saves to flash what must survive a restart        *)
(* (pk_nvs.c).  Power can fail between any two steps and inside the save.  *)
(*                                                                         *)
(* Flash holds two things written by two commits: the visit list and the   *)
(* alarm state.  The outbox, the message queue, the short-read streak, the *)
(* baseline and the unreachable latch live in RAM only, and so does the    *)
(* copy that a save compares the alarm state with.                         *)
(*                                                                         *)
(* Time moves while the loop sleeps and while the board is off.  Records   *)
(* are readable at once here; MonitorRounds has the write lag.             *)
(***************************************************************************)
EXTENDS PetkitCore

CONSTANTS
  Start,         \* when the board is first powered
  OutboxMax,     \* OUTBOX_MAX
  UpdatesLimit,  \* limit=8 in getUpdates
  MaxDown,       \* bound: how long the board may stay off
  MaxTime,       \* bound: no round starts later
  Budgets,       \* bound: how often each event of Events may happen, one per behaviour
  Readings       \* the states the fountain may report

Events == {"drink", "pollfail", "wifi", "send", "flash", "crash", "sync", "ask", "short"}

ASSUME GatewayAssumption ==
  /\ {OutboxMax, UpdatesLimit, MaxDown, MaxTime} \subseteq Nat \ {0}
  \* No board starts on a clock that says 1970.
  /\ Start \in Nat /\ DayOf(Start) > 0
  /\ Budgets \subseteq [Events -> Nat]
  /\ Readings \subseteq PkState
  /\ PollSec > 0

VARIABLES
  p,           \* g_core
  outbox,      \* s_outbox
  tg_offset,   \* the next update id to ask for
  cache,       \* s_cached_state: the alarm state that flash is taken to hold
  nvs,         \* the alarm state in flash
  nvs_visits,  \* the visit list in flash
  now, phase,
  buf,         \* records the fountain holds
  drinks,      \* every visit of the cat
  gone,        \* records the app took before the gateway saw them
  asked,       \* commands the user has sent
  left,        \* what is left of the budget
  spoken,      \* days whose report went out or into the outbox
  reported,    \* days whose report went out
  answered,    \* commands whose answer went out
  dropped,     \* commands whose answer was lost from the outbox
  live,        \* days flash has recorded as the running day
  kept,        \* records flash has held at the end of a round
  eased        \* alarms seen to be over since the boot, where flash has not caught up

ram == <<p, outbox, tg_offset, cache>>
flash == <<nvs, nvs_visits>>
cat == <<buf, drinks, gone>>
told == <<spoken, reported, answered, dropped>>
ghost == <<spoken, reported, answered, dropped, live, kept, eased>>
vars == <<p, outbox, tg_offset, cache, nvs, nvs_visits, now, phase, buf, drinks,
          gone, asked, left, spoken, reported, answered, dropped, live, kept,
          eased>>

Spend(e, n) == n <= left[e] /\ left' = [left EXCEPT ![e] = @ - n]

-----------------------------------------------------------------------------
(* Flash *)

NvsEmpty == [thirst_level |-> 0, a_no_water |-> FALSE, a_fault |-> FALSE,
             battery_latch |-> {}, filter_latch |-> {}, day_no |-> 0,
             last_report_day |-> 0, last_drink_ts |-> 0, tg_offset |-> 0]

Image(q, offset) ==
  [thirst_level |-> q.thirst_level, a_no_water |-> q.a_no_water,
   a_fault |-> q.a_fault, battery_latch |-> q.battery_latch,
   filter_latch |-> q.filter_latch, day_no |-> q.day_no,
   last_report_day |-> q.last_report_day, last_drink_ts |-> q.last_drink_ts,
   tg_offset |-> offset]

\* Writing a key that already has its value changes nothing.
Changed == {k \in DOMAIN nvs : nvs[k] # Image(p, tg_offset)[k]}

\* What flash holds once the keys in S have been written.
Written(S) ==
  [k \in DOMAIN nvs |-> IF k \in S THEN Image(p, tg_offset)[k] ELSE nvs[k]]

\* The key that tells whether an alarm has been raised.
KeyOf == [water |-> "a_no_water", fault |-> "a_fault",
          battery |-> "battery_latch", thirst |-> "thirst_level"]

\* An alarm seen to be over stays noted until flash agrees with the core on it.
CatchUp == eased' = {k \in eased : nvs'[KeyOf[k]] # Image(p, tg_offset)[KeyOf[k]]}

\* The day just written as the running one, beside an earlier one last reported.
RecordDay ==
  live' = IF 0 < nvs'.last_report_day /\ nvs'.last_report_day < nvs'.day_no
          THEN live \cup {nvs'.day_no} ELSE live

\* Fault: nothing but pk_init.
RestoredFresh(t) == PkInit(t)

\* pk_init, then what app_main copies out of flash: the times, the latches,
\* the visits.
RestoredTimes(t) ==
  [PkInit(t) EXCEPT
     !.day_no          = IF nvs.day_no > 0 THEN nvs.day_no ELSE @,
     !.last_report_day = IF nvs.last_report_day > 0
                         THEN nvs.last_report_day ELSE @,
     !.last_drink_ts   = IF nvs.last_drink_ts > 0
                         THEN nvs.last_drink_ts ELSE @]

RestoredState(t) ==
  [RestoredTimes(t) EXCEPT
     !.thirst_level  = nvs.thirst_level,
     !.a_no_water    = nvs.a_no_water,
     !.a_fault       = nvs.a_fault,
     !.battery_latch = nvs.battery_latch,
     !.filter_latch  = nvs.filter_latch]

Restored(t) == [RestoredState(t) EXCEPT !.visit = nvs_visits]

-----------------------------------------------------------------------------
(* Telegram *)

\* Fault: one more than there is room for.
PushAllTooMany(ms) ==
  LET all == outbox \o ms
  IN  SubSeq(all, IF Len(all) > OutboxMax + 1 THEN Len(all) - OutboxMax ELSE 1,
             Len(all))

\* outbox_push for each of ms: the newest OutboxMax are kept.
PushAll(ms) ==
  LET all == outbox \o ms
  IN  SubSeq(all, IF Len(all) > OutboxMax THEN Len(all) - OutboxMax + 1 ELSE 1,
             Len(all))

\* The n-th smallest element of S, and the messages of ms at the places of S
\* in the order they have in ms.
Nth(S, n) == CHOOSE i \in S : Cardinality({j \in S : j <= i}) = n
Picked(ms, S) == [n \in 1..Cardinality(S) |-> ms[Nth(S, n)]]

ReportDays(ms) == {ms[i].arg : i \in {j \in DOMAIN ms : ms[j].kind = "report"}}

\* The messages that outbox_push throws out to make room for ms.
Displaced(ms) == LET all == outbox \o ms IN SubSeq(all, 1, Len(all) - OutboxMax)

\* The commands that the status messages of ms answer.
Answers(ms) ==
  UNION {(ms[i].alerts + 1)..ms[i].arg :
           i \in {j \in DOMAIN ms : ms[j].kind = "status"}}

\* send_queued: a message that was not confirmed goes to the outbox and the
\* next one is tried all the same.
SendQueued ==
  \E failed \in SUBSET DOMAIN p.msg :
    LET sent == Picked(p.msg, DOMAIN p.msg \ failed)
        kept_back == Picked(p.msg, failed)
    IN  /\ Spend("send", Cardinality(failed))
        /\ outbox' = PushAll(kept_back)
        /\ p' = MsgClear(p)
        /\ spoken' = spoken \cup ReportDays(p.msg)
        /\ reported' = reported \cup ReportDays(sent)
        /\ answered' = answered \cup Answers(sent)
        /\ dropped' = dropped \cup Answers(Displaced(kept_back))

\* The answer of pk_command, tagged with the commands it is for: those after
\* from, up to to.
Answer(q, from, to) ==
  Reply(q, [Note("status", to) EXCEPT !.alerts = from])

Batch == IF asked - tg_offset > UpdatesLimit THEN UpdatesLimit
                                             ELSE asked - tg_offset

-----------------------------------------------------------------------------
(* Power *)

\* pk_nvs_load, the clock, pk_init and the restore.  With nothing in flash there
\* is no cached state; the empty one stands for that, since no state to be saved
\* has day 0.
Boot ==
  /\ phase = "off"
  /\ p' = Restored(now)
  /\ outbox' = <<>>
  /\ tg_offset' = nvs.tg_offset
  /\ cache' = nvs
  /\ phase' = "boot"
  /\ eased' = {}
  /\ UNCHANGED <<flash, now, cat, asked, left, told, live, kept>>

Off ==
  /\ p' = PkInit(now) /\ outbox' = <<>> /\ tg_offset' = 0 /\ cache' = NvsEmpty
  /\ dropped' = dropped \cup Answers(outbox)
  /\ phase' = "off"

Crash ==
  /\ phase # "off"
  /\ Spend("crash", 1)
  /\ Off
  /\ UNCHANGED <<flash, now, cat, asked, spoken, reported, answered, live, kept, eased>>

\* The keys are set one by one before the commit, and one of those before the
\* cut may have failed as well.
CrashInSave ==
  /\ phase = "savestate"
  /\ Spend("crash", 1)
  /\ \E S \in SUBSET Changed : nvs' = Written(S)
  /\ RecordDay
  /\ Off
  /\ UNCHANGED <<nvs_visits, now, cat, asked, spoken, reported, answered, kept, eased>>

-----------------------------------------------------------------------------
(* The poll *)

SeenOver(s) ==
  {k \in {"water", "fault", "battery"} :
     CASE k = "water" -> ~s.no_water
       [] k = "fault" -> ~s.fault
       [] OTHER -> s.battery = 0}

\* A reading without an alarm's cause, and for thirst a later drink than the
\* last one known, ends it.
Polled(t) ==
  \E s \in Readings, hist \in {"ok", "short"}, fresh \in SUBSET buf :
    /\ IF hist = "ok"
       THEN fresh = buf /\ UNCHANGED left
       ELSE /\ fresh # buf /\ \A x \in fresh, y \in buf \ fresh : x < y
            /\ Spend("short", 1)
    /\ p' = IF phase = "boot" THEN MsgDrop(PollOk(p, s, fresh, hist, t))
                              ELSE PollOk(p, s, fresh, hist, t)
    /\ eased' = eased \cup SeenOver(s)
                \cup (IF p'.last_drink_ts > p.last_drink_ts THEN {"thirst"} ELSE {})

NotPolled == Spend("pollfail", 1) /\ p' = PollFail(p) /\ UNCHANGED eased

\* No pk_tick after the first poll.
BootPoll ==
  /\ phase = "boot"
  /\ Polled(now) \/ NotPolled
  /\ phase' = "bootsave"
  /\ UNCHANGED <<outbox, tg_offset, cache, flash, now, cat, asked, told, live, kept>>

RoundPoll ==
  /\ phase = "poll"
  /\ Polled(now) \/ NotPolled
  /\ phase' = "tick"
  /\ UNCHANGED <<outbox, tg_offset, cache, flash, now, cat, asked, told, live, kept>>

RoundTick ==
  /\ phase = "tick"
  /\ p' = Tick(p, now)
  /\ phase' = "radio"
  /\ UNCHANGED <<outbox, tg_offset, cache, flash, now, cat, asked, left, ghost>>

-----------------------------------------------------------------------------
(* The radio window *)

WifiUp ==
  /\ phase = "radio"
  /\ phase' = "outbox"
  /\ UNCHANGED <<ram, flash, now, cat, asked, left, ghost>>

WifiDown ==
  /\ phase = "radio"
  /\ Spend("wifi", 1)
  /\ outbox' = PushAll(p.msg)
  /\ spoken' = spoken \cup ReportDays(p.msg)
  /\ dropped' = dropped \cup Answers(Displaced(p.msg))
  /\ p' = MsgClear(p)
  /\ phase' = "savevisits"
  /\ UNCHANGED <<tg_offset, cache, flash, now, cat, asked, reported, answered, live,
                 kept, eased>>

\* send_outbox stops at the first failure.
DrainOutbox ==
  /\ phase = "outbox"
  /\ \E sent \in 0..Len(outbox) :
       /\ IF sent = Len(outbox) THEN UNCHANGED left ELSE Spend("send", 1)
       /\ outbox' = SubSeq(outbox, sent + 1, Len(outbox))
       /\ reported' = reported \cup ReportDays(SubSeq(outbox, 1, sent))
       /\ answered' = answered \cup Answers(SubSeq(outbox, 1, sent))
  /\ phase' = "send"
  /\ UNCHANGED <<p, tg_offset, cache, flash, now, cat, asked, spoken, dropped, live,
                 kept, eased>>

SendAlarms ==
  /\ phase = "send"
  /\ SendQueued
  /\ phase' = "updates"
  /\ UNCHANGED <<tg_offset, cache, flash, now, cat, asked, live, kept, eased>>

\* However many messages arrived, they get one answer.
TakeCommands ==
  /\ phase = "updates"
  /\ tg_offset < asked
  /\ tg_offset' = tg_offset + Batch
  /\ p' = Answer(p, tg_offset, tg_offset')
  /\ phase' = "reply"
  /\ UNCHANGED <<outbox, cache, flash, now, cat, asked, left, ghost>>

\* Fault: the cursor moves on although the updates could not be fetched.
NoCommandsSkipped ==
  /\ phase = "updates"
  /\ \/ tg_offset = asked /\ UNCHANGED left
     \/ Spend("send", 1)
  /\ tg_offset' = asked
  /\ phase' = "savevisits"
  /\ UNCHANGED <<p, outbox, cache, flash, now, cat, asked, ghost>>

NoCommands ==
  /\ phase = "updates"
  /\ \/ tg_offset = asked /\ UNCHANGED left
     \/ Spend("send", 1)
  /\ phase' = "savevisits"
  /\ UNCHANGED <<ram, flash, now, cat, asked, ghost>>

SendReply ==
  /\ phase = "reply"
  /\ SendQueued
  /\ phase' = "savevisits"
  /\ UNCHANGED <<tg_offset, cache, flash, now, cat, asked, live, kept, eased>>

-----------------------------------------------------------------------------
(* Saving, and sleep *)

\* pk_nvs_save_visits: a save that fails is not cached, and the next round tries
\* again.
SaveVisits ==
  /\ phase \in {"bootsave", "savevisits"}
  /\ \/ nvs_visits' = p.visit /\ kept' = kept \cup p.visit /\ UNCHANGED left
     \/ Spend("flash", 1) /\ UNCHANGED <<nvs_visits, kept>>
  /\ phase' = IF phase = "bootsave" THEN "sleep" ELSE "savestate"
  /\ UNCHANGED <<ram, nvs, now, cat, asked, told, live, eased>>

\* The compare that spares the flash: what was cached is not written again.
Skipped == cache = Image(p, tg_offset) /\ UNCHANGED <<nvs, cache, left>>

\* nvs_set can fail for any key, unseen, and a commit makes the state the cached
\* one all the same.  A flash that cannot be opened or committed is tried again
\* in the next round.  (The compare sees padding too, so that a state like the
\* cached one may be written once more.)
StateWritten ==
  /\ \E S \in SUBSET Changed :
       /\ nvs' = Written(S)
       /\ \/ cache' = Image(p, tg_offset)
          \/ UNCHANGED cache
  /\ IF nvs' = Image(p, tg_offset) /\ cache' = nvs' THEN UNCHANGED left
                                                    ELSE Spend("flash", 1)

SaveState ==
  /\ phase = "savestate"
  /\ Skipped \/ StateWritten
  /\ CatchUp
  /\ RecordDay
  /\ phase' = "sleep"
  /\ UNCHANGED <<p, outbox, tg_offset, nvs_visits, now, cat, asked, told, kept>>

Pass(until) ==
  /\ until <= MaxTime
  /\ now' = until
  /\ UNCHANGED <<ram, flash, ghost>>

Sleep ==
  /\ phase = "sleep"
  /\ phase' = "poll"
  /\ Pass(now + PollSec)
  /\ UNCHANGED <<cat, asked, left>>

StayOff ==
  /\ phase = "off"
  /\ \E d \in 1..MaxDown : Pass(now + d)
  /\ UNCHANGED <<phase, cat, asked, left>>

Quiet == phase \in {"sleep", "off"}

Drink ==
  /\ Quiet
  /\ now \notin drinks
  /\ Spend("drink", 1)
  /\ drinks' = drinks \cup {now}
  /\ buf' = buf \cup {now}
  /\ UNCHANGED <<ram, flash, now, phase, gone, asked, ghost>>

AppSync ==
  /\ Quiet
  /\ buf # {}
  /\ Spend("sync", 1)
  /\ buf' = {}
  /\ gone' = gone \cup (buf \ nvs_visits)
  /\ UNCHANGED <<ram, flash, now, phase, drinks, asked, ghost>>

AskStatus ==
  /\ Quiet
  /\ Spend("ask", 1)
  /\ asked' = asked + 1
  /\ UNCHANGED <<ram, flash, now, phase, cat, ghost>>

-----------------------------------------------------------------------------
Init ==
  /\ now = Start
  /\ nvs = NvsEmpty /\ nvs_visits = {}
  /\ p = PkInit(now) /\ outbox = <<>> /\ tg_offset = 0 /\ cache = NvsEmpty
  /\ phase = "off"
  /\ buf = {} /\ drinks = {} /\ gone = {}
  /\ asked = 0
  /\ left \in Budgets
  /\ spoken = {} /\ reported = {} /\ answered = {} /\ dropped = {}
  /\ live = {} /\ kept = {}
  /\ eased = {}

Next ==
  \/ Boot \/ Crash \/ CrashInSave
  \/ BootPoll \/ RoundPoll \/ RoundTick
  \/ WifiUp \/ WifiDown \/ DrainOutbox \/ SendAlarms
  \/ TakeCommands \/ NoCommands \/ SendReply
  \/ SaveVisits \/ SaveState \/ Sleep \/ StayOff
  \/ Drink \/ AppSync \/ AskStatus

Spec == Init /\ [][Next]_vars

-----------------------------------------------------------------------------
(* Properties *)

NvsState == [thirst_level : 0..2, a_no_water : BOOLEAN, a_fault : BOOLEAN,
             battery_latch : SUBSET (1..3), filter_latch : SUBSET (1..3),
             day_no : Nat, last_report_day : Nat, last_drink_ts : Time,
             tg_offset : Nat]

TypeOK ==
  /\ p \in Pk
  /\ outbox \in Seq(Msg) /\ Len(outbox) <= OutboxMax
  /\ nvs \in NvsState /\ cache \in NvsState
  /\ nvs_visits \subseteq Time
  /\ {now, tg_offset, asked} \subseteq Nat
  /\ phase \in {"off", "boot", "bootsave", "poll", "tick", "radio", "outbox",
                "send", "updates", "reply", "savevisits", "savestate", "sleep"}
  /\ buf \subseteq drinks /\ gone \subseteq drinks

\* A day the flash once recorded as running, beside the day last reported, and
\* now records as over was reported: the report was sent or put in the outbox
\* before anything that says so was saved, wherever the power fails.  A power
\* cut between the two keys of the very first save is the exception: pk_init's
\* last_report_day then stands beside a restored day_no, and the day may count
\* as reported while it still runs.
ReportsNotSkipped == \A d \in live : d < nvs.day_no => d \in spoken

\* A command the saved cursor has moved past was answered, or its answer waits
\* in the outbox or was lost there: to newer messages, or to a power cut.  No
\* cut between the fetch, the answer and the save loses a command without one.
SavedCommandsAnswered ==
  1..nvs.tg_offset \subseteq answered \cup Answers(outbox) \cup dropped

\* An alarm that flash records as raised is not raised again, in this run or
\* after a restart, unless the gateway has seen it end (a reading without it,
\* for thirst a later drink) since flash last agreed that it was over.
AlarmNotRepeated ==
  phase = "radio" =>
    \A i \in DOMAIN p.msg :
      LET m == p.msg[i]
      IN  /\ m = Note("water", 1) /\ nvs.a_no_water => "water" \in eased
          /\ m = Note("fault", 1) /\ nvs.a_fault => "fault" \in eased
          /\ m.kind = "battery" /\ m.arg \in nvs.battery_latch => "battery" \in eased
          /\ m.kind = "thirst" /\ m.arg > 0 /\ nvs.thirst_level >= m.arg
               => "thirst" \in eased

\* A record that reached flash stays there for the two days it can matter,
\* through restarts, failed saves and the app emptying the fountain.
VisitsDurable == {v \in kept : v + 2 * DaySec >= now} \subseteq nvs_visits

\* The report is as complete after a restart in the middle of the day as
\* without one, in the two days that the visits are kept for: a report that a
\* power cut makes the gateway repeat still later may lack what DayRollover
\* threw away after the first one.
ReportCompleteAfterRestart ==
  phase = "radio" /\ p.last_ok_ts = now /\ p.hist_short_streak = 0 =>
    \A i \in DOMAIN p.msg :
      p.msg[i].kind = "report" =>
        /\ p.msg[i].drinks \subseteq {d \in drinks : DayOf(d) = p.msg[i].arg}
        /\ {d \in drinks \ gone : DayOf(d) = p.msg[i].arg /\ d + 2 * DaySec >= now}
             \subseteq p.msg[i].drinks

-----------------------------------------------------------------------------
(* Claims of the repository that the code does not keep *)

\* A thirst message names hours in which the cat did not drink, when every
\* read is complete.
ThirstTrueAfterRestart ==
  phase = "radio" =>
    \A i \in DOMAIN p.msg :
      p.msg[i].kind = "thirst" /\ p.msg[i].arg > 0 =>
        \A d \in drinks \ gone :
          d > p.last_drink_ts =>
            d >= p.last_drink_ts
                 + (IF p.msg[i].arg = 2 THEN EscalateSec ELSE ThirstSec)

\* petkit_core.c:622-625: whatever you type, you get the picture; an unanswered
\* message is indistinguishable from a dead board.  No command stays without an
\* answer that went out or will.
NoAnswerSwallowed == 1..nvs.tg_offset \subseteq answered \cup Answers(outbox)

\* pk_nvs.h:3-4: what is saved keeps power cuts from losing the daily report.  A
\* report that flash says was made went out or will.
ReportNotLost ==
  \A d \in spoken :
    d <= nvs.last_report_day => d \in reported \cup ReportDays(outbox)

\* pk_nvs.h:3-5: the alarm state is saved across restarts, and a save that does
\* nothing is one with nothing to do.  What the gateway takes for saved is what
\* a restart would read.
SavedMeansSaved ==
  phase = "sleep" /\ cache = Image(p, tg_offset) => nvs = Image(p, tg_offset)
=============================================================================
