-------------------------- MODULE MonitorRounds_proofs --------------------------
(***************************************************************************)
(* What the rounds of the gateway promise its user, for all values of the  *)
(* constants: types, true thirst claims, loud blindness, days reported in  *)
(* turn and completely, messages that are edges, and an exact receipt.     *)
(***************************************************************************)
EXTENDS MonitorRounds, PetkitCore_proofs

USE DEF Time

\* The inductive invariant: the core is sound at the current time, and no
\* record anywhere is from the future, so that a read cannot carry
\* last_drink_ts past the clock.
Env ==
  /\ now \in Nat /\ roundAt \in Nat
  /\ \A S \in {wet, buf, drinks, gone} : S \in SUBSET (0..now)
  /\ phase \in Phases
  /\ used \in [{"drink", "fail", "short", "sync"} -> Nat]

User ==
  /\ heard \in [Problems -> Nat]
  /\ reported \in Seq(Nat)
  /\ alerts \in Nat

IInv == Sound(p, now) /\ Env /\ User

\* A gateway that has just started satisfies the invariant.
LEMMA InitIInv == Init => IInv
<1> SUFFICES ASSUME Init PROVE IInv
  OBVIOUS
<1>1. now \in Nat /\ roundAt \in Nat
  BY RoundsAssumption DEF Init, RoundsAssumption
<1>2. Sound(p, now)
  BY <1>1, SoundInit DEF Init
<1>3. \A t \in OldRecords : t \in Nat /\ t <= now
  BY <1>1, RoundsAssumption DEF Init, RoundsAssumption
<1>4. \A S \in {wet, buf, drinks, gone} : S \in SUBSET (0..now)
  BY <1>1, <1>3 DEF Init
<1>5. Env
  BY <1>1, <1>4 DEF Env, Init, Phases
<1>6. User
  BY DEF User, Init
<1> QED
  BY <1>2, <1>5, <1>6 DEF IInv

\* What is known of one problem at any place of a queue.
LEMMA LevelBeforeType ==
  ASSUME NEW ms \in Seq(Msg), NEW kind, NEW i, NEW start \in Nat
  PROVE  LevelBefore(ms, kind, i, start) \in Nat
<1> DEFINE I == {j \in Positions(ms, kind) : j < i}
<1>1. Len(ms) \in Nat /\ DOMAIN ms = 1..Len(ms)
  BY LenProperties
<1>2. I \in SUBSET Nat /\ I \subseteq 1..Len(ms) /\ \A j \in I : j <= Len(ms)
  BY <1>1 DEF Positions
<1>3. LevelBefore(ms, kind, i, start) = IF I = {} THEN start ELSE ms[Max(I)].arg
  BY DEF LevelBefore
<1> HIDE DEF I
<1>4. ASSUME I # {}
      PROVE  ms[Max(I)].arg \in Nat
  <2>1. Max(I) \in I
    BY <1>1, <1>2, <1>4, MaxOfBounded
  <2>2. ms[Max(I)] \in Msg
    BY <1>2, <2>1, ElementOfSeq
  <2> QED
    BY <2>2 DEF Msg
<1>5. CASE I = {}
  BY <1>3, <1>5
<1>6. CASE I # {}
  BY <1>3, <1>4, <1>6
<1> QED
  BY <1>5, <1>6

LEMMA LastLevelType ==
  ASSUME NEW ms \in Seq(Msg), NEW kind, NEW start \in Nat
  PROVE  LastLevel(ms, kind, start) \in Nat
<1>1. LastLevel(ms, kind, start) = LevelBefore(ms, kind, Len(ms) + 1, start)
  BY DEF LastLevel
<1> QED
  BY <1>1, LevelBeforeType, Zenon

\* One call of each bounded event.
LEMMA SpendType ==
  ASSUME NEW event \in {"drink", "fail", "short", "sync"}, NEW bound,
         used \in [{"drink", "fail", "short", "sync"} -> Nat],
         Spend(event, bound)
  PROVE  used' \in [{"drink", "fail", "short", "sync"} -> Nat]
BY DEF Spend

\* What a read of the fountain returns was in it, and is not of the future.
LEMMA ReadType ==
  ASSUME NEW hist \in {"ok", "short"}, NEW fresh \in SUBSET buf, IInv,
         ReadFountain(hist, fresh)
  PROVE  /\ fresh \in SUBSET Nat /\ \A x \in fresh : x <= now
         /\ used' \in [{"drink", "fail", "short", "sync"} -> Nat]
<1>1. buf \in SUBSET (0..now) /\ now \in Nat
  BY DEF IInv, Env
<1>2. used' \in [{"drink", "fail", "short", "sync"} -> Nat]
  BY SpendType DEF ReadFountain, IInv, Env
<1> QED
  BY <1>1, <1>2

\* The boot poll and the polls of the rounds.
LEMMA PollsKeep == IInv /\ (BootPollOk \/ BootPollFail \/ RoundPollOk \/ RoundPollFail)
                     => IInv'
<1> SUFFICES ASSUME IInv, BootPollOk \/ BootPollFail \/ RoundPollOk \/ RoundPollFail
             PROVE  IInv'
  OBVIOUS
<1>1. Sound(p, now) /\ now \in Nat /\ p \in Pk
  BY DEF IInv, Env, Sound
<1>2. ASSUME NEW s \in Readings, NEW hist \in {"ok", "short"},
             NEW fresh \in SUBSET buf, ReadFountain(hist, fresh)
      PROVE  /\ Sound(PollOk(p, s, fresh, hist, now), now)
             /\ used' \in [{"drink", "fail", "short", "sync"} -> Nat]
  <2>1. fresh \in SUBSET Nat /\ (\A x \in fresh : x <= now)
        /\ used' \in [{"drink", "fail", "short", "sync"} -> Nat]
    BY <1>2, ReadType
  <2>2. s \in PkState
    BY RoundsAssumption DEF RoundsAssumption
  <2> QED
    BY <1>1, <2>1, <2>2, SoundPollOk
<1>3. CASE BootPollOk
  <2>1. PICK s \in Readings, hist \in {"ok", "short"}, fresh \in SUBSET buf :
          /\ ReadFountain(hist, fresh)
          /\ p' = MsgDrop(PollOk(p, s, fresh, hist, now))
          /\ heard' = [k \in Problems |->
                        LastLevel(PollOk(p, s, fresh, hist, now).msg, k, heard[k])]
    BY <1>3 DEF BootPollOk
  <2> DEFINE q == PollOk(p, s, fresh, hist, now)
  <2>2. Sound(q, now) /\ used' \in [{"drink", "fail", "short", "sync"} -> Nat]
    BY <1>2, <2>1
  <2>3. q \in Pk
    BY <2>2 DEF Sound
  <2>4. MsgDrop(q) \in Pk /\ SameThirst(q, MsgDrop(q))
    BY <2>3, ClearType
  <2>5. Sound(p', now)
    BY <1>1, <2>1, <2>2, <2>4, SoundSame
  <2>6. heard' \in [Problems -> Nat]
    <3>1. q.msg \in Seq(Msg)
      BY <2>3 DEF Pk
    <3>2. ASSUME NEW k \in Problems
          PROVE  LastLevel(q.msg, k, heard[k]) \in Nat
      BY <3>1, LastLevelType DEF IInv, User
    <3> QED
      BY <2>1, <3>2
  <2> QED
    BY <1>1, <1>3, <2>2, <2>5, <2>6 DEF BootPollOk, IInv, Env, User, Phases
<1>4. CASE BootPollFail
  <2>1. used' \in [{"drink", "fail", "short", "sync"} -> Nat]
    BY <1>4, SpendType DEF BootPollFail, IInv, Env
  <2> QED
    BY <1>1, <1>4, <2>1 DEF BootPollFail, PollFail, IInv, Env, User, Phases
<1>5. CASE RoundPollOk
  <2>1. PICK s \in Readings, hist \in {"ok", "short"}, fresh \in SUBSET buf :
          ReadFountain(hist, fresh) /\ p' = PollOk(p, s, fresh, hist, now)
    BY <1>5 DEF RoundPollOk
  <2>2. Sound(p', now) /\ used' \in [{"drink", "fail", "short", "sync"} -> Nat]
    BY <1>2, <2>1
  <2> QED
    BY <1>1, <1>5, <2>2 DEF RoundPollOk, IInv, Env, User, Phases
<1>6. CASE RoundPollFail
  <2>1. used' \in [{"drink", "fail", "short", "sync"} -> Nat]
    BY <1>6, SpendType DEF RoundPollFail, IInv, Env
  <2> QED
    BY <1>1, <1>6, <2>1 DEF RoundPollFail, PollFail, IInv, Env, User, Phases
<1> QED
  BY <1>3, <1>4, <1>5, <1>6

\* pk_tick, once per round.
LEMMA TickKeeps == IInv /\ RoundTick => IInv'
<1> SUFFICES ASSUME IInv, RoundTick PROVE IInv'
  OBVIOUS
<1>1. Sound(p', now)
  BY SoundTick DEF RoundTick, IInv, Env
<1> QED
  BY <1>1 DEF RoundTick, IInv, Env, User, Phases

\* Handing the queue over, and answering a command.
LEMMA TalkKeeps == IInv /\ (Deliver \/ Ask \/ NobodyAsks \/ DeliverReply) => IInv'
<1> SUFFICES ASSUME IInv, Deliver \/ Ask \/ NobodyAsks \/ DeliverReply
             PROVE  IInv'
  OBVIOUS
<1>1. Sound(p, now) /\ now \in Nat /\ p \in Pk
  BY DEF IInv, Env, Sound
<1>2. Sound(MsgClear(p), now)
  BY <1>1, ClearType, SoundSame
<1>3. CASE Deliver
  <2> DEFINE ms == p.msg
             reports == Positions(ms, "report")
  <2>1. ms \in Seq(Msg) /\ Len(ms) \in Nat /\ DOMAIN ms = 1..Len(ms)
    BY <1>1, LenProperties DEF Pk
  <2>2. heard' \in [Problems -> Nat]
    <3>1. heard' = [k \in Problems |-> LastLevel(ms, k, heard[k])]
      BY <1>3 DEF Deliver
    <3>2. \A k \in Problems : LastLevel(ms, k, heard[k]) \in Nat
      BY <2>1, LastLevelType DEF IInv, User
    <3> QED
      BY <3>1, <3>2
  <2>3. alerts' \in Nat /\ reported' \in Seq(Nat)
    <3>1. CASE reports = {}
      BY <1>3, <2>1, <3>1 DEF Deliver, IInv, User
    <3>2. CASE reports # {}
      <4>1. reports \in SUBSET Nat /\ reports \subseteq 1..Len(ms)
            /\ \A i \in reports : i <= Len(ms)
        BY <2>1 DEF Positions
      <4>2. Max(reports) \in 1..Len(ms)
        BY <2>1, <3>2, <4>1, MaxOfBounded
      <4>3. ms[Max(reports)] \in Msg
        BY <2>1, <4>2, ElementOfSeq
      <4>4. /\ alerts' = Len(ms) - Max(reports)
            /\ reported' = Append(reported, ms[Max(reports)].arg)
        BY <1>3, <3>2 DEF Deliver
      <4> DEFINE m == Max(reports)
                 l == Len(ms)
      <4>5. l \in Nat /\ m \in 1..l
        BY <2>1, <4>2
      <4> HIDE DEF m, l
      <4>6. l - m \in Nat
        BY <4>5
      <4>7. ms[m].arg \in Nat
        BY <4>3 DEF Msg, m
      <4> QED
        BY <4>4, <4>6, <4>7 DEF m, l, IInv, User
    <3> QED
      BY <3>1, <3>2
  <2>4. Sound(p', now)
    BY <1>2, <1>3 DEF Deliver
  <2> HIDE DEF ms
  <2> QED
    BY <1>1, <1>3, <2>2, <2>3, <2>4 DEF Deliver, IInv, Env, User, Phases
<1>4. CASE Ask
  <2>1. Note("status", 0) \in Msg
    BY NoteType
  <2>2. Command(p) \in Pk /\ SameThirst(p, Command(p))
    BY <1>1, <2>1, ReplyType DEF Command
  <2>3. Sound(p', now)
    BY <1>1, <1>4, <2>2, SoundSame DEF Ask
  <2> QED
    BY <1>4, <2>3 DEF Ask, IInv, Env, User, Phases
<1>5. CASE NobodyAsks
  BY <1>5 DEF NobodyAsks, IInv, Env, User, Phases
<1>6. CASE DeliverReply
  BY <1>2, <1>6 DEF DeliverReply, IInv, Env, User, Phases
<1> QED
  BY <1>3, <1>4, <1>5, <1>6

\* The cat, the fountain, the app and the clock.
LEMMA WorldKeeps == IInv /\ (Drink \/ (\E t \in wet : WriteRecord(t)) \/ AppSync \/ Pass)
                      => IInv'
<1> SUFFICES ASSUME IInv,
                    Drink \/ (\E t \in wet : WriteRecord(t)) \/ AppSync \/ Pass
             PROVE  IInv'
  OBVIOUS
<1>1. /\ now \in Nat /\ wet \in SUBSET (0..now) /\ buf \in SUBSET (0..now)
      /\ drinks \in SUBSET (0..now) /\ gone \in SUBSET (0..now)
  BY DEF IInv, Env
<1>2. CASE Drink
  <2>1. used' \in [{"drink", "fail", "short", "sync"} -> Nat]
    BY <1>2, SpendType DEF Drink, IInv, Env
  <2>2. \A S \in {wet, buf, drinks, gone}' : S \in SUBSET (0..now)
    BY <1>1, <1>2 DEF Drink
  <2> QED
    BY <1>2, <2>1, <2>2 DEF Drink, IInv, Env, User
<1>3. CASE \E t \in wet : WriteRecord(t)
  <2>1. \A S \in {wet, buf, drinks, gone}' : S \in SUBSET (0..now)
    BY <1>1, <1>3 DEF WriteRecord
  <2> QED
    BY <1>3, <2>1 DEF WriteRecord, IInv, Env, User
<1>4. CASE AppSync
  <2>1. used' \in [{"drink", "fail", "short", "sync"} -> Nat]
    BY <1>4, SpendType DEF AppSync, IInv, Env
  <2>2. \A S \in {wet, buf, drinks, gone}' : S \in SUBSET (0..now)
    BY <1>1, <1>4 DEF AppSync
  <2> QED
    BY <1>4, <2>1, <2>2 DEF AppSync, IInv, Env, User
<1>5. CASE Pass
  <2>1. now' = now + 1 /\ p' = p /\ now' \in Nat /\ now <= now'
    BY <1>1, <1>5 DEF Pass
  <2>2. Sound(p', now')
    BY <1>1, <2>1, SoundLater DEF IInv
  <2>3. \A S \in {wet, buf, drinks, gone}' : S \in SUBSET (0..now')
    BY <1>1, <1>5 DEF Pass
  <2> QED
    BY <1>5, <2>1, <2>2, <2>3 DEF Pass, IInv, Env, User
<1> QED
  BY <1>2, <1>3, <1>4, <1>5

\* The invariant holds in every reachable state.
THEOREM Invariance == Spec => []IInv
<1>1. IInv /\ [Next]_vars => IInv'
  <2> SUFFICES ASSUME IInv, [Next]_vars PROVE IInv'
    OBVIOUS
  <2>1. CASE UNCHANGED vars
    BY <2>1 DEF vars, IInv, Env, User
  <2>2. CASE Next
    BY <2>2, PollsKeep, TickKeeps, TalkKeeps, WorldKeeps DEF Next
  <2> QED
    BY <2>1, <2>2
<1> QED
  BY InitIInv, <1>1, PTL DEF Spec

\* Every variable has its type: in particular the message queue never outgrows
\* its array and the alert counter never goes below zero.
THEOREM TypeCorrect == Spec => []TypeOK
<1>1. IInv => TypeOK
  <2> SUFFICES ASSUME IInv PROVE TypeOK
    OBVIOUS
  <2>1. p \in Pk
    BY DEF IInv, Sound
  <2>2. {wet, buf, drinks, gone} \subseteq SUBSET Time
    BY DEF IInv, Env
  <2> QED
    BY <2>1, <2>2 DEF IInv, Env, User, TypeOK
<1> QED
  BY Invariance, <1>1, PTL

\* No visit in the list is later than last_drink_ts, and that is never later
\* than the clock, whatever order records are written, replayed, pruned or
\* pushed out in.
THEOREM LastDrinkCorrect == Spec => []LastDrinkIsLatest
<1>1. IInv => LastDrinkIsLatest
  BY DEF IInv, Sound, LastDrinkIsLatest
<1> QED
  BY Invariance, <1>1, PTL

\* While a thirst alarm is open, the time since the last known drink is at
\* least the threshold of its level and the grace: through failed polls, short
\* reads, day rollovers and queue overflow, for every choice of thresholds.
THEOREM ThirstCorrect == Spec => []ThirstJustified
<1>1. IInv => ThirstJustified
  BY DEF IInv, Sound, ThirstJustified, Claimed
<1> QED
  BY Invariance, <1>1, PTL
-----------------------------------------------------------------------------
(* What a thirst message claims *)

\* A message about thirst is of a core that has read the whole history and
\* knows of no drink for long enough.
Justified(q, t, m) ==
  m.kind = "thirst" /\ m.arg > 0 =>
    /\ q.baseline_ready
    /\ q.hist_short_streak = 0
    /\ q.last_drink_ts + Claimed(m.arg) + Grace <= t

AllJustified(q, t) == \A m \in Told(q) : Justified(q, t, m)

\* Every visit is waiting, held, taken, or not later than the last known drink.
Known == \A d \in drinks \ gone : d \in wet \/ d \in buf \/ d <= p.last_drink_ts

\* After a complete read no visit is unread but those the fountain had not
\* written then.
ReadUp ==
  p.baseline_ready /\ p.hist_short_streak = 0 =>
    \A d \in drinks \ gone : d <= p.last_drink_ts \/ p.last_ok_ts <= d + RecordLag

ClaimInv ==
  /\ phase \in {"boot", "idle", "answer"} => p.msg = <<>>
  /\ phase \in {"tick", "deliver"} => AllJustified(p, now)
  /\ \A d \in wet : now <= d + RecordLag
  /\ p.last_ok_ts <= now
  /\ p.hist_short_streak >= 3 => p.a_hist_blind
  /\ Known
  /\ ReadUp

\* check_thirst says nothing that is not justified.
LEMMA CheckThirstJustified ==
  ASSUME NEW q \in Pk, NEW t \in Nat, q.last_drink_ts <= t, AllJustified(q, t)
  PROVE  AllJustified(CheckThirst(q, t), t)
<1> DEFINE r == CheckThirst(q, t)
           gap == IF t > q.last_drink_ts THEN t - q.last_drink_ts ELSE 0
<1>1. q.last_drink_ts \in Nat /\ q.hist_short_streak \in Nat /\ q.baseline_ready \in BOOLEAN
  BY Constants DEF Pk
<1>2. ThirstSec + Grace \in Nat /\ EscalateSec + Grace \in Nat /\ Grace \in Nat
      /\ ThirstSec \in Nat /\ EscalateSec \in Nat
  BY Constants DEF Grace
<1>3. CASE r = q
  BY <1>3
<1>4. ASSUME NEW level \in 1..2, r = [Say(q, Note("thirst", level)) EXCEPT !.thirst_level = level],
             MayClaimThirst(q), gap >= Claimed(level) + Grace
      PROVE  AllJustified(r, t)
  <2> DEFINE m == Note("thirst", level)
  <2>1. m \in Msg /\ m.arg = level
    BY NoteType DEF Problems, Note
  <2> HIDE DEF m
  <2>2. /\ Say(q, m) \in Pk /\ Only(q, Say(q, m), Queue)
        /\ Says(q, Say(q, m), {m}, 1)
    BY <2>1, SaySays, SayType
  <2>3. /\ r.msg = Say(q, m).msg /\ r.baseline_ready = Say(q, m).baseline_ready
        /\ r.hist_short_streak = Say(q, m).hist_short_streak
        /\ r.last_drink_ts = Say(q, m).last_drink_ts
    BY <1>4, <2>2 DEF Pk, m
  <2> HIDE DEF r
  <2>4. /\ r.baseline_ready = q.baseline_ready
        /\ r.hist_short_streak = q.hist_short_streak
        /\ r.last_drink_ts = q.last_drink_ts
    BY <2>2, <2>3 DEF Only, Fields, Queue
  <2>5. Told(r) \subseteq Told(q) \cup {m}
    BY <2>2, <2>3 DEF Says, Told
  <2>6. q.baseline_ready /\ q.hist_short_streak = 0
    BY <1>4 DEF MayClaimThirst
  <2>7. q.last_drink_ts + Claimed(level) + Grace <= t
    <3>1. Claimed(level) \in Nat
      BY <1>2 DEF Claimed
    <3>3. CASE t > q.last_drink_ts
      BY <1>1, <1>2, <1>4, <3>1, <3>3
    <3>4. CASE ~ (t > q.last_drink_ts)
      <4>1. gap = 0 /\ q.last_drink_ts = t
        BY <1>1, <3>4
      <4> QED
        BY <1>1, <1>2, <1>4, <3>1, <4>1
    <3> QED
      BY <3>3, <3>4
  <2>8. ASSUME NEW n \in Told(q)
        PROVE  Justified(r, t, n)
    BY <2>4 DEF AllJustified, Justified
  <2>9. Justified(r, t, m)
    BY <2>1, <2>4, <2>6, <2>7 DEF Justified
  <2> QED
    BY <2>5, <2>8, <2>9 DEF AllJustified
<1>5. \/ r = q
      \/ /\ r = [Say(q, Note("thirst", 1)) EXCEPT !.thirst_level = 1]
         /\ MayClaimThirst(q) /\ gap >= ThirstSec + Grace
      \/ /\ r = [Say(q, Note("thirst", 2)) EXCEPT !.thirst_level = 2]
         /\ MayClaimThirst(q) /\ gap >= EscalateSec + Grace
  BY DEF CheckThirst
<1>6. Claimed(1) = ThirstSec /\ Claimed(2) = EscalateSec
  BY DEF Claimed
<1> HIDE DEF gap, r
<1> QED
  BY <1>3, <1>4, <1>5, <1>6 DEF r

LEMMA InitClaims == Init => ClaimInv
<1> SUFFICES ASSUME Init PROVE ClaimInv
  OBVIOUS
<1>1. now \in Nat
  BY RoundsAssumption DEF Init, RoundsAssumption
<1>2. p = PkInit(now) /\ wet = {} /\ gone = {} /\ drinks = buf /\ phase = "boot"
  BY DEF Init
<1>3. /\ p.msg = <<>> /\ ~ p.baseline_ready /\ p.hist_short_streak = 0 /\ p.last_ok_ts = now
  BY <1>2 DEF PkInit
<1> QED
  BY <1>1, <1>2, <1>3 DEF ClaimInv, Known, ReadUp

\* What a poll that was answered leaves behind.
PollLeaves(q) ==
  /\ q \in Pk
  /\ AllJustified(q, now)
  /\ q.last_ok_ts = now
  /\ q.hist_short_streak >= 3 => q.a_hist_blind
  /\ p.last_drink_ts <= q.last_drink_ts
  /\ q.hist_short_streak = 0 => \A v \in buf : v <= q.last_drink_ts

LEMMA PollClaims ==
  ASSUME IInv, ClaimInv, phase \in {"boot", "idle"},
         NEW s \in Readings, NEW hist \in {"ok", "short"},
         NEW fresh \in SUBSET buf, ReadFountain(hist, fresh)
  PROVE  PollLeaves(PollOk(p, s, fresh, hist, now))
<1> DEFINE q == PollOk(p, s, fresh, hist, now)
<1>1. /\ p \in Pk /\ now \in Nat /\ p.last_drink_ts <= now
      /\ \A v \in p.visit : v <= p.last_drink_ts
  BY DEF IInv, Sound, Env
<1>2. fresh \in SUBSET Nat /\ (\A x \in fresh : x <= now) /\ s \in PkState
  BY ReadType, RoundsAssumption DEF RoundsAssumption
<1>3. PollOkEffect(p, q, s, fresh, hist, now)
  BY <1>1, <1>2, PollOkDoes
<1> HIDE DEF q
<1>4. /\ q \in Pk /\ q.last_ok_ts = now
      /\ q.hist_short_streak >= 3 => q.a_hist_blind
      /\ p.last_drink_ts <= q.last_drink_ts /\ q.last_drink_ts <= now
  BY <1>3 DEF PollOkEffect
<1>5. q.hist_short_streak = 0 => \A v \in buf : v <= q.last_drink_ts
  <2>1. q.hist_short_streak = 0 => hist = "ok"
    BY <1>3 DEF PollOkEffect
  <2>2. \A v \in fresh : v <= q.last_drink_ts
    BY <1>1, <1>3 DEF PollOkEffect
  <2> QED
    BY <2>1, <2>2 DEF ReadFountain
<1>6. PICK e \in Pk : q = CheckThirst(e, now) /\ Told(e) \subseteq Told(p) \cup PollNotes(p)
  BY <1>3 DEF PollOkEffect
<1>7. AllJustified(e, now)
  <2>1. Told(p) = {}
    BY DEF ClaimInv, Told
  <2>2. ASSUME NEW m \in PollNotes(p)
        PROVE  m.kind = "thirst" => m.arg = 0
    BY <2>2 DEF PollNotes, CriticalNotes, GaugeNotes, Note
  <2>3. ASSUME NEW m \in Told(e)
        PROVE  Justified(e, now, m)
    BY <1>6, <2>1, <2>2 DEF Justified
  <2> QED
    BY <2>3 DEF AllJustified
<1>8. e.last_drink_ts = q.last_drink_ts
  BY <1>1, <1>6, CheckThirstSays DEF Only, Fields, Queue
<1>9. AllJustified(q, now)
  BY <1>1, <1>4, <1>6, <1>7, <1>8, CheckThirstJustified
<1> QED
  BY <1>4, <1>5, <1>9 DEF PollLeaves, q

\* The claims survive a poll.
LEMMA PollsKeepClaims ==
  IInv /\ ClaimInv /\ (BootPollOk \/ BootPollFail \/ RoundPollOk \/ RoundPollFail) => ClaimInv'
<1> SUFFICES ASSUME IInv, ClaimInv, BootPollOk \/ BootPollFail \/ RoundPollOk \/ RoundPollFail
             PROVE  ClaimInv'
  OBVIOUS
<1>1. /\ now \in Nat /\ drinks \in SUBSET Nat /\ p.last_drink_ts \in Nat /\ p \in Pk
  BY DEF IInv, Env, Sound, Pk
<1>2. ASSUME NEW q, PollLeaves(q), p' \in Pk,
             p'.last_ok_ts = q.last_ok_ts, p'.last_drink_ts = q.last_drink_ts,
             p'.hist_short_streak = q.hist_short_streak, p'.a_hist_blind = q.a_hist_blind,
             UNCHANGED <<now, wet, buf, drinks, gone>>
      PROVE  /\ \A d \in wet' : now' <= d + RecordLag
             /\ p'.last_ok_ts <= now'
             /\ p'.hist_short_streak >= 3 => p'.a_hist_blind
             /\ Known' /\ ReadUp'
  <2>1. p'.last_drink_ts \in Nat /\ p.last_drink_ts <= p'.last_drink_ts /\ p'.last_ok_ts = now
    BY <1>2 DEF PollLeaves, Pk
  <2>2. Known'
    <3>1. ASSUME NEW d \in drinks \ gone
          PROVE  d \in wet \/ d \in buf \/ d <= p'.last_drink_ts
      <4>1. d \in wet \/ d \in buf \/ d <= p.last_drink_ts
        BY DEF ClaimInv, Known
      <4> QED
        BY <1>1, <2>1, <4>1
    <3> QED
      BY <1>2, <3>1 DEF Known
  <2>3. ReadUp'
    <3>1. p'.hist_short_streak = 0 => \A v \in buf : v <= p'.last_drink_ts
      BY <1>2 DEF PollLeaves
    <3>2. ASSUME NEW d \in drinks \ gone, p'.hist_short_streak = 0
          PROVE  d <= p'.last_drink_ts \/ now <= d + RecordLag
      BY <1>1, <2>1, <3>1, <3>2 DEF ClaimInv, Known
    <3> QED
      BY <1>2, <2>1, <3>2 DEF ReadUp
  <2> QED
    BY <1>1, <1>2, <2>1, <2>2, <2>3 DEF ClaimInv, PollLeaves
<1>3. CASE BootPollOk
  <2>1. PICK s \in Readings, hist \in {"ok", "short"}, fresh \in SUBSET buf :
          /\ ReadFountain(hist, fresh)
          /\ p' = MsgDrop(PollOk(p, s, fresh, hist, now))
    BY <1>3 DEF BootPollOk
  <2> DEFINE q == PollOk(p, s, fresh, hist, now)
  <2>2. PollLeaves(q)
    BY <1>3, <2>1, PollClaims DEF BootPollOk
  <2> HIDE DEF q
  <2>3. q \in Pk /\ p' = MsgDrop(q)
    BY <2>1, <2>2 DEF PollLeaves, q
  <2>4. /\ p' \in Pk /\ p'.msg = <<>>
        /\ p'.last_ok_ts = q.last_ok_ts /\ p'.last_drink_ts = q.last_drink_ts
        /\ p'.hist_short_streak = q.hist_short_streak /\ p'.a_hist_blind = q.a_hist_blind
    <3>1. p' \in Pk
      BY <2>3, ClearType
    <3> QED
      BY <2>3, <3>1 DEF MsgDrop, Pk
  <2>5. phase' = "idle" /\ UNCHANGED <<now, wet, buf, drinks, gone>>
    BY <1>3 DEF BootPollOk
  <2> QED
    BY <1>2, <2>2, <2>4, <2>5 DEF ClaimInv
<1>4. CASE RoundPollOk
  <2>1. PICK s \in Readings, hist \in {"ok", "short"}, fresh \in SUBSET buf :
          /\ ReadFountain(hist, fresh)
          /\ p' = PollOk(p, s, fresh, hist, now)
    BY <1>4 DEF RoundPollOk
  <2> DEFINE q == PollOk(p, s, fresh, hist, now)
  <2>2. PollLeaves(q)
    BY <1>4, <2>1, PollClaims DEF RoundPollOk, RoundStarts
  <2> HIDE DEF q
  <2>3. q \in Pk /\ p' = q
    BY <2>1, <2>2 DEF PollLeaves, q
  <2>4. phase' = "tick" /\ UNCHANGED <<now, wet, buf, drinks, gone>>
    BY <1>4 DEF RoundPollOk
  <2>5. AllJustified(p, now)'
    BY <2>2, <2>3, <2>4 DEF PollLeaves, AllJustified, Justified, Told
  <2> QED
    BY <1>2, <2>2, <2>3, <2>4, <2>5 DEF ClaimInv
<1>5. CASE BootPollFail \/ RoundPollFail
  <2>1. p' = p /\ p.msg = <<>> /\ UNCHANGED <<now, wet, buf, drinks, gone>>
        /\ phase' \in {"idle", "tick"}
    BY <1>5 DEF BootPollFail, RoundPollFail, RoundStarts, PollFail, ClaimInv
  <2>2. AllJustified(p, now)'
    BY <2>1 DEF AllJustified, Told
  <2> QED
    BY <2>1, <2>2 DEF ClaimInv, Known, ReadUp
<1> QED
  BY <1>3, <1>4, <1>5

\* Nor does pk_tick unsettle them: it may only add a justified one.
LEMMA TickKeepsClaims == IInv /\ ClaimInv /\ RoundTick => ClaimInv'
<1> SUFFICES ASSUME IInv, ClaimInv, RoundTick PROVE ClaimInv'
  OBVIOUS
<1>1. /\ p \in Pk /\ now \in Nat /\ p.last_drink_ts <= now /\ AllJustified(p, now)
  BY DEF IInv, Sound, Env, ClaimInv, RoundTick
<1>2. p' = Tick(p, now) /\ phase' = "deliver" /\ UNCHANGED <<now, wet, buf, drinks, gone>>
  BY DEF RoundTick
<1>3. /\ p' \in Pk
      /\ Only(p, p', Queue \cup {"day_no", "last_report_day", "day_hist_short", "visit",
                                 "unreachable", "thirst_level"})
  BY <1>1, <1>2, TickDoes
<1>4. PICK e \in Pk :
        /\ p' = CheckThirst(e, now)
        /\ Only(p, e, Queue \cup {"day_no", "last_report_day", "day_hist_short",
                                  "visit", "unreachable"})
        /\ Told(e) \subseteq Told(p) \cup {TheReport(p), Note("contact", 1)}
  BY <1>1, <1>2, TickDoes
<1>5. /\ p'.baseline_ready = p.baseline_ready /\ p'.last_ok_ts = p.last_ok_ts
      /\ p'.last_drink_ts = p.last_drink_ts /\ p'.a_hist_blind = p.a_hist_blind
      /\ p'.hist_short_streak = p.hist_short_streak
  BY <1>3 DEF Only, Fields, Queue
<1>6. AllJustified(e, now)
  <2>1. /\ e.baseline_ready = p.baseline_ready /\ e.last_drink_ts = p.last_drink_ts
        /\ e.hist_short_streak = p.hist_short_streak
    BY <1>4 DEF Only, Fields, Queue
  <2>2. TheReport(p).kind # "thirst" /\ Note("contact", 1).kind # "thirst"
    BY DEF TheReport, Note
  <2>3. ASSUME NEW m \in Told(e)
        PROVE  Justified(e, now, m)
    <3>1. CASE m \in Told(p)
      BY <1>1, <2>1, <3>1 DEF AllJustified, Justified
    <3>2. CASE m \notin Told(p)
      BY <1>4, <2>2, <3>2 DEF Justified
    <3> QED
      BY <3>1, <3>2
  <2> QED
    BY <2>3 DEF AllJustified
<1>7. AllJustified(p', now)
  <2>1. e.last_drink_ts <= now
    BY <1>1, <1>4 DEF Only, Fields, Queue
  <2> QED
    BY <1>1, <1>4, <1>6, <2>1, CheckThirstJustified
<1>8. AllJustified(p, now)'
  BY <1>2, <1>7 DEF AllJustified, Justified, Told
<1>9. Known' /\ ReadUp'
  BY <1>2, <1>5 DEF ClaimInv, Known, ReadUp
<1> QED
  BY <1>2, <1>5, <1>8, <1>9 DEF ClaimInv

LEMMA TalkKeepsClaims ==
  IInv /\ ClaimInv /\ (Deliver \/ Ask \/ NobodyAsks \/ DeliverReply) => ClaimInv'
<1> SUFFICES ASSUME IInv, ClaimInv, Deliver \/ Ask \/ NobodyAsks \/ DeliverReply
             PROVE  ClaimInv'
  OBVIOUS
<1>1. p \in Pk
  BY DEF IInv, Sound
<1>2. UNCHANGED <<now, wet, buf, drinks, gone>>
  BY DEF Deliver, Ask, NobodyAsks, DeliverReply
<1>3. /\ p'.baseline_ready = p.baseline_ready /\ p'.last_ok_ts = p.last_ok_ts
      /\ p'.last_drink_ts = p.last_drink_ts /\ p'.a_hist_blind = p.a_hist_blind
      /\ p'.hist_short_streak = p.hist_short_streak
      /\ phase' \in {"boot", "idle", "answer"} => p'.msg = <<>>
      /\ phase' \notin {"tick", "deliver"}
  <2>1. CASE Deliver \/ DeliverReply
    BY <1>1, <2>1 DEF Deliver, DeliverReply, MsgClear, Pk
  <2>2. CASE Ask
    <3>1. Say(p, Note("status", 0)) \in Pk /\ Only(p, Say(p, Note("status", 0)), Queue)
      BY <1>1, NoteType, SaySays, SayType
    <3>2. p' = [Say(p, Note("status", 0)) EXCEPT !.day_messages = p.day_messages]
      BY <2>2 DEF Ask, Command, Reply
    <3> QED
      BY <2>2, <3>1, <3>2 DEF Ask, Only, Fields, Queue, Pk
  <2>3. CASE NobodyAsks
    BY <2>3 DEF NobodyAsks, ClaimInv
  <2> QED
    BY <2>1, <2>2, <2>3
<1> QED
  BY <1>2, <1>3 DEF ClaimInv, Known, ReadUp

\* A new visit is waiting; a record that is written is held; one that the app
\* takes is known or lost; and the clock never leaves a record unwritten.
LEMMA WorldKeepsClaims ==
  IInv /\ ClaimInv /\ (Drink \/ (\E t \in wet : WriteRecord(t)) \/ AppSync \/ Pass)
    => ClaimInv'
<1> SUFFICES ASSUME IInv, ClaimInv, Drink \/ (\E t \in wet : WriteRecord(t)) \/ AppSync \/ Pass
             PROVE  ClaimInv'
  OBVIOUS
<1>1. /\ now \in Nat /\ wet \in SUBSET Nat /\ p.last_ok_ts \in Nat /\ p.last_drink_ts \in Nat
      /\ RecordLag \in Nat /\ \A v \in p.visit : v <= p.last_drink_ts
  BY Constants DEF IInv, Env, Sound, Pk
<1>2. p' = p /\ phase' = phase /\ phase = "idle"
  BY DEF Drink, WriteRecord, AppSync, Pass
<1>3. CASE Drink
  <2>1. wet' = wet \cup {now} /\ drinks' = drinks \cup {now} /\ UNCHANGED <<now, buf, gone>>
    BY <1>3 DEF Drink
  <2>2. now <= now + RecordLag /\ p.last_ok_ts <= now + RecordLag
    BY <1>1 DEF ClaimInv
  <2>3. Known' /\ ReadUp'
    BY <1>2, <2>1, <2>2 DEF ClaimInv, Known, ReadUp
  <2> QED
    BY <1>2, <2>1, <2>2, <2>3 DEF ClaimInv
<1>4. CASE \E t \in wet : WriteRecord(t)
  <2>1. /\ wet' \subseteq wet /\ wet \cup buf \subseteq wet' \cup buf'
        /\ UNCHANGED <<now, drinks, gone>>
    BY <1>4 DEF WriteRecord
  <2>2. Known' /\ ReadUp'
    BY <1>2, <2>1 DEF ClaimInv, Known, ReadUp
  <2> QED
    BY <1>2, <2>1, <2>2 DEF ClaimInv
<1>5. CASE AppSync
  <2>1. /\ gone' = gone \cup {t \in buf : t \notin p.visit}
        /\ UNCHANGED <<now, wet, drinks>>
    BY <1>5 DEF AppSync
  <2>2. Known' /\ ReadUp'
    BY <1>1, <1>2, <2>1 DEF ClaimInv, Known, ReadUp
  <2> QED
    BY <1>2, <2>1, <2>2 DEF ClaimInv
<1>6. CASE Pass
  <2>1. /\ now' = now + 1 /\ \A t \in wet : now < t + RecordLag
        /\ UNCHANGED <<wet, buf, drinks, gone>>
    BY <1>6 DEF Pass
  <2>2. Known' /\ ReadUp'
    BY <1>2, <2>1 DEF ClaimInv, Known, ReadUp
  <2>3. \A t \in wet : now' <= t + RecordLag
    BY <1>1, <2>1
  <2>4. p.last_ok_ts <= now'
    BY <1>1, <2>1 DEF ClaimInv
  <2> QED
    BY <1>2, <2>1, <2>2, <2>3, <2>4 DEF ClaimInv
<1> QED
  BY <1>3, <1>4, <1>5, <1>6

LEMMA ClaimsAlways == Spec => []ClaimInv
<1>1. IInv /\ ClaimInv /\ [Next]_vars => ClaimInv'
  <2> SUFFICES ASSUME IInv, ClaimInv, [Next]_vars PROVE ClaimInv'
    OBVIOUS
  <2>1. CASE UNCHANGED vars
    BY <2>1 DEF vars, ClaimInv, Known, ReadUp, AllJustified, Justified, Told
  <2>2. CASE Next
    BY <2>2, PollsKeepClaims, TickKeepsClaims, TalkKeepsClaims, WorldKeepsClaims DEF Next
  <2> QED
    BY <2>1, <2>2
<1> QED
  BY InitClaims, Invariance, <1>1, PTL DEF Spec

\* A thirst message that goes out is true of the cat, not only of what the
\* gateway knows: unless the phone app took a record away, or more than one
\* poll has failed, she did not drink for the hours it names, whatever the
\* fountain has not written yet (petkit_core.c:332-410).
THEOREM ThirstClaimsCorrect == Spec => []ThirstClaimsTrue
<1>1. IInv /\ ClaimInv => ThirstClaimsTrue
  <2> SUFFICES ASSUME IInv, ClaimInv, phase = "deliver", now <= p.last_ok_ts + PollSec,
                      NEW i \in DOMAIN p.msg, p.msg[i].kind = "thirst", p.msg[i].arg > 0,
                      NEW d \in Unread
               PROVE  d >= p.last_drink_ts + Claimed(p.msg[i].arg)
    BY DEF ThirstClaimsTrue
  <2>1. /\ p.baseline_ready /\ p.hist_short_streak = 0
        /\ p.last_drink_ts + Claimed(p.msg[i].arg) + Grace <= now
    BY DEF ClaimInv, AllJustified, Justified, Told
  <2>2. d \in Nat /\ now \in Nat /\ p.last_ok_ts \in Nat /\ p.last_drink_ts \in Nat
    BY DEF IInv, Env, Sound, Pk, Unread
  <2>3. p.last_ok_ts <= d + RecordLag
    <3>1. d > p.last_drink_ts /\ d \in drinks \ gone
      BY DEF Unread
    <3> QED
      BY <2>1, <2>2, <3>1 DEF ClaimInv, ReadUp
  <2>4. Claimed(p.msg[i].arg) \in Nat /\ PollSec \in Nat /\ RecordLag \in Nat
    BY Constants DEF Claimed
  <2> DEFINE c == Claimed(p.msg[i].arg)
  <2> HIDE DEF c
  <2>5. p.last_drink_ts + c + (PollSec + RecordLag) <= now
    BY <2>1 DEF c, Grace
  <2> QED
    BY <2>2, <2>3, <2>4, <2>5 DEF c
<1> QED
  BY Invariance, ClaimsAlways, <1>1, PTL

\* From the first short read to the first complete one nothing is claimed about
\* thirst, and three short reads in a row are announced, whatever polls fail in
\* between (petkit_core.c:345, 424-441).
THEOREM BlindCorrect == Spec => []BlindIsSilentAndLoud
<1>1. IInv /\ ClaimInv => BlindIsSilentAndLoud
  <2> SUFFICES ASSUME IInv, ClaimInv, phase = "deliver", p.hist_short_streak > 0
               PROVE  /\ Queued("thirst") \subseteq {i \in DOMAIN p.msg : p.msg[i].arg = 0}
                      /\ p.hist_short_streak >= 3 => p.a_hist_blind
    BY DEF BlindIsSilentAndLoud
  <2>1. ASSUME NEW i \in Queued("thirst")
        PROVE  i \in DOMAIN p.msg /\ p.msg[i].arg = 0
    <3>1. p.msg \in Seq(Msg) /\ i \in DOMAIN p.msg /\ p.msg[i].kind = "thirst"
      BY DEF Queued, Positions, IInv, Sound, Pk
    <3>2. p.msg[i] \in Msg
      BY <3>1, ElementOfSeq, LenProperties
    <3>3. p.msg[i].arg \in Nat
      BY <3>2 DEF Msg
    <3>4. ~ (p.msg[i].arg > 0)
      BY <3>1 DEF ClaimInv, AllJustified, Justified, Told
    <3> QED
      BY <3>1, <3>3, <3>4
  <2> QED
    BY <2>1 DEF ClaimInv
<1> QED
  BY Invariance, ClaimsAlways, <1>1, PTL

-----------------------------------------------------------------------------
(* Days, and the count of alerts *)

\* Time within a day and over its end.
LEMMA DayParts ==
  ASSUME NEW t \in Nat
  PROVE  /\ DayOf(t) \in Nat /\ SecOfDay(t) \in 0..DaySec - 1
         /\ t = DaySec * DayOf(t) + SecOfDay(t)
BY Constants DEF DayOf, SecOfDay

LEMMA DayUnique ==
  ASSUME NEW t \in Nat, NEW d \in Int, NEW r \in 0..DaySec - 1, t = DaySec * d + r
  PROVE  DayOf(t) = d /\ SecOfDay(t) = r
<1>1. DaySec \in Nat \ {0}
  BY Constants
<1> DEFINE e == DayOf(t)
           s == SecOfDay(t)
<1>2. e \in Nat /\ s \in 0..DaySec - 1 /\ DaySec * d + r = DaySec * e + s
  BY DayParts
<1> HIDE DEF e, s
<1>3. DaySec * (d - e) = s - r
  BY <1>1, <1>2
<1>4. d - e >= 1 => DaySec * (d - e) >= DaySec
  BY <1>1, <1>2
<1>5. d - e <= -1 => DaySec * (d - e) <= - DaySec
  BY <1>1, <1>2
<1>6. d = e
  BY <1>1, <1>2, <1>3, <1>4, <1>5
<1> QED
  BY <1>1, <1>2, <1>3, <1>6 DEF e, s

LEMMA DayLater ==
  ASSUME NEW t \in Nat, NEW n \in Nat, n < DaySec
  PROVE  IF SecOfDay(t) + n < DaySec
         THEN DayOf(t + n) = DayOf(t) /\ SecOfDay(t + n) = SecOfDay(t) + n
         ELSE DayOf(t + n) = DayOf(t) + 1 /\ SecOfDay(t + n) = SecOfDay(t) + n - DaySec
<1> DEFINE d == DayOf(t)
           s == SecOfDay(t)
<1>1. DaySec \in Nat \ {0} /\ d \in Nat /\ s \in 0..DaySec - 1 /\ t = DaySec * d + s
  BY Constants, DayParts
<1>2. t + n \in Nat
  OBVIOUS
<1> HIDE DEF d, s
<1>3. CASE s + n < DaySec
  <2>1. s + n \in 0..DaySec - 1 /\ t + n = DaySec * d + (s + n)
    BY <1>1, <1>3
  <2>2. DayOf(t + n) = d /\ SecOfDay(t + n) = s + n
    BY <1>1, <1>2, <2>1, DayUnique
  <2> QED
    BY <1>3, <2>2 DEF d, s
<1>4. CASE ~ (s + n < DaySec)
  <2>1. s + n - DaySec \in 0..DaySec - 1 /\ t + n = DaySec * (d + 1) + (s + n - DaySec)
    BY <1>1, <1>4
  <2>2. DayOf(t + n) = d + 1 /\ SecOfDay(t + n) = s + n - DaySec
    BY <1>1, <1>2, <2>1, DayUnique
  <2> QED
    BY <1>4, <2>2 DEF d, s
<1> QED
  BY <1>3, <1>4

-----------------------------------------------------------------------------
(* How the queue grows *)

Alarms == {m \in Msg : m.kind \in Problems \cup {"battery", "filter"}}

\* The queue of q is that of p and some of M behind it, each counted.
Grows(p_, q, M) ==
  /\ Len(p_.msg) <= Len(q.msg)
  /\ \A i \in 1..Len(p_.msg) : q.msg[i] = p_.msg[i]
  /\ \A i \in Len(p_.msg) + 1..Len(q.msg) : q.msg[i] \in M
  /\ q.day_messages = p_.day_messages + (Len(q.msg) - Len(p_.msg))

LEMMA QueueLength ==
  ASSUME NEW q \in Pk
  PROVE  /\ q.msg \in Seq(Msg) /\ Len(q.msg) \in Nat /\ Len(q.msg) <= MaxMsg
         /\ DOMAIN q.msg = 1..Len(q.msg) /\ q.day_messages \in Nat
BY LenProperties DEF Pk

LEMMA GrowsThen ==
  ASSUME NEW a \in Pk, NEW b \in Pk, NEW c \in Pk, NEW M, NEW N,
         Grows(a, b, M), Grows(b, c, N)
  PROVE  Grows(a, c, M \cup N)
<1> DEFINE k == Len(a.msg)
           l == Len(b.msg)
           n == Len(c.msg)
<1>1. k \in Nat /\ l \in Nat /\ n \in Nat /\ a.day_messages \in Nat
      /\ b.day_messages \in Nat /\ c.day_messages \in Nat
  BY QueueLength
<1>2. k <= l /\ l <= n /\ b.day_messages = a.day_messages + (l - k)
      /\ c.day_messages = b.day_messages + (n - l)
  BY DEF Grows
<1>3. \A i \in 1..k : b.msg[i] = a.msg[i]
  BY DEF Grows
<1>4. \A i \in 1..l : c.msg[i] = b.msg[i]
  BY DEF Grows
<1>5. (\A i \in k + 1..l : b.msg[i] \in M) /\ (\A i \in l + 1..n : c.msg[i] \in N)
  BY DEF Grows
<1> HIDE DEF k, l, n
<1>6. k <= n /\ c.day_messages = a.day_messages + (n - k)
  BY <1>1, <1>2
<1>7. \A i \in 1..k : c.msg[i] = a.msg[i]
  BY <1>1, <1>2, <1>3, <1>4
<1>8. ASSUME NEW i \in k + 1..n
      PROVE  c.msg[i] \in M \cup N
  <2>1. CASE i <= l
    <3>1. i \in 1..l /\ i \in k + 1..l
      BY <1>1, <2>1
    <3> QED
      BY <1>4, <1>5, <3>1
  <2>2. CASE ~ (i <= l)
    <3>1. i \in l + 1..n
      BY <1>1, <2>2
    <3> QED
      BY <1>5, <3>1
  <2> QED
    BY <2>1, <2>2
<1> QED
  BY <1>6, <1>7, <1>8 DEF Grows, k, n

LEMMA GrowsMore ==
  ASSUME NEW a, NEW b, NEW M, NEW N, Grows(a, b, M), M \subseteq N
  PROVE  Grows(a, b, N)
BY DEF Grows

\* Nothing said.
LEMMA GrowsNot ==
  ASSUME NEW a \in Pk, NEW b, b.msg = a.msg, b.day_messages = a.day_messages, NEW M
  PROVE  Grows(a, b, M)
<1>1. Len(a.msg) \in Nat /\ a.day_messages \in Nat
  BY QueueLength
<1>2. \A i : i \notin Len(a.msg) + 1..Len(a.msg)
  BY <1>1
<1> QED
  BY <1>1, <1>2 DEF Grows

\* msg_out.
LEMMA GrowsSayAll ==
  ASSUME NEW a \in Pk, NEW ms \in Seq(Msg), NEW b,
         b.msg = SayAll(a, ms).msg, b.day_messages = SayAll(a, ms).day_messages
  PROVE  Grows(a, b, {ms[i] : i \in DOMAIN ms})
<1> DEFINE room == MaxMsg - Len(a.msg)
           n == IF Len(ms) <= room THEN Len(ms) ELSE room
           M == {ms[i] : i \in DOMAIN ms}
           new == SubSeq(ms, 1, n)
           all == a.msg \o new
           q == SayAll(a, ms)
<1>1. /\ a.msg \in Seq(Msg) /\ Len(a.msg) \in Nat /\ Len(a.msg) <= MaxMsg
      /\ Len(ms) \in Nat /\ DOMAIN ms = 1..Len(ms) /\ a.day_messages \in Nat
  BY QueueLength, LenProperties
<1>2. n \in Nat /\ n <= Len(ms)
  BY <1>1, Constants
<1> HIDE DEF n
<1>3. new \in Seq(Msg) /\ Len(new) = n /\ \A i \in 1..n : new[i] = ms[i]
  <2>1. \A i \in 1..n : ms[i] \in Msg
    BY <1>1, <1>2, ElementOfSeq
  <2>2. /\ new \in Seq(Msg)
        /\ Len(new) = IF 1 <= n THEN n - 1 + 1 ELSE 0
        /\ \A i \in 1..n - 1 + 1 : new[i] = ms[1 + i - 1]
    <3>1. 1 \in Int /\ n \in Int
      BY <1>2
    <3> QED
      BY <2>1, <3>1, SubSeqProperties
  <2> QED
    BY <2>2, <1>2
<1> HIDE DEF new
<1>4. /\ all \in Seq(Msg) /\ Len(all) = Len(a.msg) + n
      /\ \A i \in 1..Len(a.msg) : all[i] = a.msg[i]
      /\ \A i \in 1..n : all[Len(a.msg) + i] = new[i]
  <2>1. /\ all \in Seq(Msg) /\ Len(all) = Len(a.msg) + Len(new)
        /\ \A i \in 1..Len(a.msg) + Len(new) :
             all[i] = IF i <= Len(a.msg) THEN a.msg[i] ELSE new[i - Len(a.msg)]
    BY <1>1, <1>3, ConcatProperties, ZenonT(30)
  <2> QED
    BY <1>1, <1>2, <1>3, <2>1
<1> HIDE DEF all
<1>5. q = [a EXCEPT !.msg = all, !.day_messages = a.day_messages + n]
  BY DEF SayAll, all, new, n
<1>6. b.msg = all /\ b.day_messages = a.day_messages + n
  BY <1>5 DEF Pk
<1> DEFINE k == Len(a.msg)
<1>7. k \in Nat /\ Len(all) = k + n /\ (\A i \in 1..k : all[i] = a.msg[i])
      /\ (\A i \in 1..n : all[k + i] = ms[i])
  BY <1>1, <1>3, <1>4
<1> HIDE DEF k
<1>8. ASSUME NEW i \in k + 1..Len(all)
      PROVE  all[i] \in M
  <2>1. i - k \in 1..n /\ i = k + (i - k) /\ i - k \in 1..Len(ms)
    BY <1>1, <1>2, <1>7
  <2>2. all[i] = ms[i - k]
    BY <1>7, <2>1
  <2> QED
    BY <1>1, <2>1, <2>2
<1>9. k <= Len(all) /\ b.day_messages = a.day_messages + (Len(all) - k)
  BY <1>1, <1>2, <1>6, <1>7
<1> QED
  BY <1>6, <1>7, <1>8, <1>9 DEF Grows, k

LEMMA GrowsSay ==
  ASSUME NEW a \in Pk, NEW m \in Msg, NEW b,
         b.msg = Say(a, m).msg, b.day_messages = Say(a, m).day_messages
  PROVE  Grows(a, b, {m})
<1> DEFINE ms == <<m>>
<1>1. ms \in Seq(Msg) /\ {ms[i] : i \in DOMAIN ms} = {m}
  OBVIOUS
<1>2. Say(a, m) = SayAll(a, ms)
  BY DEF Say
<1> HIDE DEF ms
<1>3. Grows(a, b, {ms[i] : i \in DOMAIN ms})
  BY <1>1, <1>2, GrowsSayAll
<1> QED
  BY <1>1, <1>3

\* At most one alarm and a few fields.
LEMMA GrowsOne ==
  ASSUME NEW a \in Pk, NEW m \in Alarms, NEW b, NEW said, said = a \/ said = Say(a, m),
         b.msg = said.msg, b.day_messages = said.day_messages
  PROVE  Grows(a, b, Alarms)
<1>1. m \in Msg
  BY DEF Alarms
<1>2. CASE said = a
  BY <1>2, GrowsNot
<1>3. CASE said = Say(a, m)
  <2>1. Grows(a, b, {m})
    BY <1>1, <1>3, GrowsSay
  <2> QED
    BY <2>1, GrowsMore
<1> QED
  BY <1>2, <1>3

LEMMA AlarmNote ==
  ASSUME NEW kind \in Problems \cup {"battery", "filter"}, NEW arg \in Nat
  PROVE  Note(kind, arg) \in Alarms /\ Note(kind, arg) \in Msg
<1>1. Note(kind, arg) \in Msg
  BY NoteType
<1> QED
  BY <1>1 DEF Alarms, Note

LEMMA GrowsContact ==
  ASSUME NEW a \in Pk, NEW t \in Nat
  PROVE  Grows(a, TakeContact(a, t), Alarms) /\ Grows(a, CheckContact(a, t), Alarms)
<1> DEFINE back == Note("contact", 0)
           away == Note("contact", 1)
<1>1. back \in Alarms /\ away \in Alarms /\ back \in Msg /\ away \in Msg
  BY AlarmNote DEF Problems
<1> HIDE DEF back, away
<1>2. Say(a, back) \in Pk /\ Say(a, away) \in Pk
  BY <1>1, SayType
<1>3. Grows(a, TakeContact(a, t), Alarms)
  <2> DEFINE said == IF a.unreachable THEN Say(a, back) ELSE a
  <2>1. said \in Pk /\ (said = a \/ said = Say(a, back))
    BY <1>2
  <2>2. TakeContact(a, t) = [said EXCEPT !.unreachable = FALSE, !.last_ok_ts = t]
    BY DEF TakeContact, back
  <2> HIDE DEF said
  <2>3. /\ TakeContact(a, t).msg = said.msg
        /\ TakeContact(a, t).day_messages = said.day_messages
    BY <2>1, <2>2 DEF Pk
  <2> QED
    BY <1>1, <2>1, <2>3, GrowsOne
<1>4. Grows(a, CheckContact(a, t), Alarms)
  <2>1. \/ CheckContact(a, t) = a
        \/ CheckContact(a, t) = [Say(a, away) EXCEPT !.unreachable = TRUE]
    BY DEF CheckContact, away
  <2>2. ASSUME CheckContact(a, t) = [Say(a, away) EXCEPT !.unreachable = TRUE]
        PROVE  /\ CheckContact(a, t).msg = Say(a, away).msg
               /\ CheckContact(a, t).day_messages = Say(a, away).day_messages
    BY <1>2, <2>2 DEF Pk
  <2> QED
    BY <1>1, <2>1, <2>2, GrowsOne
<1> QED
  BY <1>3, <1>4

LEMMA GrowsThirst ==
  ASSUME NEW a \in Pk, NEW t
  PROVE  Grows(a, ClearThirst(a, t), Alarms) /\ Grows(a, CheckThirst(a, t), Alarms)
<1>1. ASSUME NEW level \in 0..2, NEW b, b = [Say(a, Note("thirst", level)) EXCEPT !.thirst_level = level]
      PROVE  Grows(a, b, Alarms)
  <2>1. Note("thirst", level) \in Alarms /\ Note("thirst", level) \in Msg
    BY AlarmNote DEF Problems
  <2>2. Say(a, Note("thirst", level)) \in Pk
    BY <2>1, SayType
  <2>3. /\ b.msg = Say(a, Note("thirst", level)).msg
        /\ b.day_messages = Say(a, Note("thirst", level)).day_messages
    BY <1>1, <2>2 DEF Pk
  <2> QED
    BY <2>1, <2>3, GrowsOne
<1>2. \/ ClearThirst(a, t) = a
      \/ ClearThirst(a, t) = [Say(a, Note("thirst", 0)) EXCEPT !.thirst_level = 0]
  BY DEF ClearThirst
<1>3. \/ CheckThirst(a, t) = a
      \/ CheckThirst(a, t) = [Say(a, Note("thirst", 1)) EXCEPT !.thirst_level = 1]
      \/ CheckThirst(a, t) = [Say(a, Note("thirst", 2)) EXCEPT !.thirst_level = 2]
  BY DEF CheckThirst
<1>4. 0 \in 0..2 /\ 1 \in 0..2 /\ 2 \in 0..2
  OBVIOUS
<1>5. Grows(a, a, Alarms)
  BY GrowsNot
<1> QED
  BY <1>1, <1>2, <1>3, <1>4, <1>5

LEMMA GrowsHistory ==
  ASSUME NEW a \in Pk
  PROVE  Grows(a, CheckHistory(a), Alarms)
<1>1. ASSUME NEW level \in 0..1, NEW blind,
             NEW b, b = [Say(a, Note("history", level)) EXCEPT !.a_hist_blind = blind]
      PROVE  Grows(a, b, Alarms)
  <2>1. Note("history", level) \in Alarms /\ Note("history", level) \in Msg
    BY AlarmNote DEF Problems
  <2>2. Say(a, Note("history", level)) \in Pk
    BY <2>1, SayType
  <2>3. /\ b.msg = Say(a, Note("history", level)).msg
        /\ b.day_messages = Say(a, Note("history", level)).day_messages
    BY <1>1, <2>2 DEF Pk
  <2> QED
    BY <2>1, <2>3, GrowsOne
<1>2. \/ CheckHistory(a) = a
      \/ CheckHistory(a) = [Say(a, Note("history", 1)) EXCEPT !.a_hist_blind = TRUE]
      \/ CheckHistory(a) = [Say(a, Note("history", 0)) EXCEPT !.a_hist_blind = FALSE]
  BY DEF CheckHistory
<1>3. 0 \in 0..1 /\ 1 \in 0..1
  OBVIOUS
<1>4. Grows(a, a, Alarms)
  BY GrowsNot
<1> QED
  BY <1>1, <1>2, <1>3, <1>4

LEMMA GrowsEdge ==
  ASSUME NEW a \in Pk, NEW kind \in {"water", "fault"}, NEW latched, NEW holds
  PROVE  LET b == Edge(a, kind, latched, holds)
         IN  b \in Pk /\ Only(a, b, Queue) /\ Grows(a, b, Alarms)
<1>1. ASSUME NEW level \in 0..1
      PROVE  LET b == Say(a, Note(kind, level))
             IN  b \in Pk /\ Only(a, b, Queue) /\ Grows(a, b, Alarms)
  <2>1. Note(kind, level) \in Alarms /\ Note(kind, level) \in Msg
    BY AlarmNote DEF Problems
  <2> QED
    BY <2>1, SayType, SaySays, GrowsOne
<1>2. 0 \in 0..1 /\ 1 \in 0..1
  OBVIOUS
<1>3. Only(a, a, Queue) /\ Grows(a, a, Alarms)
  BY GrowsNot DEF Only
<1> QED
  BY <1>1, <1>2, <1>3 DEF Edge

LEMMA GrowsCritical ==
  ASSUME NEW a \in Pk
  PROVE  /\ CheckWater(a) \in Pk /\ Grows(a, CheckWater(a), Alarms)
         /\ CheckFault(a) \in Pk /\ Grows(a, CheckFault(a), Alarms)
<1> DEFINE w == CheckWater(a)
           f == CheckFault(a)
<1>1. w \in Pk /\ Grows(a, w, Alarms)
  <2> DEFINE said == Edge(a, "water", a.a_no_water, a.last.no_water)
  <2>1. said \in Pk /\ Grows(a, said, Alarms)
    BY GrowsEdge
  <2>2. w = [said EXCEPT !.a_no_water = a.last.no_water]
    BY DEF CheckWater
  <2>3. a.last.no_water \in BOOLEAN
    BY DEF Pk, PkState
  <2> HIDE DEF said
  <2>4. w \in Pk
    BY <2>1, <2>2, <2>3, ZenonT(30) DEF Pk
  <2>5. w.msg = said.msg /\ w.day_messages = said.day_messages
    BY <2>1, <2>2 DEF Pk
  <2> QED
    BY <2>1, <2>4, <2>5 DEF Grows
<1>2. f \in Pk /\ Grows(a, f, Alarms)
  <2> DEFINE said == Edge(a, "fault", a.a_fault, a.last.fault)
  <2>1. said \in Pk /\ Grows(a, said, Alarms)
    BY GrowsEdge
  <2>2. f = [said EXCEPT !.a_fault = a.last.fault]
    BY DEF CheckFault
  <2>3. a.last.fault \in BOOLEAN
    BY DEF Pk, PkState
  <2> HIDE DEF said
  <2>4. f \in Pk
    BY <2>1, <2>2, <2>3, ZenonT(30) DEF Pk
  <2>5. f.msg = said.msg /\ f.day_messages = said.day_messages
    BY <2>1, <2>2 DEF Pk
  <2> QED
    BY <2>1, <2>4, <2>5 DEF Grows
<1> QED
  BY <1>1, <1>2

\* What the gauges say has no all-clear.
Gauges == {m \in Alarms : m.kind \in {"battery", "filter"}}

LEMMA GrowsThresholds ==
  ASSUME NEW f \in Pk
  PROVE  CheckThresholds(f) \in Pk /\ Grows(f, CheckThresholds(f), Gauges)
<1> DEFINE battery == (1..f.last.battery) \ f.battery_latch
           filter == (1..f.last.filter) \ f.filter_latch
           ms == ThresholdNotes(battery, filter)
           M == {ms[i] : i \in DOMAIN ms}
           g == CheckThresholds(f)
<1>1. /\ f.last.battery \in 0..3 /\ f.last.filter \in 0..3
      /\ battery \subseteq 1..f.last.battery /\ filter \subseteq 1..f.last.filter
      /\ battery \subseteq 1..3 /\ filter \subseteq 1..3
  <2>1. f.last.battery \in 0..3 /\ f.last.filter \in 0..3
    BY DEF Pk, PkState
  <2>2. 1..f.last.battery \subseteq 1..3 /\ 1..f.last.filter \subseteq 1..3
    BY <2>1
  <2> QED
    BY <2>1, <2>2
<1>2. g.msg = SayAll(f, ms).msg /\ g.day_messages = SayAll(f, ms).day_messages
  BY DEF CheckThresholds
<1> HIDE DEF battery, filter
<1>3. /\ ms \in Seq(Msg)
      /\ M \subseteq {Note("battery", level) : level \in battery}
                       \cup {Note("filter", level) : level \in filter}
  <2> DEFINE N == {Note("battery", level) : level \in battery}
                    \cup {Note("filter", level) : level \in filter}
  <2>1. ms \in Seq(Msg) /\ \A i \in DOMAIN ms : ms[i] \in N
    BY <1>1, ThresholdNotesSay
  <2> HIDE DEF ms, N
  <2>2. M \subseteq N
    BY <2>1
  <2> QED
    BY <2>1, <2>2 DEF N
<1> HIDE DEF ms, g
<1>4. M \subseteq Gauges
  <2>1. ASSUME NEW level \in 1..3
        PROVE  Note("battery", level) \in Gauges /\ Note("filter", level) \in Gauges
    <3>1. Note("battery", level) \in Alarms /\ Note("filter", level) \in Alarms
      BY AlarmNote
    <3> QED
      BY <3>1 DEF Note, Gauges
  <2> QED
    BY <1>1, <1>3, <2>1
<1>5. Grows(f, g, M)
  BY <1>2, <1>3, GrowsSayAll
<1> HIDE DEF M
<1>6. Grows(f, g, Gauges)
  BY <1>4, <1>5, GrowsMore
<1> QED
  BY <1>6, CheckThresholdsType DEF g

LEMMA GrowsReading ==
  ASSUME NEW a \in Pk
  PROVE  Grows(a, CheckReading(a), Alarms)
<1> DEFINE w == CheckWater(a)
           f == CheckFault(w)
           g == CheckThresholds(f)
<1>1. w \in Pk /\ Grows(a, w, Alarms)
  BY GrowsCritical
<1> HIDE DEF w
<1>2. f \in Pk /\ Grows(w, f, Alarms)
  BY <1>1, GrowsCritical
<1> HIDE DEF f
<1>3. g \in Pk /\ Grows(f, g, Alarms)
  <2>1. Gauges \subseteq Alarms
    BY DEF Gauges
  <2> QED
    BY <1>2, <2>1, GrowsThresholds, GrowsMore
<1> HIDE DEF g
<1>4. Grows(a, g, Alarms \cup Alarms \cup Alarms)
  <2>1. Grows(a, f, Alarms \cup Alarms)
    BY <1>1, <1>2, GrowsThen
  <2> QED
    BY <1>2, <1>3, <2>1, GrowsThen
<1>5. Grows(a, g, Alarms)
  BY <1>4, GrowsMore
<1>6. Grows(a, a, Alarms)
  BY GrowsNot
<1> QED
  BY <1>5, <1>6 DEF CheckReading, CheckCritical, g, f, w

\* pk_poll_ok only adds alarms.
LEMMA GrowsPollOk ==
  ASSUME NEW t \in Nat, NEW a \in Pk, a.last_drink_ts <= t, NEW s \in PkState,
         NEW fresh \in SUBSET Nat, \A x \in fresh : x <= t, NEW hist \in {"ok", "short"}
  PROVE  Grows(a, PollOk(a, s, fresh, hist, t), Alarms)
<1> DEFINE b == TakeContact(a, t)
           c == TakeReading(b, s)
           d == TakeVisits(c, fresh)
           read == TakeHistory(d, hist)
           calm == ClearThirst(read, a.last_drink_ts)
           e == CheckReading(calm)
           f == CheckHistory(e)
           g == CheckThirst(f, t)
<1>1. a.last_drink_ts \in Nat
  BY DEF Pk
<1>2. b \in Pk /\ SameThirst(a, b) /\ Grows(a, b, Alarms)
  BY ContactType, GrowsContact
<1> HIDE DEF b
<1>3. c \in Pk /\ SameThirst(b, c) /\ c.msg = b.msg /\ c.day_messages = b.day_messages
  <2>1. c \in Pk /\ SameThirst(b, c)
    BY <1>2, TakeReadingType
  <2> QED
    BY <1>2, <2>1 DEF TakeReading, Pk
<1> HIDE DEF c
<1>4. d \in Pk /\ d.msg = c.msg /\ d.day_messages = c.day_messages /\ d.last_drink_ts <= t
  <2>1. c.last_drink_ts <= t
    BY <1>2, <1>3 DEF SameThirst, SameDrinks
  <2>2. d \in Pk /\ d.last_drink_ts <= t
    BY <1>3, <2>1, TakeVisitsDoes
  <2> QED
    BY <1>3, <2>2 DEF TakeVisits, Pk
<1> HIDE DEF d
<1>5. /\ read \in Pk /\ read.msg = d.msg /\ read.day_messages = d.day_messages
      /\ SameThirst(d, read)
  <2>1. read \in Pk /\ SameThirst(d, read)
    BY <1>4, TakeHistoryType
  <2> QED
    BY <1>4, <2>1 DEF TakeHistory, Pk
<1> HIDE DEF read
<1>6. calm \in Pk /\ Grows(read, calm, Alarms) /\ SameDrinks(read, calm)
  BY <1>1, <1>5, ClearThirstType, GrowsThirst
<1> HIDE DEF calm
<1>7. e \in Pk /\ Grows(calm, e, Alarms) /\ SameThirst(calm, e)
  BY <1>6, CheckReadingType, GrowsReading
<1> HIDE DEF e
<1>8. f \in Pk /\ Grows(e, f, Alarms) /\ SameThirst(e, f)
  BY <1>7, CheckHistoryType, GrowsHistory
<1> HIDE DEF f
<1>9. g \in Pk /\ Grows(f, g, Alarms)
  <2>1. f.last_drink_ts <= t
    BY <1>4, <1>5, <1>6, <1>7, <1>8 DEF SameThirst, SameDrinks
  <2> QED
    BY <1>8, <2>1, CheckThirstType, GrowsThirst
<1>10. PollOk(a, s, fresh, hist, t) = g
  BY DEF PollOk, b, c, d, read, calm, e, f
<1> HIDE DEF g
<1>11. Grows(a, read, Alarms)
  BY <1>2, <1>3, <1>4, <1>5 DEF Grows
<1> DEFINE A == Alarms
<1>12. A \cup A = A
  OBVIOUS
<1> HIDE DEF A
<1>13. Grows(a, read, A) /\ Grows(read, calm, A) /\ Grows(calm, e, A)
       /\ Grows(e, f, A) /\ Grows(f, g, A)
  BY <1>6, <1>7, <1>8, <1>9, <1>11 DEF A
<1>14. Grows(a, calm, A)
  BY <1>5, <1>6, <1>12, <1>13, GrowsThen
<1>15. Grows(a, e, A)
  BY <1>6, <1>7, <1>12, <1>13, <1>14, GrowsThen
<1>16. Grows(a, f, A)
  BY <1>7, <1>8, <1>12, <1>13, <1>15, GrowsThen
<1>17. Grows(a, g, A)
  BY <1>8, <1>9, <1>12, <1>13, <1>16, GrowsThen
<1> QED
  BY <1>10, <1>17 DEF A

Closes(q, t) == DayOf(t) # q.day_no /\ SecOfDay(t) >= SettleSec

OnlyAlarms(q) == \A i \in 1..Len(q.msg) : q.msg[i] \in Alarms

\* The queue of a round whose tick closes the day: alarms of the day that is
\* over, its report, which counts them, and the first alarms of the new day.
Turned(q, r, t) ==
  LET i == Len(q.msg) + 1
  IN  /\ r.day_no = DayOf(t) /\ r.last_report_day = q.day_no
      /\ i <= Len(r.msg)
      /\ Positions(r.msg, "report") = {i}
      /\ r.msg[i] = TheReport(q)
      /\ r.day_messages = Len(r.msg) - i

LEMMA CloseDayTurns ==
  ASSUME NEW q \in Pk, NEW t \in Nat, Closes(q, t), q.last_report_day < q.day_no,
         Len(q.msg) < MaxMsg, OnlyAlarms(q)
  PROVE  LET c == CloseDay(q, t)
         IN  /\ c \in Pk /\ c.day_no = DayOf(t) /\ c.last_report_day = q.day_no
             /\ Len(c.msg) = Len(q.msg) + 1 /\ c.day_messages = 0
             /\ \A i \in 1..Len(q.msg) : c.msg[i] = q.msg[i]
             /\ c.msg[Len(q.msg) + 1] = TheReport(q)
<1> DEFINE stamped == [q EXCEPT !.last_report_day = q.day_no]
           m == TheReport(q)
           told == Say(stamped, m)
           c == CloseDay(q, t)
<1>1. stamped \in Pk /\ stamped.msg = q.msg /\ stamped.last_report_day = q.day_no
  <2>1. q.day_no \in Nat \cup {-1}
    BY DEF Pk
  <2> HIDE DEF stamped
  <2>2. stamped = [q EXCEPT !.last_report_day = q.day_no]
    BY DEF stamped
  <2>3. stamped \in Pk
    BY <2>1, <2>2, ZenonT(30) DEF Pk
  <2> QED
    BY <2>2, <2>3 DEF Pk
<1>2. m \in Msg
  BY DEF TheReport, Msg, Pk, DrinksOn
<1>3. c = DayRollover(told, DayOf(t), t)
  <2>1. EmitReport(stamped, q.day_no) = told
    BY DEF EmitReport, TheReport, DrinksOn, Pk
  <2> QED
    BY <2>1 DEF CloseDay, Closes
<1> HIDE DEF stamped, m
<1>4. told \in Pk /\ Grows(stamped, told, {m}) /\ Len(told.msg) <= Len(q.msg) + 1
      /\ told.last_report_day = q.day_no /\ m \in Told(told)
  <2>1. told \in Pk
    BY <1>1, <1>2, SayType
  <2>2. Grows(stamped, told, {m})
    BY <1>1, <1>2, GrowsSay
  <2>3. /\ Only(stamped, told, Queue) /\ Says(stamped, told, {m}, 1)
        /\ m \in Told(told)
    BY <1>1, <1>2, SaySays
  <2> QED
    BY <1>1, <2>1, <2>2, <2>3 DEF Only, Fields, Queue, Says
<1> HIDE DEF told
<1>5. c \in Pk
  BY CloseDayType
<1>6. /\ c.day_no = DayOf(t) /\ c.day_messages = 0 /\ c.msg = told.msg
      /\ c.last_report_day = q.day_no
  BY <1>3, <1>4 DEF DayRollover, Pk
<1> HIDE DEF c
<1> DEFINE k == Len(q.msg)
           l == Len(told.msg)
<1>7. k \in Nat /\ l \in Nat /\ k <= l /\ l <= k + 1 /\ DOMAIN told.msg = 1..l
      /\ (\A i \in 1..k : told.msg[i] = q.msg[i])
      /\ (\A i \in k + 1..l : told.msg[i] \in {m})
  BY <1>1, <1>4, QueueLength DEF Grows
<1>8. \A i \in 1..k : q.msg[i] # m
  BY DEF OnlyAlarms, Alarms, m, TheReport, Problems
<1> HIDE DEF k, l
<1>9. l = k + 1
  <2>1. PICK i \in 1..l : told.msg[i] = m
    BY <1>4, <1>7 DEF Told
  <2>2. i \notin 1..k
    BY <1>7, <1>8, <2>1
  <2> QED
    BY <1>7, <2>1, <2>2
<1>10. told.msg[k + 1] = m
  <2>1. k + 1 \in k + 1..l
    BY <1>7, <1>9
  <2> QED
    BY <1>7, <2>1
<1> QED
  BY <1>5, <1>6, <1>7, <1>9, <1>10 DEF k, l, m, c

LEMMA TickTurns ==
  ASSUME NEW q \in Pk, NEW t \in Nat, q.last_drink_ts <= t, q.last_report_day < q.day_no,
         Len(q.msg) < MaxMsg, OnlyAlarms(q)
  PROVE  LET r == Tick(q, t)
         IN  /\ Closes(q, t) => Turned(q, r, t)
             /\ ~ Closes(q, t) => /\ r.day_no = q.day_no /\ r.last_report_day = q.last_report_day
                                  /\ Grows(q, r, Alarms)
<1> DEFINE c == CloseDay(q, t)
           k == CheckContact(c, t)
           r == CheckThirst(k, t)
<1>1. c \in Pk /\ c.last_drink_ts = q.last_drink_ts
  BY CloseDayType
<1>2. ~ Closes(q, t) => c = q
  BY DEF CloseDay, Closes
<1>3. Closes(q, t) =>
        /\ c.day_no = DayOf(t) /\ c.last_report_day = q.day_no
        /\ Len(c.msg) = Len(q.msg) + 1 /\ c.day_messages = 0
        /\ \A i \in 1..Len(q.msg) : c.msg[i] = q.msg[i]
        /\ c.msg[Len(q.msg) + 1] = TheReport(q)
  BY CloseDayTurns
<1> HIDE DEF c
<1>4. k \in Pk /\ Only(c, k, Queue \cup {"unreachable"}) /\ Grows(c, k, Alarms)
  BY <1>1, ContactType, ContactSays, GrowsContact
<1> HIDE DEF k
<1>5. r \in Pk /\ Only(k, r, Queue \cup {"thirst_level"}) /\ Grows(k, r, Alarms)
  <2>1. k.last_drink_ts <= t
    BY <1>1, <1>4 DEF Only, Fields, Queue
  <2> QED
    BY <1>4, <2>1, CheckThirstType, CheckThirstSays, GrowsThirst
<1> HIDE DEF r
<1>6. r.day_no = c.day_no /\ r.last_report_day = c.last_report_day
  BY <1>4, <1>5 DEF Only, Fields, Queue
<1>7. Grows(c, r, Alarms)
  <2> DEFINE A == Alarms
  <2>1. A \cup A = A
    OBVIOUS
  <2> HIDE DEF A
  <2>2. Grows(c, k, A) /\ Grows(k, r, A)
    BY <1>4, <1>5 DEF A
  <2>3. Grows(c, r, A)
    BY <1>1, <1>4, <1>5, <2>1, <2>2, GrowsThen
  <2> QED
    BY <2>3 DEF A
<1>8. ASSUME Closes(q, t)
      PROVE  Turned(q, r, t)
  <2> DEFINE n == Len(q.msg)
             l == Len(r.msg)
  <2>1. n \in Nat /\ l \in Nat /\ DOMAIN r.msg = 1..l /\ r.day_messages \in Nat
    BY <1>5, QueueLength
  <2>2. /\ Len(c.msg) = n + 1 /\ n + 1 <= l
        /\ r.day_messages = 0 + (l - (n + 1))
        /\ \A i \in 1..n + 1 : r.msg[i] = c.msg[i]
        /\ \A i \in n + 1 + 1..l : r.msg[i] \in Alarms
    BY <1>3, <1>7, <1>8 DEF Grows
  <2>3. \A i \in 1..n : r.msg[i] \in Alarms
    <3>1. ASSUME NEW i \in 1..n
          PROVE  r.msg[i] = q.msg[i]
      <4>1. i \in 1..n + 1
        BY <2>1
      <4> QED
        BY <1>3, <1>8, <2>2, <4>1
    <3> QED
      BY <3>1 DEF OnlyAlarms
  <2> HIDE DEF n, l
  <2>4. r.msg[n + 1] = TheReport(q)
    <3>1. n + 1 \in 1..n + 1
      BY <2>1
    <3> QED
      BY <1>3, <1>8, <2>2, <3>1 DEF n
  <2>5. ASSUME NEW i \in 1..l, i # n + 1
        PROVE  r.msg[i].kind # "report"
    <3>1. i \in 1..n \/ i \in n + 1 + 1..l
      BY <2>1, <2>2, <2>5
    <3>2. r.msg[i] \in Alarms
      BY <2>2, <2>3, <3>1
    <3> QED
      BY <3>2 DEF Alarms, Problems
  <2>6. r.msg[n + 1].kind = "report" /\ n + 1 \in 1..l
    BY <2>1, <2>2, <2>4 DEF TheReport
  <2>7. Positions(r.msg, "report") = {n + 1}
    BY <2>1, <2>5, <2>6 DEF Positions
  <2>8. r.day_messages = l - (n + 1)
    BY <2>1, <2>2
  <2> QED
    BY <1>3, <1>6, <1>8, <2>2, <2>4, <2>7, <2>8 DEF Turned, n, l
<1>9. Tick(q, t) = r
  BY DEF Tick, r, k, c
<1> QED
  BY <1>2, <1>6, <1>7, <1>8, <1>9

\* The queue never fills up, so nothing that was said was dropped from it.
Roomy == Len(p.msg) < MaxMsg

\* At time t the counters run for the day of t, or for the day before it while
\* the last records of that day may still be coming.
Behind(t) ==
  \/ p.day_no = DayOf(t)
  \/ p.day_no = DayOf(t) - 1 /\ SecOfDay(t) < SettleSec

\* The day that is to be reported next.
NextReport(day) == reported # <<>> => day = reported[1] + Len(reported)

Counted ==
  /\ phase \in {"boot", "idle", "answer", "reply"} =>
       p.day_messages = alerts /\ NextReport(p.day_no)
  /\ phase = "tick" =>
       /\ OnlyAlarms(p)
       /\ p.day_messages = alerts + Len(p.msg) /\ NextReport(p.day_no)
  /\ phase = "deliver" =>
       \/ /\ Queued("report") = {}
          /\ p.day_messages = alerts + Len(p.msg) /\ NextReport(p.day_no)
       \/ \E i \in 1..Len(p.msg) :
            /\ Queued("report") = {i}
            /\ p.msg[i].arg = p.day_no - 1 /\ p.msg[i].alerts = alerts + i - 1
            /\ p.day_messages = Len(p.msg) - i /\ NextReport(p.day_no - 1)

TurnInv ==
  /\ roundAt <= now /\ now <= roundAt + PollSec
  /\ phase # "idle" => now = roundAt
  /\ phase # "tick" => Behind(roundAt)
  /\ phase = "tick" => roundAt - PollSec \in Nat /\ Behind(roundAt - PollSec)
  /\ p.last_report_day = p.day_no - 1
  /\ \A i \in DOMAIN reported : reported[i] = reported[1] + i - 1
  /\ Counted

LEMMA InitTurns == Init => TurnInv
<1> SUFFICES ASSUME Init PROVE TurnInv
  OBVIOUS
<1>1. now \in Nat /\ PollSec \in Nat
  BY RoundsAssumption, Constants DEF Init, RoundsAssumption
<1>2. /\ p = PkInit(now) /\ roundAt = now /\ phase = "boot" /\ reported = <<>> /\ alerts = 0
  BY DEF Init
<1>3. p.day_no = DayOf(now) /\ p.last_report_day = DayOf(now) - 1 /\ p.day_messages = 0
  BY <1>2 DEF PkInit
<1>4. Counted
  BY <1>2, <1>3 DEF Counted, NextReport
<1> QED
  BY <1>1, <1>2, <1>3, <1>4 DEF TurnInv, Behind

\* One poll interval later the counters are at most one day behind.
LEMMA BehindLater ==
  ASSUME NEW t \in Nat, p.day_no \in Int, Behind(t)
  PROVE  p.day_no = DayOf(t + PollSec) \/ p.day_no = DayOf(t + PollSec) - 1
<1>1. /\ PollSec \in Nat /\ SettleSec \in Nat /\ DaySec \in Nat \ {0}
      /\ PollSec < DaySec - SettleSec
  BY Constants, RoundsAssumption DEF RoundsAssumption
<1>2. DayOf(t) \in Nat /\ SecOfDay(t) \in 0..DaySec - 1
  BY DayParts
<1>3. IF SecOfDay(t) + PollSec < DaySec THEN DayOf(t + PollSec) = DayOf(t)
                                        ELSE DayOf(t + PollSec) = DayOf(t) + 1
  BY <1>1, DayLater
<1> DEFINE d == DayOf(t)
           s == SecOfDay(t)
           e == DayOf(t + PollSec)
<1>4. /\ d \in Nat /\ s \in 0..DaySec - 1
      /\ IF s + PollSec < DaySec THEN e = d ELSE e = d + 1
      /\ p.day_no = d \/ (p.day_no = d - 1 /\ s < SettleSec)
  BY <1>2, <1>3 DEF Behind
<1> HIDE DEF d, s, e
<1>5. p.day_no = e \/ p.day_no = e - 1
  BY <1>1, <1>4
<1> QED
  BY <1>5 DEF e

\* What a poll leaves of the day and of the count.
LEMMA PollTurns ==
  ASSUME IInv, ClaimInv, phase \in {"boot", "idle"},
         NEW s \in Readings, NEW hist \in {"ok", "short"},
         NEW fresh \in SUBSET buf, ReadFountain(hist, fresh)
  PROVE  LET q == PollOk(p, s, fresh, hist, now)
         IN  /\ q \in Pk /\ q.day_no = p.day_no /\ q.last_report_day = p.last_report_day
             /\ OnlyAlarms(q) /\ q.day_messages = p.day_messages + Len(q.msg)
<1> DEFINE q == PollOk(p, s, fresh, hist, now)
<1>1. /\ p \in Pk /\ now \in Nat /\ p.last_drink_ts <= now /\ p.msg = <<>>
  BY DEF IInv, Sound, Env, ClaimInv
<1>2. fresh \in SUBSET Nat /\ (\A x \in fresh : x <= now) /\ s \in PkState
  BY ReadType, RoundsAssumption DEF RoundsAssumption
<1>3. PollOkEffect(p, q, s, fresh, hist, now) /\ Grows(p, q, Alarms)
  BY <1>1, <1>2, PollOkDoes, GrowsPollOk
<1> HIDE DEF q
<1>4. q \in Pk /\ q.day_no = p.day_no /\ q.last_report_day = p.last_report_day
  BY <1>3 DEF PollOkEffect
<1>5. Len(p.msg) = 0 /\ Len(q.msg) \in Nat
  BY <1>1, <1>4, QueueLength
<1>6. OnlyAlarms(q)
  BY <1>3, <1>5 DEF Grows, OnlyAlarms
<1>7. q.day_messages = p.day_messages + Len(q.msg)
  BY <1>3, <1>5 DEF Grows
<1> QED
  BY <1>4, <1>6, <1>7 DEF q

LEMMA PollsKeepTurns ==
  IInv /\ ClaimInv /\ TurnInv /\ (BootPollOk \/ BootPollFail \/ RoundPollOk \/ RoundPollFail)
    => TurnInv'
<1> SUFFICES ASSUME IInv, ClaimInv, TurnInv,
                    BootPollOk \/ BootPollFail \/ RoundPollOk \/ RoundPollFail
             PROVE  TurnInv'
  OBVIOUS
<1>1. /\ p \in Pk /\ now \in Nat /\ roundAt \in Nat /\ PollSec \in Nat /\ alerts \in Nat
      /\ p.day_messages \in Nat
  BY Constants, QueueLength DEF IInv, Sound, Env, User
<1>2. CASE BootPollOk
  <2>1. PICK s \in Readings, hist \in {"ok", "short"}, fresh \in SUBSET buf :
          /\ ReadFountain(hist, fresh)
          /\ p' = MsgDrop(PollOk(p, s, fresh, hist, now))
    BY <1>2 DEF BootPollOk
  <2> DEFINE q == PollOk(p, s, fresh, hist, now)
  <2>2. /\ q \in Pk /\ q.day_no = p.day_no /\ q.last_report_day = p.last_report_day
        /\ q.day_messages = p.day_messages + Len(q.msg)
    BY <1>2, <2>1, PollTurns DEF BootPollOk
  <2> HIDE DEF q
  <2>3. p' = MsgDrop(q) /\ Len(q.msg) \in Nat
    BY <2>1, <2>2, QueueLength DEF q
  <2>4. /\ p'.day_no = p.day_no /\ p'.last_report_day = p.last_report_day
        /\ p'.day_messages = IF q.day_messages > Len(q.msg)
                             THEN q.day_messages - Len(q.msg) ELSE 0
    BY <2>2, <2>3 DEF MsgDrop, Pk
  <2>5. p'.day_messages = p.day_messages
    BY <1>1, <2>2, <2>3, <2>4
  <2>6. phase = "boot" /\ phase' = "idle" /\ UNCHANGED <<now, roundAt, reported, alerts>>
    BY <1>2 DEF BootPollOk
  <2> QED
    BY <2>4, <2>5, <2>6 DEF TurnInv, Counted, Behind, NextReport
<1>3. CASE BootPollFail
  <2>1. p' = p /\ phase = "boot" /\ phase' = "idle" /\ UNCHANGED <<now, roundAt, reported, alerts>>
    BY <1>3 DEF BootPollFail, PollFail
  <2> QED
    BY <2>1 DEF TurnInv, Counted, Behind, NextReport
<1>4. ASSUME phase = "idle", phase' = "tick", now = roundAt + PollSec, roundAt' = now,
             UNCHANGED <<now, reported, alerts>>,
             p'.day_no = p.day_no, p'.last_report_day = p.last_report_day,
             OnlyAlarms(p)', p'.day_messages = p.day_messages + Len(p'.msg)
      PROVE  TurnInv'
  <2>1. roundAt' - PollSec = roundAt
    BY <1>1, <1>4
  <2>2. Counted'
    BY <1>4 DEF TurnInv, Counted, NextReport
  <2>3. Behind(roundAt - PollSec)'
    <3>1. Behind(roundAt)
      BY <1>4 DEF TurnInv
    <3> QED
      BY <1>4, <2>1, <3>1 DEF Behind
  <2>4. roundAt' <= now' /\ now' <= roundAt' + PollSec /\ now' = roundAt'
    BY <1>1, <1>4
  <2>5. \A i \in DOMAIN reported' : reported'[i] = reported'[1] + i - 1
    BY <1>4 DEF TurnInv
  <2>6. p'.last_report_day = p'.day_no - 1
    BY <1>4 DEF TurnInv
  <2> QED
    BY <1>1, <1>4, <2>1, <2>2, <2>3, <2>4, <2>5, <2>6 DEF TurnInv
<1>5. CASE RoundPollOk
  <2>1. PICK s \in Readings, hist \in {"ok", "short"}, fresh \in SUBSET buf :
          /\ ReadFountain(hist, fresh)
          /\ p' = PollOk(p, s, fresh, hist, now)
    BY <1>5 DEF RoundPollOk
  <2> DEFINE q == PollOk(p, s, fresh, hist, now)
  <2>2. /\ q \in Pk /\ q.day_no = p.day_no /\ q.last_report_day = p.last_report_day
        /\ OnlyAlarms(q) /\ q.day_messages = p.day_messages + Len(q.msg)
    BY <1>5, <2>1, PollTurns DEF RoundPollOk, RoundStarts
  <2> HIDE DEF q
  <2>3. p' = q
    BY <2>1 DEF q
  <2>4. OnlyAlarms(p)'
    BY <2>2, <2>3 DEF OnlyAlarms
  <2> QED
    BY <1>4, <1>5, <2>2, <2>3, <2>4 DEF RoundPollOk, RoundStarts
<1>6. CASE RoundPollFail
  <2>1. p' = p /\ p.msg = <<>>
    BY <1>6 DEF RoundPollFail, RoundStarts, PollFail, ClaimInv
  <2>2. Len(p'.msg) = 0 /\ OnlyAlarms(p)'
    BY <2>1 DEF OnlyAlarms
  <2>3. p'.day_messages = p.day_messages + Len(p'.msg)
    BY <1>1, <2>1, <2>2
  <2> QED
    BY <1>4, <1>6, <2>1, <2>2, <2>3 DEF RoundPollFail, RoundStarts
<1> QED
  BY <1>2, <1>3, <1>5, <1>6

LEMMA TickDay ==
  IInv /\ TurnInv /\ phase = "tick" => p.day_no = DayOf(now) \/ p.day_no = DayOf(now) - 1
<1> SUFFICES ASSUME IInv, TurnInv, phase = "tick"
             PROVE  p.day_no = DayOf(now) \/ p.day_no = DayOf(now) - 1
  OBVIOUS
<1>1. p.day_no \in Nat /\ PollSec \in Nat /\ roundAt \in Nat
  BY Constants DEF IInv, Sound, Env, Pk
<1>2. now = roundAt /\ roundAt - PollSec \in Nat /\ Behind(roundAt - PollSec)
  BY DEF TurnInv
<1>3. p.day_no = DayOf(roundAt - PollSec + PollSec)
      \/ p.day_no = DayOf(roundAt - PollSec + PollSec) - 1
  BY <1>1, <1>2, BehindLater
<1>4. roundAt - PollSec + PollSec = now
  BY <1>1, <1>2
<1> QED
  BY <1>3, <1>4

\* The day is closed in time, with its report, and the count begins again.
LEMMA TickKeepsTurns == IInv /\ ClaimInv /\ TurnInv /\ Roomy /\ RoundTick => TurnInv'
<1> SUFFICES ASSUME IInv, ClaimInv, TurnInv, Roomy, RoundTick PROVE TurnInv'
  OBVIOUS
<1>1. /\ p \in Pk /\ now \in Nat /\ p.last_drink_ts <= now /\ p.day_no \in Nat
      /\ alerts \in Nat /\ PollSec \in Nat /\ SettleSec \in Nat /\ roundAt \in Nat
  BY Constants DEF IInv, Sound, Env, User, Pk
<1>2. /\ p' = Tick(p, now) /\ phase = "tick" /\ phase' = "deliver"
      /\ UNCHANGED <<now, roundAt, reported, alerts>>
  BY DEF RoundTick
<1>3. /\ now = roundAt /\ roundAt - PollSec \in Nat /\ Behind(roundAt - PollSec)
      /\ p.last_report_day = p.day_no - 1 /\ OnlyAlarms(p)
      /\ p.day_messages = alerts + Len(p.msg) /\ NextReport(p.day_no)
      /\ \A i \in DOMAIN reported : reported[i] = reported[1] + i - 1
      /\ roundAt <= now /\ now <= roundAt + PollSec
  BY <1>2 DEF TurnInv, Counted
<1>4. p.last_report_day < p.day_no
  BY <1>1, <1>3
<1>5. p' \in Pk
  BY <1>1, <1>2, TickDoes
<1>6. /\ Closes(p, now) => Turned(p, p', now)
      /\ ~ Closes(p, now) => /\ p'.day_no = p.day_no
                             /\ p'.last_report_day = p.last_report_day
                             /\ Grows(p, p', Alarms)
  BY <1>1, <1>2, <1>3, <1>4, TickTurns DEF Roomy
<1>7. p.day_no = DayOf(now) \/ p.day_no = DayOf(now) - 1
  BY <1>2, TickDay
<1>8. /\ Len(p.msg) \in Nat /\ Len(p'.msg) \in Nat /\ DOMAIN p'.msg = 1..Len(p'.msg)
      /\ p'.day_messages \in Nat
  BY <1>1, <1>5, QueueLength
<1>9. DayOf(now) \in Nat /\ SecOfDay(now) \in Nat
  BY <1>1, Constants, DayParts
<1>10. CASE Closes(p, now)
  <2>1. /\ p'.day_no = DayOf(now) /\ p'.last_report_day = p.day_no
        /\ Positions(p'.msg, "report") = {Len(p.msg) + 1}
        /\ Len(p.msg) + 1 <= Len(p'.msg)
        /\ p'.msg[Len(p.msg) + 1] = TheReport(p)
        /\ p'.day_messages = Len(p'.msg) - (Len(p.msg) + 1)
    BY <1>6, <1>10 DEF Turned
  <2>2. p.day_no = p'.day_no - 1
    BY <1>7, <1>10, <2>1 DEF Closes
  <2> DEFINE i == Len(p.msg) + 1
  <2>3. /\ i \in 1..Len(p'.msg) /\ alerts + i - 1 = alerts + Len(p.msg)
    BY <1>1, <1>8, <2>1
  <2>4. TheReport(p).arg = p.day_no /\ TheReport(p).alerts = p.day_messages
    BY DEF TheReport
  <2>5. \E j \in 1..Len(p'.msg) :
          /\ Positions(p'.msg, "report") = {j}
          /\ p'.msg[j].arg = p'.day_no - 1 /\ p'.msg[j].alerts = alerts' + j - 1
          /\ p'.day_messages = Len(p'.msg) - j
    <3>1. /\ Positions(p'.msg, "report") = {i}
          /\ p'.msg[i].arg = p'.day_no - 1
          /\ p'.day_messages = Len(p'.msg) - i
      BY <2>1, <2>2, <2>4
    <3>2. p'.msg[i].alerts = alerts' + i - 1
      BY <1>2, <1>3, <2>1, <2>3, <2>4
    <3> HIDE DEF i
    <3> QED
      BY <2>3, <3>1, <3>2
  <2>6. NextReport(p.day_no - 1)'
    BY <1>2, <1>3, <2>2 DEF NextReport
  <2>7. Counted'
    BY <1>2, <2>5, <2>6 DEF Counted, Queued
  <2>8. Behind(roundAt)'
    BY <1>2, <1>3, <2>1 DEF Behind
  <2> QED
    BY <1>2, <1>3, <2>1, <2>2, <2>7, <2>8 DEF TurnInv
<1>11. CASE ~ Closes(p, now)
  <2>1. /\ p'.day_no = p.day_no /\ p'.last_report_day = p.last_report_day
        /\ Grows(p, p', Alarms)
    BY <1>6, <1>11
  <2>2. ASSUME NEW i \in 1..Len(p'.msg)
        PROVE  p'.msg[i] \in Alarms
    <3>1. i \in 1..Len(p.msg) \/ i \in Len(p.msg) + 1..Len(p'.msg)
      BY <1>8
    <3> QED
      BY <1>3, <2>1, <3>1 DEF Grows, OnlyAlarms
  <2>3. Positions(p'.msg, "report") = {}
    BY <1>8, <2>2 DEF Positions, Alarms, Problems
  <2>4. p'.day_messages = alerts + Len(p'.msg)
    <3>1. p'.day_messages = p.day_messages + (Len(p'.msg) - Len(p.msg))
      BY <2>1 DEF Grows
    <3> DEFINE k == Len(p.msg)
               l == Len(p'.msg)
               m == p.day_messages
    <3>2. k \in Nat /\ l \in Nat /\ m = alerts + k /\ p'.day_messages = m + (l - k)
      BY <1>3, <1>8, <3>1
    <3> HIDE DEF k, l, m
    <3>3. p'.day_messages = alerts + l
      BY <1>1, <3>2
    <3> QED
      BY <3>3 DEF l
  <2>5. Counted'
    BY <1>2, <1>3, <2>1, <2>3, <2>4 DEF Counted, Queued, NextReport
  <2>6. Behind(roundAt)'
    <3>1. p.day_no = DayOf(now) \/ (p.day_no = DayOf(now) - 1 /\ SecOfDay(now) < SettleSec)
      BY <1>1, <1>7, <1>9, <1>11 DEF Closes
    <3> QED
      BY <1>2, <1>3, <2>1, <3>1 DEF Behind
  <2> QED
    BY <1>2, <1>3, <2>1, <2>5, <2>6 DEF TurnInv
<1> QED
  BY <1>10, <1>11


LEMMA MaxOfOne == ASSUME NEW i \in Nat PROVE Max({i}) = i
<1>1. Max({i}) \in {i}
  BY MaxOfBounded
<1> QED
  BY <1>1

\* The round's messages reach the user, and the day that was closed with them.
LEMMA DeliverKeepsTurns == IInv /\ TurnInv /\ Deliver => TurnInv'
<1> SUFFICES ASSUME IInv, TurnInv, Deliver PROVE TurnInv'
  OBVIOUS
<1>1. /\ p \in Pk /\ p.day_no \in Nat /\ alerts \in Nat /\ reported \in Seq(Nat)
      /\ Len(p.msg) \in Nat /\ Len(reported) \in Nat
      /\ DOMAIN reported = 1..Len(reported)
  BY QueueLength, LenProperties DEF IInv, Sound, User, Pk
<1>2. /\ phase = "deliver" /\ phase' = "answer" /\ UNCHANGED <<now, roundAt>>
      /\ p' = [p EXCEPT !.msg = <<>>]
  BY DEF Deliver, MsgClear
<1>3. /\ p'.day_no = p.day_no /\ p'.last_report_day = p.last_report_day
      /\ p'.day_messages = p.day_messages
  BY <1>1, <1>2 DEF Pk
<1>4. ASSUME p.day_messages = alerts',
             \A i \in DOMAIN reported' : reported'[i] = reported'[1] + i - 1,
             NextReport(p.day_no)'
      PROVE  TurnInv'
  <2>2. Counted'
    BY <1>2, <1>3, <1>4 DEF Counted, NextReport
  <2>3. Behind(roundAt)'
    BY <1>2, <1>3 DEF TurnInv, Behind
  <2> QED
    BY <1>2, <1>3, <1>4, <2>2, <2>3 DEF TurnInv
<1>5. CASE Queued("report") = {}
  <2>1. /\ p.day_messages = alerts + Len(p.msg) /\ NextReport(p.day_no)
    BY <1>2, <1>5 DEF TurnInv, Counted
  <2>2. alerts' = alerts + Len(p.msg) /\ reported' = reported
    BY <1>5 DEF Deliver, Queued
  <2>3. NextReport(p.day_no)'
    BY <1>3, <2>1, <2>2 DEF NextReport
  <2>4. \A i \in DOMAIN reported' : reported'[i] = reported'[1] + i - 1
    BY <2>2 DEF TurnInv
  <2> QED
    BY <1>4, <2>1, <2>2, <2>3, <2>4
<1>6. CASE Queued("report") # {}
  <2>1. PICK i \in 1..Len(p.msg) :
          /\ Queued("report") = {i}
          /\ p.msg[i].arg = p.day_no - 1
          /\ p.day_messages = Len(p.msg) - i /\ NextReport(p.day_no - 1)
    BY <1>2, <1>6 DEF TurnInv, Counted
  <2> DEFINE d == p.day_no - 1
             n == Len(reported)
  <2>2. Max(Queued("report")) = i
    BY <1>1, <2>1, MaxOfOne
  <2>3. alerts' = Len(p.msg) - i /\ reported' = Append(reported, d)
    BY <1>6, <2>1, <2>2 DEF Deliver, Queued
  <2>4. d \in Nat
    <3>1. p.msg \in Seq(Msg)
      BY <1>1 DEF Pk
    <3>2. p.msg[i] \in Msg
      BY <2>1, <3>1, ElementOfSeq
    <3>3. p.msg[i].arg \in Nat
      BY <3>2 DEF Msg
    <3> QED
      BY <2>1, <3>3
  <2>5. /\ Len(reported') = n + 1 /\ DOMAIN reported' = 1..n + 1
        /\ reported'[n + 1] = d
        /\ \A j \in 1..n : reported'[j] = reported[j]
    BY <1>1, <2>3, <2>4, AppendProperties, LenProperties
  <2>6. \A j \in DOMAIN reported : reported[j] = reported[1] + j - 1
    BY DEF TurnInv
  <2>7. n = 0 => reported = <<>>
    BY <1>1, EmptySeq
  <2>8. CASE n = 0
    <3>1. reported'[1] = d /\ DOMAIN reported' = 1..1 /\ Len(reported') = 1
      BY <2>5, <2>8
    <3>2. p'.day_no = reported'[1] + Len(reported')
      BY <1>1, <1>3, <3>1
    <3>3. \A j \in DOMAIN reported' : reported'[j] = reported'[1] + j - 1
      BY <2>4, <3>1
    <3>4. NextReport(p.day_no)'
      BY <3>2 DEF NextReport
    <3> QED
      BY <1>4, <2>1, <2>3, <3>3, <3>4
  <2>9. CASE n # 0
    <3>1. 1 \in 1..n /\ reported # <<>>
      BY <1>1, <2>9
    <3>2. d = reported[1] + n
      BY <2>1, <3>1 DEF NextReport
    <3>3. reported'[1] = reported[1] /\ reported[1] \in Nat
      BY <1>1, <2>5, <3>1
    <3>4. \A j \in DOMAIN reported' : reported'[j] = reported'[1] + j - 1
      <4> SUFFICES ASSUME NEW j \in 1..n + 1
                   PROVE  reported'[j] = reported'[1] + j - 1
        BY <2>5
      <4>1. CASE j \in 1..n
        BY <1>1, <2>5, <2>6, <3>3, <4>1
      <4>2. CASE j = n + 1
        <5>1. reported'[1] + j - 1 = reported[1] + n
          BY <1>1, <3>3, <4>2
        <5> QED
          BY <2>5, <3>2, <4>2, <5>1
      <4> QED
        BY <1>1, <4>1, <4>2
    <3>5. p'.day_no = reported'[1] + Len(reported')
      <4> DEFINE r == reported[1]
                 e == p.day_no
      <4>1. r \in Nat /\ e \in Nat /\ e - 1 = r + n
        BY <1>1, <3>2, <3>3
      <4> HIDE DEF r, e, n
      <4>2. e = r + (n + 1)
        BY <1>1, <4>1 DEF n
      <4> QED
        BY <1>3, <2>5, <3>3, <4>2 DEF r, e
    <3>6. NextReport(p.day_no)'
      BY <3>5 DEF NextReport
    <3> QED
      BY <1>4, <2>1, <2>3, <3>4, <3>6
  <2> QED
    BY <2>8, <2>9
<1> QED
  BY <1>5, <1>6

\* Answers to questions are not counted.
LEMMA AnswersKeepTurns == IInv /\ TurnInv /\ (Ask \/ NobodyAsks \/ DeliverReply) => TurnInv'
<1> SUFFICES ASSUME IInv, TurnInv, Ask \/ NobodyAsks \/ DeliverReply PROVE TurnInv'
  OBVIOUS
<1>1. p \in Pk
  BY DEF IInv, Sound
<1>2. /\ UNCHANGED <<now, roundAt, reported, alerts>>
      /\ phase \in {"answer", "reply"} /\ phase' \in {"reply", "idle"}
  BY DEF Ask, NobodyAsks, DeliverReply
<1>3. /\ p'.day_no = p.day_no /\ p'.last_report_day = p.last_report_day
      /\ p'.day_messages = p.day_messages
  <2>1. CASE Ask
    <3> DEFINE q == Say(p, Note("status", 0))
    <3>1. q \in Pk /\ Only(p, q, Queue)
      BY <1>1, NoteType, SaySays, SayType
    <3>2. q.day_no = p.day_no /\ q.last_report_day = p.last_report_day
      BY <3>1 DEF Only, Fields, Queue
    <3> HIDE DEF q
    <3>3. p' = [q EXCEPT !.day_messages = p.day_messages]
      BY <2>1 DEF Ask, Command, Reply, q
    <3> QED
      BY <3>1, <3>2, <3>3 DEF Pk
  <2>2. CASE NobodyAsks
    BY <2>2 DEF NobodyAsks
  <2>3. CASE DeliverReply
    BY <1>1, <2>3 DEF DeliverReply, MsgClear, Pk
  <2> QED
    BY <2>1, <2>2, <2>3
<1> QED
  BY <1>2, <1>3 DEF TurnInv, Counted, Behind, NextReport

LEMMA WorldKeepsTurns ==
  IInv /\ TurnInv /\ (Drink \/ (\E t \in wet : WriteRecord(t)) \/ AppSync \/ Pass) => TurnInv'
<1> SUFFICES ASSUME IInv, TurnInv,
                    Drink \/ (\E t \in wet : WriteRecord(t)) \/ AppSync \/ Pass
             PROVE  TurnInv'
  OBVIOUS
<1>1. now \in Nat /\ roundAt \in Nat /\ PollSec \in Nat
  BY Constants DEF IInv, Env
<1>2. phase = "idle" /\ UNCHANGED <<p, phase, roundAt, reported, alerts>>
  BY DEF Drink, WriteRecord, AppSync, Pass
<1>3. roundAt <= now' /\ now' <= roundAt + PollSec
  <2>1. CASE Pass
    BY <1>1, <2>1 DEF Pass, TurnInv
  <2>2. CASE ~ Pass
    <3>1. now' = now
      BY <2>2 DEF Drink, WriteRecord, AppSync
    <3> QED
      BY <3>1 DEF TurnInv
  <2> QED
    BY <2>1, <2>2
<1> QED
  BY <1>2, <1>3 DEF TurnInv, Counted, Behind, NextReport

\* As long as the queue never fills up, TurnInv holds throughout.
LEMMA TurnsAlways == Spec /\ []Roomy => []TurnInv
<1>1. IInv /\ ClaimInv /\ TurnInv /\ Roomy /\ [Next]_vars => TurnInv'
  <2> SUFFICES ASSUME IInv, ClaimInv, TurnInv, Roomy, [Next]_vars PROVE TurnInv'
    OBVIOUS
  <2>1. CASE Next
    BY <2>1, PollsKeepTurns, TickKeepsTurns, DeliverKeepsTurns, AnswersKeepTurns,
       WorldKeepsTurns DEF Next
  <2>2. CASE UNCHANGED vars
    BY <2>2 DEF vars, TurnInv, Counted, Behind, NextReport, Queued, Positions, OnlyAlarms
  <2> QED
    BY <2>1, <2>2
<1> QED
  BY <1>1, InitTurns, Invariance, ClaimsAlways, PTL DEF Spec

\* The day's report comes once, in turn, and in the first round past the
\* settle time of the next day: whatever the poll phase, no midnight is slept
\* through (pk_tick and emit_report in core/petkit_core.c).
THEOREM DaysInTurn == Spec /\ []Roomy => []DaysReportedInTurn
<1>1. IInv /\ TurnInv => DaysReportedInTurn
  <2> SUFFICES ASSUME IInv, TurnInv, phase = "answer"
               PROVE  /\ \A i \in DOMAIN reported : reported[i] = StartDay + i - 1
                      /\ p.day_no = StartDay + Len(reported)
                      /\ p.last_report_day = p.day_no - 1
                      /\ SecOfDay(now) >= SettleSec => p.day_no = DayOf(now)
    BY DEF DaysReportedInTurn
  <2>1. /\ p.day_no \in Nat /\ now \in Nat /\ SettleSec \in Nat /\ reported \in Seq(Nat)
    BY Constants DEF IInv, Sound, Env, User, Pk
  <2>2. /\ now = roundAt /\ Behind(roundAt) /\ p.last_report_day = p.day_no - 1
        /\ \A i \in DOMAIN reported : reported[i] = reported[1] + i - 1
        /\ NextReport(p.day_no)
    BY DEF TurnInv, Counted
  <2>3. SecOfDay(now) \in Nat
    <3>1. now \in Nat /\ DaySec \in Nat
      BY <2>1, Constants
    <3>2. SecOfDay(now) \in 0..DaySec - 1
      BY <3>1, DayParts
    <3> QED
      BY <3>1, <3>2
  <2>4. SecOfDay(now) >= SettleSec => p.day_no = DayOf(now)
    BY <2>1, <2>2, <2>3 DEF Behind
  <2>5. CASE reported = <<>>
    <3>1. DOMAIN reported = {} /\ Len(reported) = 0
      BY <2>5
    <3> QED
      BY <2>1, <2>2, <2>4, <2>5, <3>1 DEF StartDay
  <2>6. CASE reported # <<>>
    BY <2>2, <2>4, <2>6 DEF StartDay, NextReport
  <2> QED
    BY <2>5, <2>6
<1> QED
  BY <1>1, Invariance, TurnsAlways, PTL

\* The figure in a report is the number of alerts the user got since the
\* report before it: day_messages counts what the queue took, and neither the
\* alarms swallowed at boot nor the answers to questions (msg_out, reply,
\* pk_msg_drop in core/petkit_core.c).
THEOREM ReceiptCorrect == Spec /\ []Roomy => []ReceiptExact
<1>1. TurnInv => ReceiptExact
  <2> SUFFICES ASSUME TurnInv PROVE ReceiptExact
    OBVIOUS
  <2>1. phase = "idle" => p.day_messages = alerts
    BY DEF TurnInv, Counted
  <2>2. ASSUME phase = "deliver", NEW i \in Queued("report")
        PROVE  p.msg[i].alerts = alerts + i - 1 /\ Queued("report") = {i}
    <3>1. PICK j \in 1..Len(p.msg) :
            /\ Queued("report") = {j} /\ p.msg[j].alerts = alerts + j - 1
      BY <2>2 DEF TurnInv, Counted
    <3> QED
      BY <2>2, <3>1
  <2> QED
    BY <2>1, <2>2 DEF ReceiptExact
<1> QED
  BY <1>1, TurnsAlways, PTL

-----------------------------------------------------------------------------
(* Messages are edges *)

\* What is known at a place of the queue does not depend on what comes later.
LEMMA LevelsStay ==
  ASSUME NEW a \in Pk, NEW b \in Pk, NEW M, Grows(a, b, M), NEW k, NEW start,
         NEW i \in 1..Len(a.msg) + 1
  PROVE  LevelBefore(b.msg, k, i, start) = LevelBefore(a.msg, k, i, start)
<1> DEFINE I == {j \in Positions(a.msg, k) : j < i}
           J == {j \in Positions(b.msg, k) : j < i}
           m == Len(a.msg)
           n == Len(b.msg)
<1>1. /\ m \in Nat /\ n \in Nat /\ DOMAIN a.msg = 1..m /\ DOMAIN b.msg = 1..n
      /\ m <= n /\ \A j \in 1..m : b.msg[j] = a.msg[j]
  BY QueueLength DEF Grows
<1>2. I \in SUBSET (1..m) /\ J \in SUBSET (1..n) /\ \A j \in J : j < i
  BY <1>1 DEF Positions
<1>3. J \in SUBSET (1..m)
  <2>1. ASSUME NEW j \in 1..n, j < i PROVE j \in 1..m
    BY <1>1, <2>1 DEF m
  <2> QED
    BY <1>2, <2>1
<1>4. I = J
  <2>1. ASSUME NEW j \in 1..m PROVE j \in I <=> j \in J
    <3>1. j \in 1..n /\ b.msg[j] = a.msg[j]
      BY <1>1, <2>1
    <3> QED
      BY <1>1, <2>1, <3>1 DEF Positions
  <2> QED
    BY <1>2, <1>3, <2>1
<1>5. /\ LevelBefore(a.msg, k, i, start) = IF I = {} THEN start ELSE a.msg[Max(I)].arg
      /\ LevelBefore(b.msg, k, i, start) = IF J = {} THEN start ELSE b.msg[Max(J)].arg
  BY DEF LevelBefore
<1> HIDE DEF I, J
<1>6. ASSUME I # {}
      PROVE  b.msg[Max(I)] = a.msg[Max(I)]
  <2>1. I \in SUBSET Nat /\ (\A j \in I : j <= m) /\ m \in Nat
    BY <1>1, <1>2
  <2>2. Max(I) \in I
    BY <1>6, <2>1, MaxOfBounded
  <2> QED
    BY <1>1, <1>2, <2>2
<1> QED
  BY <1>4, <1>5, <1>6

\* A step whose messages are about no problem, and that changes no latch.
QuietFor(a, b, k) ==
  /\ \A i \in Len(a.msg) + 1..Len(b.msg) : b.msg[i].kind # k
  /\ Level(b, k) = Level(a, k)

EdgesOf(q, k, start) ==
  /\ \A i \in Positions(q.msg, k) :
       LET before == LevelBefore(q.msg, k, i, start)
       IN  q.msg[i].arg = before + 1 \/ (q.msg[i].arg = 0 /\ before > 0)
  /\ LastLevel(q.msg, k, start) = Level(q, k)

LEMMA EdgesParts ==
  ASSUME NEW q, NEW known
  PROVE  Edges(q, known) <=> \A k \in Problems : EdgesOf(q, k, known[k])
BY DEF Edges, EdgesOf

LEMMA EdgesQuiet ==
  ASSUME NEW a \in Pk, NEW b \in Pk, NEW M, Grows(a, b, M), NEW k, NEW start,
         EdgesOf(a, k, start), QuietFor(a, b, k)
  PROVE  EdgesOf(b, k, start)
<1> DEFINE m == Len(a.msg)
           n == Len(b.msg)
<1>1. /\ m \in Nat /\ n \in Nat /\ DOMAIN a.msg = 1..m /\ DOMAIN b.msg = 1..n
      /\ m <= n /\ \A j \in 1..m : b.msg[j] = a.msg[j]
  BY QueueLength DEF Grows
<1>2. ASSUME NEW i \in Positions(b.msg, k)
      PROVE  i \in 1..m /\ i \in Positions(a.msg, k)
  <2>1. i \in 1..n /\ b.msg[i].kind = k
    BY <1>1 DEF Positions
  <2>2. i \notin m + 1..n
    BY <2>1 DEF QuietFor
  <2>3. i \in 1..m
    <3> HIDE DEF m, n
    <3> QED
      BY <1>1, <2>1, <2>2
  <2>4. a.msg[i].kind = k
    BY <1>1, <2>1, <2>3
  <2> QED
    BY <1>1, <2>3, <2>4 DEF Positions
<1>3. ASSUME NEW i \in Positions(b.msg, k)
      PROVE  LET before == LevelBefore(b.msg, k, i, start)
             IN  b.msg[i].arg = before + 1 \/ (b.msg[i].arg = 0 /\ before > 0)
  <2>1. i \in 1..m /\ i \in Positions(a.msg, k)
    BY <1>2
  <2>2. i \in 1..Len(a.msg) + 1
    BY <1>1, <2>1
  <2>3. LevelBefore(b.msg, k, i, start) = LevelBefore(a.msg, k, i, start)
    BY <2>2, LevelsStay
  <2>4. b.msg[i] = a.msg[i]
    BY <1>1, <2>1
  <2> QED
    BY <2>1, <2>3, <2>4 DEF EdgesOf
<1>4. LastLevel(b.msg, k, start) = Level(b, k)
  <2>1. m + 1 \in 1..Len(a.msg) + 1
    BY <1>1
  <2>2. LevelBefore(b.msg, k, m + 1, start) = LastLevel(a.msg, k, start)
    BY <2>1, LevelsStay DEF LastLevel
  <2>3. {j \in Positions(b.msg, k) : j < m + 1} = {j \in Positions(b.msg, k) : j < n + 1}
    <3>1. ASSUME NEW j \in Positions(b.msg, k) PROVE j < m + 1 /\ j < n + 1
      <4>1. j \in 1..m
        BY <1>2
      <4> HIDE DEF m, n
      <4> QED
        BY <1>1, <4>1
    <3> QED
      BY <3>1
  <2>4. LastLevel(b.msg, k, start) = LevelBefore(b.msg, k, m + 1, start)
    BY <2>3 DEF LastLevel, LevelBefore
  <2> QED
    BY <2>2, <2>4 DEF EdgesOf, QuietFor
<1> QED
  BY <1>3, <1>4 DEF EdgesOf

\* One message more, one edge further.
LEMMA EdgesNext ==
  ASSUME NEW a \in Pk, NEW b \in Pk, NEW m \in Msg, Grows(a, b, {m}),
         Len(b.msg) = Len(a.msg) + 1, NEW start, EdgesOf(a, m.kind, start),
         Level(b, m.kind) = m.arg,
         \/ m.arg = Level(a, m.kind) + 1
         \/ m.arg = 0 /\ Level(a, m.kind) > 0
  PROVE  EdgesOf(b, m.kind, start)
<1> DEFINE k == m.kind
           l == Len(a.msg)
<1>1. /\ l \in Nat /\ DOMAIN a.msg = 1..l /\ DOMAIN b.msg = 1..l + 1
      /\ (\A j \in 1..l : b.msg[j] = a.msg[j]) /\ b.msg[l + 1] = m
  <2>1. l \in Nat /\ DOMAIN a.msg = 1..l /\ DOMAIN b.msg = 1..l + 1
    BY QueueLength
  <2>2. l + 1 \in Len(a.msg) + 1..Len(b.msg)
    BY <2>1
  <2> QED
    BY <2>1, <2>2 DEF Grows
<1>2. ASSUME NEW i \in Positions(b.msg, k)
      PROVE  LET before == LevelBefore(b.msg, k, i, start)
             IN  b.msg[i].arg = before + 1 \/ (b.msg[i].arg = 0 /\ before > 0)
  <2>1. i \in 1..l + 1 /\ b.msg[i].kind = k
    BY <1>1 DEF Positions
  <2>2. i \in 1..Len(a.msg) + 1
    BY <2>1
  <2>3. LevelBefore(b.msg, k, i, start) = LevelBefore(a.msg, k, i, start)
    BY <2>2, LevelsStay
  <2>4. CASE i \in 1..l
    <3>1. b.msg[i] = a.msg[i] /\ i \in Positions(a.msg, k)
      BY <1>1, <2>1, <2>4 DEF Positions
    <3> QED
      BY <2>3, <3>1 DEF EdgesOf
  <2>5. CASE i = l + 1
    <3>1. LevelBefore(b.msg, k, i, start) = Level(a, k)
      BY <2>3, <2>5 DEF EdgesOf, LastLevel
    <3> QED
      BY <1>1, <2>5, <3>1
  <2> QED
    BY <1>1, <2>1, <2>4, <2>5
<1>3. LastLevel(b.msg, k, start) = Level(b, k)
  <2> DEFINE I == {j \in Positions(b.msg, k) : j < (l + 1) + 1}
  <2>1. LastLevel(b.msg, k, start) = IF I = {} THEN start ELSE b.msg[Max(I)].arg
    BY DEF LastLevel, LevelBefore
  <2>2. I \in SUBSET Nat /\ (\A j \in I : j <= l + 1) /\ l + 1 \in I /\ l + 1 \in Nat
    BY <1>1 DEF Positions
  <2> HIDE DEF I
  <2>3. Max(I) \in I /\ \A j \in I : j <= Max(I)
    BY <2>2, MaxOfBounded
  <2>4. Max(I) = l + 1
    <3> DEFINE x == Max(I)
    <3>1. x \in Nat /\ x <= l + 1 /\ l + 1 <= x
      BY <2>2, <2>3
    <3> HIDE DEF x, l
    <3>2. l \in Nat
      BY <1>1
    <3>3. x = l + 1
      BY <3>1, <3>2
    <3> QED
      BY <3>3 DEF x
  <2> QED
    BY <1>1, <2>1, <2>2, <2>4
<1> QED
  BY <1>2, <1>3 DEF EdgesOf

\* A message that finds room is at the end of the queue.
LEMMA SayRoom ==
  ASSUME NEW a \in Pk, NEW m \in Msg, Len(a.msg) < MaxMsg
  PROVE  Len(Say(a, m).msg) = Len(a.msg) + 1
<1> DEFINE l == Len(a.msg)
           ms == <<m>>
           n == IF Len(ms) <= MaxMsg - l THEN Len(ms) ELSE MaxMsg - l
<1>1. a.msg \in Seq(Msg) /\ l \in Nat /\ MaxMsg \in Nat /\ l < MaxMsg
  BY QueueLength, Constants
<1>2. ms \in Seq(Msg) /\ Len(ms) = 1
  OBVIOUS
<1> HIDE DEF l
<1>3. n = 1
  BY <1>1, <1>2
<1> DEFINE s == SubSeq(ms, 1, n)
<1>4. s \in Seq(Msg) /\ Len(s) = 1
  <2>1. \A i \in 1..1 : ms[i] \in Msg
    OBVIOUS
  <2> HIDE DEF ms
  <2>2. /\ SubSeq(ms, 1, 1) \in Seq(Msg)
        /\ Len(SubSeq(ms, 1, 1)) = IF 1 <= 1 THEN 1 - 1 + 1 ELSE 0
    <3>1. 1 \in Int
      OBVIOUS
    <3> QED
      BY <2>1, <3>1, SubSeqProperties
  <2> QED
    BY <1>3, <2>2
<1>5. Say(a, m) = [a EXCEPT !.msg = a.msg \o s, !.day_messages = @ + n]
  BY DEF Say, SayAll, l
<1> HIDE DEF ms, n, s
<1>6. Say(a, m).msg = a.msg \o s
  BY <1>5 DEF Pk
<1>7. Len(a.msg \o s) = Len(a.msg) + Len(s)
  BY <1>1, <1>4, ConcatProperties
<1> QED
  BY <1>4, <1>6, <1>7

\* A latch that moves with its message.
LEMMA EdgesSay ==
  ASSUME NEW a \in Pk, NEW b \in Pk, NEW kind \in Problems, NEW arg \in Nat, NEW known,
         Edges(a, known), Len(a.msg) < MaxMsg,
         b.msg = Say(a, Note(kind, arg)).msg,
         b.day_messages = Say(a, Note(kind, arg)).day_messages,
         \A k \in Problems \ {kind} : Level(b, k) = Level(a, k),
         Level(b, kind) = arg,
         arg = Level(a, kind) + 1 \/ (arg = 0 /\ Level(a, kind) > 0)
  PROVE  Edges(b, known)
<1> DEFINE m == Note(kind, arg)
<1>1. m \in Msg /\ m.kind = kind /\ m.arg = arg
  BY NoteType DEF Note
<1> HIDE DEF m
<1>2. Grows(a, b, {m}) /\ Len(b.msg) = Len(a.msg) + 1
  <2>1. Grows(a, b, {m})
    BY <1>1, GrowsSay DEF m
  <2>2. Len(Say(a, m).msg) = Len(a.msg) + 1
    BY <1>1, SayRoom
  <2> QED
    BY <2>1, <2>2 DEF m
<1>3. \A k \in Problems : EdgesOf(a, k, known[k])
  BY EdgesParts
<1>4. ASSUME NEW k \in Problems
      PROVE  EdgesOf(b, k, known[k])
  <2>1. CASE k = kind
    BY <1>1, <1>2, <1>3, <2>1, EdgesNext
  <2>2. CASE k # kind
    <3>1. QuietFor(a, b, k)
      BY <1>1, <1>2, <2>2 DEF QuietFor, Grows
    <3> QED
      BY <1>2, <1>3, <3>1, EdgesQuiet
  <2> QED
    BY <2>1, <2>2
<1> QED
  BY <1>4, EdgesParts

\* A step that says nothing of a problem and moves no latch.
LEMMA EdgesSame ==
  ASSUME NEW a \in Pk, NEW b \in Pk, NEW M, Grows(a, b, M),
         \A m \in M : m.kind \notin Problems,
         \A k \in Problems : Level(b, k) = Level(a, k), NEW known, Edges(a, known)
  PROVE  Edges(b, known)
<1>1. ASSUME NEW k \in Problems
      PROVE  EdgesOf(b, k, known[k])
  <2>1. QuietFor(a, b, k)
    BY DEF QuietFor, Grows
  <2>2. EdgesOf(a, k, known[k])
    BY EdgesParts
  <2> QED
    BY <2>1, <2>2, EdgesQuiet
<1> QED
  BY <1>1, EdgesParts

LEMMA Levels ==
  ASSUME NEW q
  PROVE  /\ Level(q, "water") = (IF q.a_no_water THEN 1 ELSE 0)
         /\ Level(q, "fault") = (IF q.a_fault THEN 1 ELSE 0)
         /\ Level(q, "contact") = (IF q.unreachable THEN 1 ELSE 0)
         /\ Level(q, "history") = (IF q.a_hist_blind THEN 1 ELSE 0)
         /\ Level(q, "thirst") = q.thirst_level
BY DEF Level

\* The latches of a and b agree but for the one of kind.
AgreeBut(a, b, kind) ==
  /\ kind # "water" => b.a_no_water = a.a_no_water
  /\ kind # "fault" => b.a_fault = a.a_fault
  /\ kind # "contact" => b.unreachable = a.unreachable
  /\ kind # "history" => b.a_hist_blind = a.a_hist_blind
  /\ kind # "thirst" => b.thirst_level = a.thirst_level

LEMMA AgreeLevels ==
  ASSUME NEW a, NEW b, NEW kind, AgreeBut(a, b, kind)
  PROVE  \A k \in Problems \ {kind} : Level(b, k) = Level(a, k)
<1>1. kind # "water" => Level(b, "water") = Level(a, "water")
  BY Levels DEF AgreeBut
<1>2. kind # "fault" => Level(b, "fault") = Level(a, "fault")
  BY Levels DEF AgreeBut
<1>3. kind # "contact" => Level(b, "contact") = Level(a, "contact")
  BY Levels DEF AgreeBut
<1>4. kind # "history" => Level(b, "history") = Level(a, "history")
  BY Levels DEF AgreeBut
<1>5. kind # "thirst" => Level(b, "thirst") = Level(a, "thirst")
  BY Levels DEF AgreeBut
<1> QED
  BY <1>1, <1>2, <1>3, <1>4, <1>5 DEF Problems

\* Each alarm in turn: an outage,
LEMMA EdgesContact ==
  ASSUME NEW a \in Pk, NEW t \in Nat, NEW known, Edges(a, known), Len(a.msg) < MaxMsg
  PROVE  Edges(TakeContact(a, t), known) /\ Edges(CheckContact(a, t), known)
<1>1. "contact" \in Problems /\ 0 \in Nat /\ 1 \in Nat
  BY DEF Problems
<1>2. Level(a, "contact") = IF a.unreachable THEN 1 ELSE 0
  BY Levels
<1>3. Edges(TakeContact(a, t), known)
  <2> DEFINE b == TakeContact(a, t)
             said == IF a.unreachable THEN Say(a, Note("contact", 0)) ELSE a
  <2>1. b \in Pk /\ Only(a, b, Queue \cup {"unreachable", "last_ok_ts"})
    BY ContactType, ContactSays
  <2>2. b = [said EXCEPT !.unreachable = FALSE, !.last_ok_ts = t]
    BY DEF TakeContact
  <2>3. said \in Pk
    BY <1>1, NoteType, SayType
  <2> HIDE DEF b
  <2>4. AgreeBut(a, b, "contact")
    BY <2>1 DEF AgreeBut, Only, Fields, Queue
  <2> HIDE DEF said
  <2>5. b.msg = said.msg /\ b.day_messages = said.day_messages /\ b.unreachable = FALSE
    BY <2>2, <2>3 DEF Pk
  <2>6. Level(b, "contact") = 0
    BY <2>5, Levels
  <2>7. CASE a.unreachable
    <3>1. said = Say(a, Note("contact", 0)) /\ Level(a, "contact") = 1
      BY <1>2, <2>7 DEF said
    <3>2. \A k \in Problems \ {"contact"} : Level(b, k) = Level(a, k)
      BY <2>4, AgreeLevels
    <3>3. Edges(b, known)
      BY <1>1, <2>1, <2>5, <2>6, <3>1, <3>2, EdgesSay
    <3> QED
      BY <3>3 DEF b
  <2>8. CASE ~ a.unreachable
    <3>1. said = a /\ Level(a, "contact") = 0
      BY <1>2, <2>8 DEF said
    <3>2. \A k \in Problems : Level(b, k) = Level(a, k)
      BY <2>4, <2>6, <3>1, AgreeLevels
    <3>3. Grows(a, b, {})
      BY <2>5, <3>1, GrowsNot
    <3>4. Edges(b, known)
      BY <2>1, <3>2, <3>3, EdgesSame
    <3> QED
      BY <3>4 DEF b
  <2> QED
    BY <2>7, <2>8
<1>4. Edges(CheckContact(a, t), known)
  <2> DEFINE b == CheckContact(a, t)
             said == Say(a, Note("contact", 1))
  <2>1. b \in Pk /\ Only(a, b, Queue \cup {"unreachable"}) /\ said \in Pk
    BY <1>1, ContactType, ContactSays, NoteType, SayType
  <2>2. b = a \/ (b = [said EXCEPT !.unreachable = TRUE] /\ ~ a.unreachable)
    BY DEF CheckContact
  <2> HIDE DEF b, said
  <2>3. CASE b = [said EXCEPT !.unreachable = TRUE] /\ ~ a.unreachable
    <3>1. AgreeBut(a, b, "contact")
      BY <2>1 DEF AgreeBut, Only, Fields, Queue
    <3>2. b.msg = said.msg /\ b.day_messages = said.day_messages /\ b.unreachable = TRUE
      BY <2>1, <2>3 DEF Pk
    <3>3. Level(b, "contact") = 1 /\ Level(a, "contact") = 0
      BY <1>2, <2>3, <3>2, Levels
    <3>4. \A k \in Problems \ {"contact"} : Level(b, k) = Level(a, k)
      BY <3>1, AgreeLevels
    <3>5. 1 = Level(a, "contact") + 1
      BY <3>3
    <3>6. Edges(b, known)
      BY <1>1, <2>1, <3>2, <3>3, <3>4, <3>5, EdgesSay DEF said
    <3> QED
      BY <3>6 DEF b
  <2> QED
    BY <2>2, <2>3 DEF b
<1> QED
  BY <1>3, <1>4

\* the thirst alarm,
LEMMA EdgesThirst ==
  ASSUME NEW a \in Pk, NEW t \in Nat, NEW known, Edges(a, known)
  PROVE  /\ Len(a.msg) < MaxMsg => Edges(ClearThirst(a, t), known)
         /\ Len(a.msg) < MaxMsg => Edges(CheckThirst(a, t), known)
<1>1. "thirst" \in Problems /\ Level(a, "thirst") = a.thirst_level /\ a.thirst_level \in 0..2
  BY Levels DEF Problems, Pk
<1>2. ASSUME NEW level \in 0..2, NEW b, b = [Say(a, Note("thirst", level)) EXCEPT !.thirst_level = level],
             level = a.thirst_level + 1 \/ (level = 0 /\ a.thirst_level > 0),
             Len(a.msg) < MaxMsg
      PROVE  Edges(b, known)
  <2> DEFINE said == Say(a, Note("thirst", level))
  <2>1. said \in Pk /\ Only(a, said, Queue) /\ level \in Nat
    <3>1. level \in Nat
      OBVIOUS
    <3>2. Note("thirst", level) \in Msg
      BY <1>1, <3>1, NoteType
    <3> QED
      BY <3>1, <3>2, SayType, SaySays
  <2> HIDE DEF said
  <2>2. b = [said EXCEPT !.thirst_level = level]
    BY <1>2 DEF said
  <2>3. /\ b \in Pk /\ b.msg = said.msg /\ b.day_messages = said.day_messages
        /\ b.thirst_level = level
    <3>1. b \in Pk /\ b.thirst_level = level
      BY <2>1, <2>2, LevelType
    <3> QED
      BY <2>1, <2>2, <3>1 DEF Pk
  <2>4. Only(said, b, {"thirst_level"})
    BY <2>1, <2>2 DEF Pk, Only, Fields
  <2>5. AgreeBut(a, b, "thirst")
    BY <2>1, <2>4 DEF AgreeBut, Only, Fields, Queue
  <2>6. \A k \in Problems \ {"thirst"} : Level(b, k) = Level(a, k)
    BY <2>5, AgreeLevels
  <2>7. Level(b, "thirst") = level
    BY <2>3, Levels
  <2>8. level = Level(a, "thirst") + 1 \/ (level = 0 /\ Level(a, "thirst") > 0)
    BY <1>1, <1>2
  <2> QED
    BY <1>1, <1>2, <2>1, <2>3, <2>6, <2>7, <2>8, EdgesSay DEF said
<1>3. \/ ClearThirst(a, t) = a
      \/ /\ ClearThirst(a, t) = [Say(a, Note("thirst", 0)) EXCEPT !.thirst_level = 0]
         /\ a.thirst_level > 0
  BY DEF ClearThirst
<1>4. \/ CheckThirst(a, t) = a
      \/ /\ CheckThirst(a, t) = [Say(a, Note("thirst", 1)) EXCEPT !.thirst_level = 1]
         /\ a.thirst_level = 0
      \/ /\ CheckThirst(a, t) = [Say(a, Note("thirst", 2)) EXCEPT !.thirst_level = 2]
         /\ a.thirst_level = 1
  BY DEF CheckThirst
<1>5. 0 \in 0..2 /\ 1 \in 0..2 /\ 2 \in 0..2 /\ 1 = 0 + 1 /\ 2 = 1 + 1
  OBVIOUS
<1> QED
  BY <1>2, <1>3, <1>4, <1>5

\* a history that cannot be read,
LEMMA EdgesHistory ==
  ASSUME NEW a \in Pk, NEW known, Edges(a, known),
         CheckHistory(a) = a \/ Len(a.msg) < MaxMsg
  PROVE  Edges(CheckHistory(a), known)
<1> DEFINE b == CheckHistory(a)
<1>1. "history" \in Problems /\ Level(a, "history") = IF a.a_hist_blind THEN 1 ELSE 0
  BY Levels DEF Problems
<1>2. CASE b = [Say(a, Note("history", 1)) EXCEPT !.a_hist_blind = TRUE]
           /\ ~ a.a_hist_blind /\ Len(a.msg) < MaxMsg
  <2> DEFINE said == Say(a, Note("history", 1))
  <2>1. said \in Pk
    BY <1>1, NoteType, SayType
  <2>2. b \in Pk /\ Only(a, b, Queue \cup {"a_hist_blind"})
    BY CheckHistoryType, CheckHistorySays
  <2> HIDE DEF b, said
  <2>3. b = [said EXCEPT !.a_hist_blind = TRUE]
    BY <1>2 DEF said
  <2>4. /\ b.msg = said.msg /\ b.day_messages = said.day_messages
        /\ b.a_hist_blind = TRUE
    BY <2>1, <2>3 DEF Pk
  <2>5. AgreeBut(a, b, "history")
    BY <2>2 DEF AgreeBut, Only, Fields, Queue
  <2>6. \A k \in Problems \ {"history"} : Level(b, k) = Level(a, k)
    BY <2>5, AgreeLevels
  <2>7. Level(b, "history") = 1 /\ Level(a, "history") = 0
    BY <1>1, <1>2, <2>4, Levels
  <2>8. 1 \in Nat /\ 1 = Level(a, "history") + 1
    BY <2>7
  <2>9. Edges(b, known)
    <3>1. Len(a.msg) < MaxMsg
      BY <1>2
    <3>2. /\ b.msg = Say(a, Note("history", 1)).msg
          /\ b.day_messages = Say(a, Note("history", 1)).day_messages
      BY <2>4 DEF said
    <3>3. b \in Pk /\ Level(b, "history") = 1
      BY <2>2, <2>7
    <3> QED
      BY <1>1, <2>6, <2>8, <3>1, <3>2, <3>3, EdgesSay
  <2> QED
    BY <2>9 DEF b
<1>3. CASE b = [Say(a, Note("history", 0)) EXCEPT !.a_hist_blind = FALSE]
           /\ a.a_hist_blind /\ Len(a.msg) < MaxMsg
  <2> DEFINE said == Say(a, Note("history", 0))
  <2>1. said \in Pk
    BY <1>1, NoteType, SayType
  <2>2. b \in Pk /\ Only(a, b, Queue \cup {"a_hist_blind"})
    BY CheckHistoryType, CheckHistorySays
  <2> HIDE DEF b, said
  <2>3. b = [said EXCEPT !.a_hist_blind = FALSE]
    BY <1>3 DEF said
  <2>4. /\ b.msg = said.msg /\ b.day_messages = said.day_messages
        /\ b.a_hist_blind = FALSE
    BY <2>1, <2>3 DEF Pk
  <2>5. AgreeBut(a, b, "history")
    BY <2>2 DEF AgreeBut, Only, Fields, Queue
  <2>6. \A k \in Problems \ {"history"} : Level(b, k) = Level(a, k)
    BY <2>5, AgreeLevels
  <2>7. Level(b, "history") = 0 /\ Level(a, "history") = 1
    BY <1>1, <1>3, <2>4, Levels
  <2>8. 0 \in Nat /\ Level(a, "history") > 0
    BY <2>7
  <2>9. Edges(b, known)
    BY <1>1, <1>3, <2>2, <2>4, <2>6, <2>7, <2>8, EdgesSay DEF said
  <2> QED
    BY <2>9 DEF b
<1>4. \/ b = a
      \/ /\ b = [Say(a, Note("history", 1)) EXCEPT !.a_hist_blind = TRUE]
         /\ ~ a.a_hist_blind
      \/ /\ b = [Say(a, Note("history", 0)) EXCEPT !.a_hist_blind = FALSE]
         /\ a.a_hist_blind
  BY DEF CheckHistory
<1> HIDE DEF b
<1>5. CASE b = a
  BY <1>5 DEF b
<1>6. CASE Len(a.msg) < MaxMsg
  BY <1>2, <1>3, <1>4, <1>5, <1>6 DEF b
<1> QED
  BY <1>5, <1>6 DEF b

\* water and pump,
LEMMA EdgesCritical ==
  ASSUME NEW a \in Pk, NEW known, Edges(a, known), Len(a.msg) < MaxMsg
  PROVE  Edges(CheckWater(a), known) /\ Edges(CheckFault(a), known)
<1>1. /\ a.a_no_water \in BOOLEAN /\ a.last.no_water \in BOOLEAN
      /\ a.a_fault \in BOOLEAN /\ a.last.fault \in BOOLEAN
      /\ "water" \in Problems /\ "fault" \in Problems /\ 0 \in Nat /\ 1 \in Nat
  BY DEF Pk, PkState, Problems
<1>2. ASSUME NEW kind \in {"water", "fault"}, NEW latched \in BOOLEAN, NEW holds \in BOOLEAN,
             NEW b \in Pk, AgreeBut(a, b, kind),
             b.msg = Edge(a, kind, latched, holds).msg,
             b.day_messages = Edge(a, kind, latched, holds).day_messages,
             Level(a, kind) = IF latched THEN 1 ELSE 0,
             Level(b, kind) = IF holds THEN 1 ELSE 0
      PROVE  Edges(b, known)
  <2>1. \A k \in Problems \ {kind} : Level(b, k) = Level(a, k)
    BY <1>2, AgreeLevels
  <2>2. kind \in Problems
    BY <1>1
  <2>3. CASE holds = latched
    <3>1. b.msg = a.msg /\ b.day_messages = a.day_messages
      BY <1>2, <2>3 DEF Edge
    <3>2. \A k \in Problems : Level(b, k) = Level(a, k)
      BY <1>2, <2>1, <2>3
    <3>3. Grows(a, b, {})
      BY <3>1, GrowsNot
    <3> QED
      BY <3>2, <3>3, EdgesSame
  <2>4. CASE holds = TRUE /\ latched = FALSE
    <3>1. Edge(a, kind, latched, holds) = Say(a, Note(kind, 1))
      BY <2>4 DEF Edge
    <3>2. Level(b, kind) = 1 /\ Level(a, kind) = 0
      BY <1>2, <2>4
    <3>3. 1 = Level(a, kind) + 1
      BY <3>2
    <3> QED
      BY <1>1, <1>2, <2>1, <2>2, <3>1, <3>2, <3>3, EdgesSay
  <2>5. CASE holds = FALSE /\ latched = TRUE
    <3>1. Edge(a, kind, latched, holds) = Say(a, Note(kind, 0))
      BY <2>5 DEF Edge
    <3>2. Level(b, kind) = 0 /\ Level(a, kind) > 0
      BY <1>2, <2>5
    <3> QED
      BY <1>1, <1>2, <2>1, <2>2, <3>1, <3>2, EdgesSay
  <2> QED
    BY <2>3, <2>4, <2>5
<1>3. Edges(CheckWater(a), known)
  <2> DEFINE said == Edge(a, "water", a.a_no_water, a.last.no_water)
             b == CheckWater(a)
  <2>1. b \in Pk /\ said \in Pk /\ Only(a, said, Queue)
    BY <1>1, GrowsCritical, GrowsEdge
  <2>2. b = [said EXCEPT !.a_no_water = a.last.no_water]
    BY DEF CheckWater
  <2> HIDE DEF said, b
  <2>3. /\ b.msg = said.msg /\ b.day_messages = said.day_messages
        /\ b.a_no_water = a.last.no_water
    BY <2>1, <2>2 DEF Pk
  <2>4. Only(said, b, {"a_no_water"})
    BY <2>1, <2>2 DEF Pk, Only, Fields
  <2>5. AgreeBut(a, b, "water")
    BY <2>1, <2>4 DEF AgreeBut, Only, Fields, Queue
  <2>6. /\ Level(a, "water") = IF a.a_no_water THEN 1 ELSE 0
        /\ Level(b, "water") = IF a.last.no_water THEN 1 ELSE 0
    BY <2>3, Levels
  <2>7. Edges(b, known)
    BY <1>1, <1>2, <2>1, <2>3, <2>5, <2>6 DEF said
  <2> QED
    BY <2>7 DEF b
<1>4. Edges(CheckFault(a), known)
  <2> DEFINE said == Edge(a, "fault", a.a_fault, a.last.fault)
             b == CheckFault(a)
  <2>1. b \in Pk /\ said \in Pk /\ Only(a, said, Queue)
    BY <1>1, GrowsCritical, GrowsEdge
  <2>2. b = [said EXCEPT !.a_fault = a.last.fault]
    BY DEF CheckFault
  <2> HIDE DEF said, b
  <2>3. /\ b.msg = said.msg /\ b.day_messages = said.day_messages
        /\ b.a_fault = a.last.fault
    BY <2>1, <2>2 DEF Pk
  <2>4. Only(said, b, {"a_fault"})
    BY <2>1, <2>2 DEF Pk, Only, Fields
  <2>5. AgreeBut(a, b, "fault")
    BY <2>1, <2>4 DEF AgreeBut, Only, Fields, Queue
  <2>6. /\ Level(a, "fault") = IF a.a_fault THEN 1 ELSE 0
        /\ Level(b, "fault") = IF a.last.fault THEN 1 ELSE 0
    BY <2>3, Levels
  <2>7. Edges(b, known)
    BY <1>1, <1>2, <2>1, <2>3, <2>5, <2>6 DEF said
  <2> QED
    BY <2>7 DEF b
<1> QED
  BY <1>3, <1>4

\* and the gauges, which say nothing of a problem.
LEMMA EdgesThresholds ==
  ASSUME NEW a \in Pk, NEW known, Edges(a, known)
  PROVE  Edges(CheckThresholds(a), known)
<1> DEFINE b == CheckThresholds(a)
<1>1. b \in Pk /\ Grows(a, b, Gauges) /\ Only(a, b, Queue \cup {"battery_latch", "filter_latch"})
  BY GrowsThresholds, CheckThresholdsSays
<1>2. \A m \in Gauges : m.kind \notin Problems
  BY DEF Gauges, Problems
<1> HIDE DEF b
<1>3. AgreeBut(a, b, "none")
  BY <1>1 DEF AgreeBut, Only, Fields, Queue
<1>4. \A k \in Problems \ {"none"} : Level(b, k) = Level(a, k)
  BY <1>3, AgreeLevels
<1>5. \A k \in Problems : Level(b, k) = Level(a, k)
  BY <1>4 DEF Problems
<1>6. Edges(b, known)
  BY <1>1, <1>2, <1>5, EdgesSame
<1> QED
  BY <1>6 DEF b

LEMMA EdgesReading ==
  ASSUME NEW a \in Pk, NEW known, Edges(a, known), Len(a.msg) < MaxMsg,
         a.last.valid => Len(CheckWater(a).msg) < MaxMsg
  PROVE  Edges(CheckReading(a), known)
<1> DEFINE w == CheckWater(a)
           f == CheckFault(w)
<1>1. w \in Pk /\ Edges(w, known)
  BY GrowsCritical, EdgesCritical
<1> HIDE DEF w
<1>2. a.last.valid => f \in Pk /\ Edges(f, known)
  BY <1>1, GrowsCritical, EdgesCritical DEF w
<1> HIDE DEF f
<1>3. a.last.valid => Edges(CheckThresholds(f), known)
  BY <1>2, EdgesThresholds
<1> QED
  BY <1>3 DEF CheckReading, CheckCritical, f, w

\* Only the queue and the latches matter.
LEMMA EdgesMsg ==
  ASSUME NEW a, NEW b, NEW known, Edges(a, known), b.msg = a.msg, AgreeBut(a, b, "none")
  PROVE  Edges(b, known)
<1>1. \A k \in Problems \ {"none"} : Level(b, k) = Level(a, k)
  BY AgreeLevels
<1>2. \A k \in Problems : Level(b, k) = Level(a, k)
  BY <1>1 DEF Problems
<1> QED
  BY <1>2 DEF Edges

LEMMA EmptyEdges ==
  ASSUME NEW a, NEW known, a.msg = <<>>, \A k \in Problems : known[k] = Level(a, k)
  PROVE  Edges(a, known)
<1>1. \A k : Positions(a.msg, k) = {}
  BY DEF Positions
<1>2. \A k : LastLevel(a.msg, k, known[k]) = known[k]
  BY <1>1 DEF LastLevel, LevelBefore
<1> QED
  BY <1>1, <1>2 DEF Edges

\* The two halves of pk_poll_ok: what it takes in, and what it makes of it.
ReadOf(a, s, fresh, hist, t) ==
  TakeHistory(TakeVisits(TakeReading(TakeContact(a, t), s), fresh), hist)

CalmOf(a, s, fresh, hist, t) == ClearThirst(ReadOf(a, s, fresh, hist, t), a.last_drink_ts)

LEMMA ReadOfDoes ==
  ASSUME NEW t \in Nat, NEW a \in Pk, a.last_drink_ts <= t, NEW s \in PkState,
         NEW fresh \in SUBSET Nat, \A x \in fresh : x <= t, NEW hist \in {"ok", "short"}
  PROVE  LET b == TakeContact(a, t)
             read == ReadOf(a, s, fresh, hist, t)
         IN  /\ b \in Pk /\ read \in Pk /\ read.last_drink_ts <= t
             /\ read.msg = b.msg /\ read.day_messages = b.day_messages
             /\ AgreeBut(b, read, "none")
             /\ read.hist_short_streak \in {0, b.hist_short_streak, b.hist_short_streak + 1}
<1> DEFINE b == TakeContact(a, t)
           c == TakeReading(b, s)
           d == TakeVisits(c, fresh)
           read == TakeHistory(d, hist)
<1>1. b \in Pk /\ b.last_drink_ts <= t
  BY ContactType DEF SameThirst, SameDrinks
<1> HIDE DEF b
<1>2. /\ c \in Pk /\ c.last_drink_ts <= t /\ c.msg = b.msg /\ c.day_messages = b.day_messages
      /\ AgreeBut(b, c, "none") /\ c.hist_short_streak = b.hist_short_streak
  <2>1. c \in Pk /\ SameThirst(b, c)
    BY <1>1, TakeReadingType
  <2>2. c.last_drink_ts <= t
    BY <1>1, <2>1 DEF SameThirst, SameDrinks
  <2>3. c = b \/ c = [b EXCEPT !.last = s]
    BY DEF TakeReading
  <2> HIDE DEF c
  <2> QED
    BY <1>1, <2>1, <2>2, <2>3 DEF Pk, AgreeBut
<1> HIDE DEF c
<1>3. /\ d \in Pk /\ d.last_drink_ts <= t /\ d.msg = c.msg /\ d.day_messages = c.day_messages
      /\ AgreeBut(c, d, "none") /\ d.hist_short_streak = c.hist_short_streak
  <2>1. d \in Pk /\ d.last_drink_ts <= t
    BY <1>2, TakeVisitsDoes
  <2>2. PICK V, L : d = [c EXCEPT !.visit = V, !.last_drink_ts = L]
    BY DEF TakeVisits
  <2> HIDE DEF d
  <2>3. d.msg = c.msg /\ d.day_messages = c.day_messages
        /\ d.hist_short_streak = c.hist_short_streak
    BY <1>2, <2>2 DEF Pk
  <2>4. AgreeBut(c, d, "none")
    BY <1>2, <2>2 DEF Pk, AgreeBut
  <2> QED
    BY <2>1, <2>3, <2>4
<1> HIDE DEF d
<1>4. /\ read \in Pk /\ read.last_drink_ts <= t /\ read.msg = d.msg
      /\ read.day_messages = d.day_messages /\ AgreeBut(d, read, "none")
      /\ read.hist_short_streak \in {0, d.hist_short_streak, d.hist_short_streak + 1}
  <2>1. read \in Pk /\ SameThirst(d, read)
    BY <1>3, TakeHistoryType
  <2>2. read.last_drink_ts <= t
    BY <1>3, <2>1 DEF SameThirst, SameDrinks
  <2> DEFINE n == IF d.hist_short_streak < StreakMax
                  THEN d.hist_short_streak + 1 ELSE d.hist_short_streak
  <2>3. \/ read = [d EXCEPT !.hist_short_streak = n, !.day_hist_short = TRUE]
        \/ read = [d EXCEPT !.hist_short_streak = 0, !.baseline_ready = TRUE]
    BY DEF TakeHistory
  <2>4. n \in {0, d.hist_short_streak, d.hist_short_streak + 1}
    OBVIOUS
  <2> HIDE DEF n, read
  <2>5. read.msg = d.msg /\ read.day_messages = d.day_messages /\ AgreeBut(d, read, "none")
    BY <1>3, <2>3 DEF Pk, AgreeBut
  <2>6. read.hist_short_streak \in {0, d.hist_short_streak, d.hist_short_streak + 1}
    BY <1>3, <2>3, <2>4 DEF Pk
  <2> QED
    BY <2>1, <2>2, <2>5, <2>6
<1> HIDE DEF read
<1>5. AgreeBut(b, read, "none")
  BY <1>2, <1>3, <1>4 DEF AgreeBut
<1> QED
  BY <1>1, <1>2, <1>3, <1>4, <1>5 DEF ReadOf, b, c, d, read

\* pk_poll_ok keeps to edges if each step that speaks finds room.
LEMMA EdgesTakeIn ==
  ASSUME NEW t \in Nat, NEW a \in Pk, a.last_drink_ts <= t, NEW s \in PkState,
         NEW fresh \in SUBSET Nat, \A x \in fresh : x <= t, NEW hist \in {"ok", "short"},
         NEW known, Edges(a, known), Len(a.msg) < MaxMsg,
         Len(ReadOf(a, s, fresh, hist, t).msg) < MaxMsg
  PROVE  LET calm == CalmOf(a, s, fresh, hist, t)
         IN  calm \in Pk /\ calm.last_drink_ts <= t /\ Edges(calm, known)
<1> DEFINE b == TakeContact(a, t)
           read == ReadOf(a, s, fresh, hist, t)
           calm == ClearThirst(read, a.last_drink_ts)
<1>1. Edges(b, known)
  BY EdgesContact
<1>2. read \in Pk /\ read.last_drink_ts <= t /\ read.msg = b.msg /\ AgreeBut(b, read, "none")
  BY ReadOfDoes
<1>3. a.last_drink_ts \in Nat
  BY DEF Pk
<1> HIDE DEF b, read
<1>4. Edges(read, known)
  BY <1>1, <1>2, EdgesMsg
<1>5. calm \in Pk /\ SameDrinks(read, calm)
  BY <1>2, <1>3, ClearThirstType
<1>6. Edges(calm, known)
  BY <1>2, <1>3, <1>4, EdgesThirst DEF read
<1>7. calm.last_drink_ts <= t
  BY <1>2, <1>5 DEF SameDrinks
<1> QED
  BY <1>5, <1>6, <1>7 DEF CalmOf, read

LEMMA EdgesChecks ==
  ASSUME NEW t \in Nat, NEW calm \in Pk, calm.last_drink_ts <= t, NEW known,
         Edges(calm, known), Len(calm.msg) < MaxMsg,
         calm.last.valid => Len(CheckWater(calm).msg) < MaxMsg,
         LET e == CheckReading(calm)
             f == CheckHistory(e)
         IN  /\ f = e \/ Len(e.msg) < MaxMsg
             /\ CheckThirst(f, t) = f \/ Len(f.msg) < MaxMsg
  PROVE  Edges(CheckThirst(CheckHistory(CheckReading(calm)), t), known)
<1> DEFINE e == CheckReading(calm)
           f == CheckHistory(e)
           g == CheckThirst(f, t)
<1>1. e \in Pk /\ Edges(e, known)
  BY CheckReadingType, EdgesReading
<1>2. (f = e \/ Len(e.msg) < MaxMsg) /\ (g = f \/ Len(f.msg) < MaxMsg)
  OBVIOUS
<1> HIDE DEF e
<1>3. f \in Pk /\ Edges(f, known)
  BY <1>1, <1>2, CheckHistoryType, EdgesHistory
<1> HIDE DEF f
<1>4. Edges(g, known)
  BY <1>2, <1>3, EdgesThirst
<1> QED
  BY <1>4 DEF e, f

\* In a round nothing is lost while the queue is not full at the end of it.
LEMMA EdgesPollOk ==
  ASSUME NEW t \in Nat, NEW a \in Pk, a.last_drink_ts <= t, NEW s \in PkState,
         NEW fresh \in SUBSET Nat, \A x \in fresh : x <= t, NEW hist \in {"ok", "short"},
         NEW known, Edges(a, known), Len(a.msg) < MaxMsg,
         Len(PollOk(a, s, fresh, hist, t).msg) < MaxMsg
  PROVE  Edges(PollOk(a, s, fresh, hist, t), known)
<1> DEFINE read == ReadOf(a, s, fresh, hist, t)
           calm == CalmOf(a, s, fresh, hist, t)
           w == CheckWater(calm)
           e == CheckReading(calm)
           f == CheckHistory(e)
           g == CheckThirst(f, t)
<1>1. read \in Pk /\ read.last_drink_ts <= t
  BY ReadOfDoes
<1>2. a.last_drink_ts \in Nat /\ PollOk(a, s, fresh, hist, t) = g
  BY DEF PollOk, CalmOf, ReadOf, Pk
<1>3. calm \in Pk /\ SameDrinks(read, calm) /\ Len(read.msg) <= Len(calm.msg)
  <2> HIDE DEF read
  <2>1. LET c == ClearThirst(read, a.last_drink_ts)
        IN  c \in Pk /\ SameDrinks(read, c) /\ Len(read.msg) <= Len(c.msg)
    BY <1>1, <1>2, ClearThirstType, GrowsThirst DEF Grows
  <2> QED
    BY <2>1 DEF CalmOf, read
<1>4. calm.last_drink_ts <= t
  BY <1>1, <1>3 DEF SameDrinks
<1> HIDE DEF calm, read
<1>5. /\ e \in Pk /\ SameThirst(calm, e) /\ Len(calm.msg) <= Len(e.msg)
      /\ calm.last.valid => Len(w.msg) <= Len(e.msg)
  <2>1. e \in Pk /\ SameThirst(calm, e) /\ Len(calm.msg) <= Len(e.msg)
    BY <1>3, CheckReadingType, GrowsReading DEF Grows
  <2>2. w \in Pk
    BY <1>3, GrowsCritical
  <2> HIDE DEF w
  <2> DEFINE v == CheckFault(w)
  <2>3. v \in Pk /\ Len(w.msg) <= Len(v.msg)
    BY <2>2, GrowsCritical DEF Grows
  <2> HIDE DEF v
  <2>4. Len(v.msg) <= Len(CheckThresholds(v).msg) /\ CheckThresholds(v) \in Pk
    BY <2>3, GrowsThresholds DEF Grows
  <2>5. calm.last.valid => e = CheckThresholds(v)
    BY DEF CheckReading, CheckCritical, v, w
  <2>6. Len(w.msg) \in Nat /\ Len(v.msg) \in Nat /\ Len(CheckThresholds(v).msg) \in Nat
    BY <2>2, <2>3, <2>4, QueueLength
  <2>7. Len(w.msg) <= Len(CheckThresholds(v).msg)
    BY <2>3, <2>4, <2>6
  <2> QED
    BY <2>1, <2>5, <2>7
<1>6. w \in Pk
  BY <1>3, GrowsCritical
<1> HIDE DEF e, w
<1>7. f \in Pk /\ SameThirst(e, f) /\ Len(e.msg) <= Len(f.msg)
  BY <1>5, CheckHistoryType, GrowsHistory DEF Grows
<1> HIDE DEF f
<1>8. g \in Pk /\ Len(f.msg) <= Len(g.msg)
  <2>1. f.last_drink_ts <= t
    BY <1>4, <1>5, <1>7 DEF SameThirst, SameDrinks
  <2> QED
    BY <1>7, <2>1, CheckThirstType, GrowsThirst DEF Grows
<1>9. Len(g.msg) < MaxMsg
  BY <1>2
<1> HIDE DEF g
<1>10. /\ Len(read.msg) \in Nat /\ Len(calm.msg) \in Nat /\ Len(e.msg) \in Nat
       /\ Len(f.msg) \in Nat /\ Len(g.msg) \in Nat /\ Len(w.msg) \in Nat /\ MaxMsg \in Nat
  BY <1>1, <1>3, <1>5, <1>6, <1>7, <1>8, QueueLength, Constants
<1>11. /\ Len(read.msg) < MaxMsg /\ Len(calm.msg) < MaxMsg /\ Len(e.msg) < MaxMsg
       /\ Len(f.msg) < MaxMsg
       /\ calm.last.valid => Len(w.msg) < MaxMsg
  <2> DEFINE r == Len(read.msg)
             c == Len(calm.msg)
             n == Len(e.msg)
             h == Len(f.msg)
             z == Len(g.msg)
             x == Len(w.msg)
  <2>1. /\ r \in Nat /\ c \in Nat /\ n \in Nat /\ h \in Nat /\ z \in Nat /\ x \in Nat
        /\ MaxMsg \in Nat /\ r <= c /\ c <= n /\ n <= h /\ h <= z /\ z < MaxMsg
    BY <1>3, <1>5, <1>7, <1>8, <1>9, <1>10
  <2>2. calm.last.valid => x <= n
    BY <1>5
  <2> HIDE DEF r, c, n, h, z, x
  <2>3. r < MaxMsg /\ c < MaxMsg /\ n < MaxMsg /\ h < MaxMsg
    BY <2>1
  <2>4. x <= n => x < MaxMsg
    BY <2>1
  <2> QED
    BY <2>2, <2>3, <2>4 DEF r, c, n, h, x
<1>12. Edges(calm, known)
  BY <1>11, EdgesTakeIn DEF calm, read
<1>13. Edges(g, known)
  BY <1>3, <1>4, <1>11, <1>12, EdgesChecks DEF e, f, g, w
<1> QED
  BY <1>2, <1>13 DEF g

\* What pk_init leaves.
Fresh(a) ==
  /\ a.msg = <<>> /\ a.unreachable = FALSE /\ a.thirst_level = 0
  /\ a.a_hist_blind = FALSE /\ a.hist_short_streak = 0
  /\ a.a_no_water = FALSE /\ a.a_fault = FALSE

\* At start-up no outage, no dry spell and no blindness is known, so there is
\* room for everything: two latches and six thresholds at most, and thirst is
\* claimed only if both latches are quiet.
LEMMA EdgesBoot ==
  ASSUME MaxMsg > 6,
         NEW t \in Nat, NEW a \in Pk, Fresh(a), a.last_drink_ts <= t, NEW s \in PkState,
         NEW fresh \in SUBSET Nat, \A x \in fresh : x <= t, NEW hist \in {"ok", "short"},
         NEW known, Edges(a, known)
  PROVE  Edges(PollOk(a, s, fresh, hist, t), known)
<1> DEFINE b == TakeContact(a, t)
           read == ReadOf(a, s, fresh, hist, t)
           calm == CalmOf(a, s, fresh, hist, t)
           e == CheckReading(calm)
           f == CheckHistory(e)
           g == CheckThirst(f, t)
<1>1. /\ a.last_drink_ts \in Nat
      /\ a.msg = <<>> /\ a.unreachable = FALSE /\ a.thirst_level = 0
      /\ a.a_hist_blind = FALSE /\ a.hist_short_streak = 0
      /\ a.a_no_water = FALSE /\ a.a_fault = FALSE
  BY DEF Fresh, Pk
<1>2. /\ b.msg = <<>> /\ b.hist_short_streak = 0 /\ b.thirst_level = 0
      /\ b.a_hist_blind = FALSE /\ b.a_no_water = FALSE /\ b.a_fault = FALSE
  <2>1. b = [a EXCEPT !.unreachable = FALSE, !.last_ok_ts = t]
    BY <1>1 DEF TakeContact
  <2> HIDE DEF b
  <2> QED
    BY <1>1, <2>1 DEF Pk
<1>3. /\ read \in Pk /\ read.last_drink_ts <= t /\ read.msg = b.msg /\ AgreeBut(b, read, "none")
      /\ read.hist_short_streak \in {0, b.hist_short_streak, b.hist_short_streak + 1}
  BY <1>1, ReadOfDoes
<1> HIDE DEF b, read
<1>4. /\ read.msg = <<>> /\ read.thirst_level = 0 /\ read.a_hist_blind = FALSE
      /\ read.a_no_water = FALSE /\ read.a_fault = FALSE
      /\ read.hist_short_streak \in {0, 1}
  BY <1>2, <1>3 DEF AgreeBut
<1>5. calm = read
  BY <1>4 DEF CalmOf, ClearThirst, read
<1> HIDE DEF calm
<1>6. MaxMsg \in Nat /\ 1 < MaxMsg /\ 0 < MaxMsg /\ 6 < MaxMsg
  BY Constants
<1>7. Len(calm.msg) = 0 /\ Len(a.msg) = 0 /\ calm \in Pk /\ calm.last_drink_ts <= t
  BY <1>1, <1>3, <1>4, <1>5
<1>8. Edges(calm, known)
  <2>1. Len(a.msg) < MaxMsg /\ Len(read.msg) < MaxMsg
    BY <1>4, <1>6, <1>7
  <2> QED
    BY <1>1, <2>1, EdgesTakeIn DEF calm, read
<1>9. Len(CheckWater(calm).msg) < MaxMsg
  <2> DEFINE w == CheckWater(calm)
             said == Edge(calm, "water", calm.a_no_water, calm.last.no_water)
  <2>1. w \in Pk
    BY <1>7, GrowsCritical
  <2>2. Len(said.msg) <= 1 /\ said \in Pk
    <3>1. ASSUME NEW level \in 0..1
          PROVE  Len(Say(calm, Note("water", level)).msg) <= 1
      <4>1. Note("water", level) \in Msg
        BY AlarmNote DEF Problems
      <4> QED
        BY <1>6, <1>7, <4>1, SayRoom
    <3>2. 0 \in 0..1 /\ 1 \in 0..1 /\ Len(calm.msg) <= 1
      BY <1>7
    <3>3. said \in Pk
      BY <1>7, GrowsEdge
    <3>4. \/ said = calm \/ said = Say(calm, Note("water", 1))
          \/ said = Say(calm, Note("water", 0))
      BY DEF Edge
    <3> HIDE DEF said
    <3> QED
      BY <3>1, <3>2, <3>3, <3>4
  <2>3. w = [said EXCEPT !.a_no_water = calm.last.no_water]
    BY DEF CheckWater
  <2> HIDE DEF said, w
  <2>4. w.msg = said.msg
    BY <2>2, <2>3 DEF Pk
  <2>5. Len(said.msg) \in Nat
    BY <2>2, QueueLength
  <2> QED
    BY <1>6, <2>2, <2>4, <2>5 DEF w
<1>10. /\ e \in Pk /\ e.last = calm.last /\ e.hist_short_streak = calm.hist_short_streak
       /\ e.a_hist_blind = calm.a_hist_blind
  BY <1>7, CheckReadingType, CheckReadingSays DEF Only, Fields, Queue
<1>11. f = e
  BY <1>4, <1>5, <1>10 DEF CheckHistory
<1>12. ASSUME g # f
       PROVE  Len(f.msg) < MaxMsg
  <2>1. MayClaimThirst(f)
    BY <1>12 DEF CheckThirst
  <2>2. calm.last.valid /\ ~ calm.last.no_water /\ ~ calm.last.fault
    BY <1>10, <1>11, <2>1 DEF MayClaimThirst, DeviceUnhealthy
  <2> DEFINE c == CheckCritical(calm)
             w == CheckWater(calm)
  <2>3. calm.last.no_water = FALSE /\ calm.last.fault = FALSE
    BY <1>7, <2>2 DEF Pk, PkState
  <2>4. w \in Pk /\ w.msg = <<>> /\ w.last = calm.last /\ w.a_fault = FALSE
    <3>1. w = [calm EXCEPT !.a_no_water = FALSE]
      BY <1>4, <1>5, <2>3 DEF CheckWater, Edge
    <3>2. w \in Pk
      BY <1>7, GrowsCritical
    <3> HIDE DEF w
    <3> QED
      BY <1>4, <1>5, <1>7, <3>1, <3>2 DEF Pk
  <2> HIDE DEF w
  <2>5. CheckFault(w) = [w EXCEPT !.a_fault = FALSE]
    BY <2>3, <2>4 DEF CheckFault, Edge
  <2>6. c = CheckFault(w)
    BY DEF CheckCritical, w
  <2>7. c \in Pk
    BY <2>4, <2>6, GrowsCritical
  <2> HIDE DEF c
  <2>8. c.msg = <<>>
    BY <2>4, <2>5, <2>6 DEF Pk
  <2>9. Len(CheckThresholds(c).msg) <= 0 + (c.last.battery + c.last.filter)
    <3>1. Says(c, CheckThresholds(c), GaugeNotes(c), NewThresholds(c, c.last))
      BY <2>7, CheckThresholdsSays
    <3>2. Len(c.msg) = 0
      BY <2>8
    <3>3. Len(CheckThresholds(c).msg) <= 0 + NewThresholds(c, c.last)
      BY <3>1, <3>2 DEF Says
    <3>4. /\ c.last.battery \in 0..3 /\ c.last.filter \in 0..3
          /\ c.last \in PkState
      BY <2>7 DEF Pk, PkState
    <3>5. /\ NewThresholds(c, c.last) \in Nat
          /\ NewThresholds(c, c.last) <= c.last.battery + c.last.filter
      BY <2>7, <3>4, NewThresholdsFew
    <3>6. Len(CheckThresholds(c).msg) \in Nat
      BY <2>7, GrowsThresholds, QueueLength
    <3> QED
      BY <3>3, <3>4, <3>5, <3>6
  <2>10. c.last.battery \in 0..3 /\ c.last.filter \in 0..3
    BY <2>7 DEF Pk, PkState
  <2>11. CheckThresholds(c) \in Pk /\ e = CheckThresholds(c)
    BY <2>2, <2>7, GrowsThresholds DEF CheckReading, c
  <2>12. Len(e.msg) \in Nat
    BY <1>10, QueueLength
  <2> DEFINE x == c.last.battery
             y == c.last.filter
             z == Len(e.msg)
  <2>13. x \in 0..3 /\ y \in 0..3 /\ z \in Nat /\ z <= 0 + (x + y)
    BY <2>9, <2>10, <2>11, <2>12
  <2> HIDE DEF x, y, z
  <2>14. z < MaxMsg
    BY <1>6, <2>13
  <2> QED
    BY <1>11, <2>14 DEF z
<1>13. Edges(g, known)
  <2>1. Len(calm.msg) < MaxMsg
    BY <1>6, <1>7
  <2>2. (f = e \/ Len(e.msg) < MaxMsg) /\ (g = f \/ Len(f.msg) < MaxMsg)
    BY <1>11, <1>12
  <2> QED
    BY <1>7, <1>8, <1>9, <2>1, <2>2, EdgesChecks
<1>14. PollOk(a, s, fresh, hist, t) = g
  BY DEF PollOk, g, f, e, calm, CalmOf, ReadOf
<1> QED
  BY <1>13, <1>14

\* pk_tick: the report says nothing of a problem, an outage and a dry spell do.
LEMMA EdgesClose ==
  ASSUME NEW t \in Nat, NEW a \in Pk, a.last_report_day < a.day_no,
         Len(a.msg) < MaxMsg, OnlyAlarms(a), NEW known, Edges(a, known)
  PROVE  Edges(CloseDay(a, t), known)
<1> DEFINE c == CloseDay(a, t)
           m == TheReport(a)
<1>1. CASE ~ Closes(a, t)
  BY <1>1 DEF CloseDay, Closes
<1>2. CASE Closes(a, t)
  <2> DEFINE l == Len(a.msg)
             d == a.day_messages + 1
             b == [c EXCEPT !.day_messages = d]
  <2>1. /\ c \in Pk /\ Len(c.msg) = l + 1 /\ c.msg[l + 1] = m
        /\ \A i \in 1..l : c.msg[i] = a.msg[i]
    BY <1>2, CloseDayTurns
  <2>2. /\ c = a \/ Only(a, c, Queue \cup {"day_no", "last_report_day", "day_hist_short", "visit"})
    BY CloseDaySays
  <2>3. l \in Nat /\ d \in Nat /\ a.day_messages \in Nat
    BY QueueLength
  <2> HIDE DEF c, d
  <2>4. b \in Pk /\ b.msg = c.msg /\ b.day_messages = d /\ AgreeBut(c, b, "none")
        /\ AgreeBut(b, c, "none")
    BY <2>1, <2>3 DEF Pk, AgreeBut
  <2>5. AgreeBut(a, c, "none")
    BY <2>2 DEF AgreeBut, Only, Fields, Queue
  <2> HIDE DEF b
  <2>6. Grows(a, b, {m})
    <3>1. Len(b.msg) = l + 1 /\ \A i \in 1..l : b.msg[i] = a.msg[i]
      BY <2>1, <2>4
    <3>2. l <= Len(b.msg) /\ b.day_messages = a.day_messages + (Len(b.msg) - l)
      BY <2>3, <2>4, <3>1 DEF d
    <3>3. ASSUME NEW i \in l + 1..Len(b.msg) PROVE b.msg[i] \in {m}
      <4>1. i = l + 1
        BY <2>3, <3>1
      <4> QED
        BY <2>1, <2>4, <4>1
    <3> QED
      BY <3>1, <3>2, <3>3 DEF Grows
  <2>7. \A k \in Problems : Level(b, k) = Level(a, k)
    <3>1. AgreeBut(a, b, "none")
      BY <2>4, <2>5 DEF AgreeBut
    <3>2. \A k \in Problems \ {"none"} : Level(b, k) = Level(a, k)
      BY <3>1, AgreeLevels
    <3> QED
      BY <3>2 DEF Problems
  <2>8. \A x \in {m} : x.kind \notin Problems
    BY DEF TheReport, Problems
  <2>9. Edges(b, known)
    BY <2>4, <2>6, <2>7, <2>8, EdgesSame
  <2>10. Edges(c, known)
    BY <2>4, <2>9, EdgesMsg
  <2> QED
    BY <2>10 DEF c
<1> QED
  BY <1>1, <1>2

LEMMA EdgesTick ==
  ASSUME NEW t \in Nat, NEW a \in Pk, a.last_drink_ts <= t, a.last_report_day < a.day_no,
         Len(a.msg) < MaxMsg, OnlyAlarms(a), NEW known, Edges(a, known),
         Len(Tick(a, t).msg) < MaxMsg
  PROVE  Edges(Tick(a, t), known)
<1> DEFINE c == CloseDay(a, t)
           k == CheckContact(c, t)
           r == CheckThirst(k, t)
<1>1. c \in Pk /\ c.last_drink_ts = a.last_drink_ts /\ Edges(c, known)
  BY CloseDayType, EdgesClose
<1>2. Tick(a, t) = r /\ Len(r.msg) < MaxMsg
  BY DEF Tick
<1> HIDE DEF c
<1>3. k \in Pk /\ Only(c, k, Queue \cup {"unreachable"}) /\ Len(c.msg) <= Len(k.msg)
  BY <1>1, ContactType, ContactSays, GrowsContact DEF Grows
<1> HIDE DEF k
<1>4. r \in Pk /\ Len(k.msg) <= Len(r.msg)
  <2>1. k.last_drink_ts <= t
    BY <1>1, <1>3 DEF Only, Fields, Queue
  <2> QED
    BY <1>3, <2>1, CheckThirstType, GrowsThirst DEF Grows
<1> HIDE DEF r
<1>5. Len(c.msg) < MaxMsg /\ Len(k.msg) < MaxMsg
  <2>1. Len(c.msg) \in Nat /\ Len(k.msg) \in Nat /\ Len(r.msg) \in Nat /\ MaxMsg \in Nat
    BY <1>1, <1>3, <1>4, QueueLength, Constants
  <2> DEFINE x == Len(c.msg)
             y == Len(k.msg)
             z == Len(r.msg)
  <2>2. x \in Nat /\ y \in Nat /\ z \in Nat /\ x <= y /\ y <= z /\ z < MaxMsg /\ MaxMsg \in Nat
    BY <1>2, <1>3, <1>4, <2>1
  <2> HIDE DEF x, y, z
  <2>3. x < MaxMsg /\ y < MaxMsg
    BY <2>2
  <2> QED
    BY <2>3 DEF x, y
<1>6. Edges(k, known)
  BY <1>1, <1>5, EdgesContact DEF k
<1>7. Edges(r, known)
  BY <1>3, <1>5, <1>6, EdgesThirst DEF r
<1> QED
  BY <1>2, <1>7

\* The user knows the latches between two rounds, and can follow them from the
\* messages within one.
EdgeInv ==
  /\ phase = "boot" => Fresh(p)
  /\ phase \in {"boot", "idle", "answer", "reply"} => \A k \in Problems : heard[k] = Level(p, k)
  /\ phase \in {"tick", "deliver"} => Edges(p, heard)

LEMMA InitEdges == Init => EdgeInv
<1> SUFFICES ASSUME Init PROVE EdgeInv
  OBVIOUS
<1>1. p = PkInit(now) /\ phase = "boot" /\ heard = [k \in Problems |-> 0]
  BY DEF Init
<1>2. Fresh(p)
  BY <1>1 DEF Fresh, PkInit
<1>3. ASSUME NEW k \in Problems PROVE heard[k] = Level(p, k)
  <2>1. Level(p, k) = 0
    BY <1>2, Levels DEF Fresh, Problems
  <2> QED
    BY <1>1, <2>1
<1> QED
  BY <1>1, <1>2, <1>3 DEF EdgeInv

LEMMA PollsKeepEdges ==
  ASSUME MaxMsg > 6
  PROVE  IInv /\ ClaimInv /\ EdgeInv /\ Roomy'
         /\ (BootPollOk \/ BootPollFail \/ RoundPollOk \/ RoundPollFail) => EdgeInv'
<1> SUFFICES ASSUME IInv, ClaimInv, EdgeInv, Roomy',
                    BootPollOk \/ BootPollFail \/ RoundPollOk \/ RoundPollFail
             PROVE  EdgeInv'
  OBVIOUS
<1>1. /\ p \in Pk /\ now \in Nat /\ p.last_drink_ts <= now
  BY DEF IInv, Sound, Env
<1>2. phase \in {"boot", "idle"} => p.msg = <<>> /\ Edges(p, heard)
  <2>1. phase \in {"boot", "idle"} => p.msg = <<>>
    BY DEF ClaimInv
  <2> QED
    BY <2>1, EmptyEdges DEF EdgeInv
<1>3. ASSUME NEW s \in Readings, NEW hist \in {"ok", "short"}, NEW fresh \in SUBSET buf,
             ReadFountain(hist, fresh)
      PROVE  fresh \in SUBSET Nat /\ (\A x \in fresh : x <= now) /\ s \in PkState
  BY <1>3, ReadType, RoundsAssumption DEF RoundsAssumption
<1>4. CASE BootPollOk
  <2>1. PICK s \in Readings, hist \in {"ok", "short"}, fresh \in SUBSET buf :
          /\ ReadFountain(hist, fresh)
          /\ p' = MsgDrop(PollOk(p, s, fresh, hist, now))
          /\ heard' = [k \in Problems |-> LastLevel(PollOk(p, s, fresh, hist, now).msg, k, heard[k])]
    BY <1>4 DEF BootPollOk
  <2> DEFINE q == PollOk(p, s, fresh, hist, now)
  <2>2. phase = "boot" /\ phase' = "idle" /\ Fresh(p)
    BY <1>4 DEF BootPollOk, EdgeInv
  <2>3. fresh \in SUBSET Nat /\ (\A x \in fresh : x <= now) /\ s \in PkState
    BY <1>3, <2>1
  <2>4. Edges(q, heard)
    BY <1>1, <1>2, <2>2, <2>3, EdgesBoot
  <2>5. q \in Pk
    BY <1>1, <2>3, PollOkDoes DEF PollOkEffect
  <2>6. p' = MsgDrop(q) /\ heard' = [k \in Problems |-> LastLevel(q.msg, k, heard[k])]
    BY <2>1
  <2> HIDE DEF q
  <2>7. AgreeBut(q, p', "none")
    BY <2>5, <2>6 DEF MsgDrop, Pk, AgreeBut
  <2>8. \A k \in Problems \ {"none"} : Level(p', k) = Level(q, k)
    BY <2>7, AgreeLevels
  <2>9. ASSUME NEW k \in Problems PROVE heard'[k] = Level(p', k)
    <3>1. heard'[k] = Level(q, k)
      BY <2>4, <2>6 DEF Edges
    <3> QED
      BY <2>8, <3>1 DEF Problems
  <2> QED
    BY <2>2, <2>9 DEF EdgeInv
<1>5. CASE BootPollFail
  BY <1>5 DEF BootPollFail, PollFail, EdgeInv
<1>6. CASE RoundPollOk
  <2>1. PICK s \in Readings, hist \in {"ok", "short"}, fresh \in SUBSET buf :
          /\ ReadFountain(hist, fresh)
          /\ p' = PollOk(p, s, fresh, hist, now)
    BY <1>6 DEF RoundPollOk
  <2>2. phase = "idle" /\ phase' = "tick" /\ heard' = heard
    BY <1>6 DEF RoundPollOk, RoundStarts
  <2>3. fresh \in SUBSET Nat /\ (\A x \in fresh : x <= now) /\ s \in PkState
    BY <1>3, <2>1
  <2>4. Len(p.msg) < MaxMsg
    <3>1. Len(p.msg) = 0
      BY <1>2, <2>2
    <3> QED
      BY <3>1, Constants
  <2>5. Len(PollOk(p, s, fresh, hist, now).msg) < MaxMsg
    BY <2>1 DEF Roomy
  <2>6. Edges(PollOk(p, s, fresh, hist, now), heard)
    BY <1>1, <1>2, <2>2, <2>3, <2>4, <2>5, EdgesPollOk
  <2>7. Edges(p', heard')
    BY <2>1, <2>2, <2>6
  <2> QED
    BY <2>2, <2>7 DEF EdgeInv
<1>7. CASE RoundPollFail
  <2>1. phase = "idle" /\ phase' = "tick" /\ heard' = heard /\ p' = p
    BY <1>7 DEF RoundPollFail, RoundStarts, PollFail
  <2>2. Edges(p', heard')
    BY <1>2, <2>1
  <2> QED
    BY <2>1, <2>2 DEF EdgeInv
<1> QED
  BY <1>4, <1>5, <1>6, <1>7

LEMMA TickKeepsEdges ==
  IInv /\ ClaimInv /\ TurnInv /\ EdgeInv /\ Roomy /\ Roomy' /\ RoundTick => EdgeInv'
<1> SUFFICES ASSUME IInv, TurnInv, EdgeInv, Roomy, Roomy', RoundTick PROVE EdgeInv'
  OBVIOUS
<1>1. /\ p \in Pk /\ now \in Nat /\ p.last_drink_ts <= now /\ p.day_no \in Nat
  BY DEF IInv, Sound, Env, Pk
<1>2. /\ p' = Tick(p, now) /\ phase = "tick" /\ phase' = "deliver" /\ heard' = heard
  BY DEF RoundTick
<1>3. p.last_report_day < p.day_no /\ OnlyAlarms(p) /\ Edges(p, heard)
  BY <1>1, <1>2 DEF TurnInv, Counted, EdgeInv
<1>4. Len(p.msg) < MaxMsg /\ Len(Tick(p, now).msg) < MaxMsg
  BY <1>2 DEF Roomy
<1>5. Edges(Tick(p, now), heard)
  BY <1>1, <1>3, <1>4, EdgesTick
<1>6. Edges(p', heard')
  BY <1>2, <1>5
<1> QED
  BY <1>2, <1>6 DEF EdgeInv

LEMMA OthersKeepEdges ==
  IInv /\ EdgeInv /\ (\/ Deliver \/ Ask \/ NobodyAsks \/ DeliverReply \/ Drink
                      \/ (\E t \in wet : WriteRecord(t)) \/ AppSync \/ Pass) => EdgeInv'
<1> SUFFICES ASSUME IInv, EdgeInv,
                    \/ Deliver \/ Ask \/ NobodyAsks \/ DeliverReply \/ Drink
                    \/ (\E t \in wet : WriteRecord(t)) \/ AppSync \/ Pass
             PROVE  EdgeInv'
  OBVIOUS
<1>1. p \in Pk
  BY DEF IInv, Sound
<1>2. CASE Deliver
  <2>1. /\ phase = "deliver" /\ phase' = "answer" /\ p' = [p EXCEPT !.msg = <<>>]
        /\ heard' = [k \in Problems |-> LastLevel(p.msg, k, heard[k])]
    BY <1>2 DEF Deliver, MsgClear
  <2>2. AgreeBut(p, p', "none")
    BY <1>1, <2>1 DEF Pk, AgreeBut
  <2>3. \A k \in Problems \ {"none"} : Level(p', k) = Level(p, k)
    BY <2>2, AgreeLevels
  <2>4. ASSUME NEW k \in Problems PROVE heard'[k] = Level(p', k)
    <3>1. heard'[k] = Level(p, k)
      BY <2>1 DEF EdgeInv, Edges
    <3> QED
      BY <2>3, <3>1 DEF Problems
  <2> QED
    BY <2>1, <2>4 DEF EdgeInv
<1>3. CASE Ask \/ NobodyAsks \/ DeliverReply
  <2>1. /\ phase \in {"answer", "reply"} /\ phase' \in {"reply", "idle"} /\ heard' = heard
    BY <1>3 DEF Ask, NobodyAsks, DeliverReply
  <2>2. AgreeBut(p, p', "none")
    <3>1. CASE Ask
      <4> DEFINE q == Say(p, Note("status", 0))
      <4>1. q \in Pk /\ Only(p, q, Queue)
        BY <1>1, NoteType, SaySays, SayType
      <4>2. AgreeBut(p, q, "none")
        BY <4>1 DEF Only, Fields, Queue, AgreeBut
      <4> HIDE DEF q
      <4>3. p' = [q EXCEPT !.day_messages = p.day_messages]
        BY <3>1 DEF Ask, Command, Reply, q
      <4> QED
        BY <4>1, <4>2, <4>3 DEF Pk, AgreeBut
    <3>2. CASE NobodyAsks
      BY <3>2 DEF NobodyAsks, AgreeBut
    <3>3. CASE DeliverReply
      BY <1>1, <3>3 DEF DeliverReply, MsgClear, Pk, AgreeBut
    <3> QED
      BY <1>3, <3>1, <3>2, <3>3
  <2>3. \A k \in Problems \ {"none"} : Level(p', k) = Level(p, k)
    BY <2>2, AgreeLevels
  <2>4. ASSUME NEW k \in Problems PROVE heard'[k] = Level(p', k)
    BY <2>1, <2>3 DEF EdgeInv, Problems
  <2> QED
    BY <2>1, <2>4 DEF EdgeInv
<1>4. CASE Drink \/ (\E t \in wet : WriteRecord(t)) \/ AppSync \/ Pass
  <2>1. p' = p /\ phase' = phase /\ heard' = heard
    BY <1>4 DEF Drink, WriteRecord, AppSync, Pass
  <2> QED
    BY <2>1 DEF EdgeInv, Edges, Fresh
<1> QED
  BY <1>2, <1>3, <1>4

\* Each message about a problem differs from the one before it, a second
\* thirst message follows the first, and the last one sent is what the latch
\* says, if the queue has room for the notes of one reading (PK_MAX_MSG is 8)
\* and never fills up (the edges and latches of core/petkit_core.c).
THEOREM EdgesCorrect ==
  ASSUME MaxMsg > 6
  PROVE  Spec /\ []Roomy => []MessagesAreEdges
<1>1. IInv /\ ClaimInv /\ TurnInv /\ EdgeInv /\ Roomy /\ Roomy' /\ [Next]_vars => EdgeInv'
  <2> SUFFICES ASSUME IInv, ClaimInv, TurnInv, EdgeInv, Roomy, Roomy', [Next]_vars
               PROVE  EdgeInv'
    OBVIOUS
  <2>1. CASE Next
    BY <2>1, PollsKeepEdges, TickKeepsEdges, OthersKeepEdges DEF Next
  <2>2. CASE UNCHANGED vars
    BY <2>2 DEF vars, EdgeInv, Edges, Fresh
  <2> QED
    BY <2>1, <2>2
<1>2. EdgeInv => MessagesAreEdges
  BY DEF EdgeInv, MessagesAreEdges
<1> QED
  BY <1>1, <1>2, InitEdges, Invariance, ClaimsAlways, TurnsAlways, PTL DEF Spec

-----------------------------------------------------------------------------
(* The report lists the day *)

\* The visits a rollover at this hour would keep, and a list with room for them.
Recent(S) == {v \in S : v + 2 * DaySec >= now}

FewDrinks == Cardinality(Recent(drinks)) < MaxVisits

VisitInv ==
  /\ p.visit \subseteq drinks /\ buf \subseteq drinks /\ wet \subseteq drinks
  /\ p.last_ok_ts <= roundAt
  /\ Recent(drinks \ gone) \subseteq wet \cup buf \cup p.visit
  /\ phase = "tick" /\ FullReadNow => Recent(drinks \ gone) \subseteq wet \cup p.visit
  /\ ReportComplete

LEMMA InitVisits == Init => VisitInv
<1> SUFFICES ASSUME Init PROVE VisitInv
  OBVIOUS
<1>1. /\ p = PkInit(now) /\ phase = "boot" /\ roundAt = now
      /\ drinks = buf /\ wet = {} /\ now \in Nat
  BY RoundsAssumption DEF Init, RoundsAssumption
<1>2. p.visit = {} /\ p.last_ok_ts = now
  BY <1>1 DEF PkInit
<1> QED
  BY <1>1, <1>2 DEF VisitInv, Recent, ReportComplete

LEMMA PollsKeepVisits ==
  IInv /\ TurnInv /\ VisitInv /\ FewDrinks
  /\ (BootPollOk \/ BootPollFail \/ RoundPollOk \/ RoundPollFail) => VisitInv'
<1> SUFFICES ASSUME IInv, TurnInv, VisitInv, FewDrinks,
                    BootPollOk \/ BootPollFail \/ RoundPollOk \/ RoundPollFail
             PROVE  VisitInv'
  OBVIOUS
<1>1. /\ p \in Pk /\ now \in Nat /\ p.last_drink_ts <= now /\ drinks \in SUBSET (0..now)
      /\ roundAt \in Nat /\ PollSec \in Nat /\ PollSec > 0
  BY Constants, RoundsAssumption DEF IInv, Sound, Env, RoundsAssumption
<1>2. UNCHANGED <<now, wet, buf, drinks, gone>> /\ phase' \in {"idle", "tick"}
  BY DEF BootPollOk, BootPollFail, RoundPollOk, RoundPollFail
<1>3. /\ p.visit \subseteq drinks /\ buf \subseteq drinks /\ wet \subseteq drinks
      /\ p.last_ok_ts <= roundAt
      /\ Recent(drinks \ gone) \subseteq wet \cup buf \cup p.visit
  BY DEF VisitInv
<1>4. ASSUME NEW s \in Readings, NEW hist \in {"ok", "short"}, NEW fresh \in SUBSET buf,
             ReadFountain(hist, fresh), NEW q, q = PollOk(p, s, fresh, hist, now)
      PROVE  /\ q \in Pk /\ q.visit \subseteq drinks /\ q.last_ok_ts = now
             /\ Recent(p.visit \cup fresh) \subseteq q.visit
             /\ q.hist_short_streak = 0 => fresh = buf
  <2>1. fresh \in SUBSET Nat /\ (\A x \in fresh : x <= now) /\ s \in PkState
    BY <1>4, ReadType, RoundsAssumption DEF RoundsAssumption
  <2>2. PollOkEffect(p, q, s, fresh, hist, now)
    BY <1>1, <1>4, <2>1, PollOkDoes
  <2>3. /\ q \in Pk /\ q.last_ok_ts = now /\ q.visit = AddVisits(p.visit, fresh)
        /\ q.visit \subseteq p.visit \cup fresh
        /\ q.hist_short_streak = 0 => hist = "ok"
    BY <2>2 DEF PollOkEffect
  <2>4. {v \in p.visit \cup fresh : v + 2 * DaySec >= now} \subseteq AddVisits(p.visit, fresh)
    <3>1. Cardinality({v \in drinks : v + 2 * DaySec >= now}) < MaxVisits
      BY DEF FewDrinks, Recent
    <3>2. p.visit \in SUBSET drinks /\ fresh \in SUBSET drinks
      BY <1>3
    <3> QED
      BY <1>1, <3>1, <3>2, RecentStay
  <2>5. hist = "ok" => fresh = buf
    BY <1>4 DEF ReadFountain
  <2> QED
    BY <1>3, <2>3, <2>4, <2>5 DEF Recent
<1>5. CASE BootPollOk
  <2>1. PICK s \in Readings, hist \in {"ok", "short"}, fresh \in SUBSET buf :
          /\ ReadFountain(hist, fresh)
          /\ p' = MsgDrop(PollOk(p, s, fresh, hist, now))
    BY <1>5 DEF BootPollOk
  <2> DEFINE q == PollOk(p, s, fresh, hist, now)
  <2>2. /\ q \in Pk /\ q.visit \subseteq drinks /\ q.last_ok_ts = now
        /\ Recent(p.visit \cup fresh) \subseteq q.visit
    BY <1>4, <2>1
  <2> HIDE DEF q
  <2>3. p' = MsgDrop(q)
    BY <2>1 DEF q
  <2>4. p'.visit = q.visit /\ p'.last_ok_ts = q.last_ok_ts
    BY <2>2, <2>3 DEF MsgDrop, Pk
  <2>5. phase' = "idle" /\ roundAt' = roundAt /\ now = roundAt
    BY <1>5 DEF BootPollOk, TurnInv
  <2>6. Recent(drinks \ gone)' \subseteq wet \cup buf \cup p'.visit
    BY <1>2, <1>3, <2>2, <2>4 DEF Recent
  <2>7. p'.last_ok_ts <= roundAt'
    BY <1>1, <2>2, <2>4, <2>5
  <2> QED
    BY <1>2, <1>3, <2>2, <2>4, <2>5, <2>6, <2>7 DEF VisitInv, ReportComplete
<1>6. CASE BootPollFail
  <2>1. p' = p /\ phase' = "idle" /\ roundAt' = roundAt
    BY <1>6 DEF BootPollFail, PollFail
  <2> QED
    BY <1>2, <1>3, <2>1 DEF VisitInv, Recent, ReportComplete
<1>7. CASE RoundPollOk
  <2>1. PICK s \in Readings, hist \in {"ok", "short"}, fresh \in SUBSET buf :
          /\ ReadFountain(hist, fresh)
          /\ p' = PollOk(p, s, fresh, hist, now)
    BY <1>7 DEF RoundPollOk
  <2>2. /\ p'.visit \subseteq drinks /\ p'.last_ok_ts = now
        /\ Recent(p.visit \cup fresh) \subseteq p'.visit
        /\ p'.hist_short_streak = 0 => fresh = buf
    BY <1>4, <2>1
  <2>3. phase' = "tick" /\ roundAt' = now
    BY <1>7 DEF RoundPollOk
  <2>4. Recent(drinks \ gone)' \subseteq wet \cup buf \cup p'.visit
    BY <1>2, <1>3, <2>2 DEF Recent
  <2>5. FullReadNow' => Recent(drinks \ gone)' \subseteq wet \cup p'.visit
    BY <1>2, <1>3, <2>2 DEF Recent, FullReadNow
  <2>6. p'.last_ok_ts <= roundAt'
    BY <1>1, <2>2, <2>3
  <2> QED
    BY <1>2, <1>3, <2>2, <2>3, <2>4, <2>5, <2>6 DEF VisitInv, ReportComplete
<1>8. CASE RoundPollFail
  <2>1. p' = p /\ phase' = "tick" /\ roundAt' = now /\ now = roundAt + PollSec
    BY <1>8 DEF RoundPollFail, RoundStarts, PollFail
  <2>2. p.last_ok_ts \in Nat
    BY <1>1 DEF Pk
  <2>3. p.last_ok_ts # now /\ p.last_ok_ts <= now
    BY <1>1, <1>3, <2>1, <2>2
  <2>4. ~ FullReadNow'
    BY <1>2, <2>1, <2>3 DEF FullReadNow
  <2> QED
    BY <1>2, <1>3, <2>1, <2>3, <2>4 DEF VisitInv, Recent, ReportComplete
<1> QED
  BY <1>5, <1>6, <1>7, <1>8

\* At the settle time every visit of the day before has been written, and none
\* of them is old enough to be pruned.
LEMMA DaySettled ==
  ASSUME SettleSec >= RecordLag, NEW t \in Nat, NEW d \in Nat,
         DayOf(t) = DayOf(d) + 1, SecOfDay(t) >= SettleSec
  PROVE  d + RecordLag < t /\ d + 2 * DaySec >= t
<1> DEFINE k == DayOf(d)
           l == DayOf(t)
           r == SecOfDay(d)
           s == SecOfDay(t)
<1>1. /\ DaySec \in Nat \ {0} /\ SettleSec \in Nat /\ RecordLag \in Nat
      /\ k \in Nat /\ l \in Nat /\ r \in 0..DaySec - 1 /\ s \in 0..DaySec - 1
      /\ d = DaySec * k + r /\ t = DaySec * l + s /\ l = k + 1 /\ s >= SettleSec
  BY Constants, DayParts
<1> HIDE DEF k, l, r, s
<1> DEFINE x == DaySec * k
<1>2. x \in Nat /\ DaySec * l = x + DaySec
  BY <1>1
<1>3. d = x + r /\ t = x + DaySec + s
  BY <1>1, <1>2
<1> HIDE DEF x
<1> QED
  BY <1>1, <1>2, <1>3

LEMMA TickKeepsVisits ==
  ASSUME SettleSec >= RecordLag
  PROVE  IInv /\ ClaimInv /\ TurnInv /\ VisitInv /\ Roomy /\ RoundTick => VisitInv'
<1> SUFFICES ASSUME IInv, ClaimInv, TurnInv, VisitInv, Roomy, RoundTick PROVE VisitInv'
  OBVIOUS
<1>1. /\ p \in Pk /\ now \in Nat /\ p.last_drink_ts <= now /\ p.day_no \in Nat
      /\ drinks \in SUBSET (0..now)
  BY DEF IInv, Sound, Env, Pk
<1>2. /\ p' = Tick(p, now) /\ phase = "tick" /\ phase' = "deliver"
      /\ UNCHANGED <<now, roundAt, wet, buf, drinks, gone>>
  BY DEF RoundTick
<1>3. /\ p.visit \subseteq drinks /\ buf \subseteq drinks /\ wet \subseteq drinks
      /\ p.last_ok_ts <= roundAt
      /\ Recent(drinks \ gone) \subseteq wet \cup buf \cup p.visit
      /\ FullReadNow => Recent(drinks \ gone) \subseteq wet \cup p.visit
  BY <1>2 DEF VisitInv
<1>4. /\ p'.visit \subseteq p.visit /\ Recent(p.visit) \subseteq p'.visit
      /\ p'.last_ok_ts = p.last_ok_ts /\ p'.hist_short_streak = p.hist_short_streak
      /\ p' \in Pk
  <2>1. /\ p' \in Pk /\ p'.visit \subseteq p.visit
        /\ {v \in p.visit : v + 2 * DaySec >= now} \subseteq p'.visit
        /\ Only(p, p', Queue \cup {"day_no", "last_report_day", "day_hist_short", "visit",
                                   "unreachable", "thirst_level"})
    BY <1>1, <1>2, TickDoes
  <2> QED
    BY <2>1 DEF Only, Fields, Queue, Recent
<1>5. p.last_report_day < p.day_no /\ OnlyAlarms(p)
  BY <1>1, <1>2 DEF TurnInv, Counted
<1>6. /\ Closes(p, now) => Turned(p, p', now)
      /\ ~ Closes(p, now) => Grows(p, p', Alarms)
  BY <1>1, <1>2, <1>5, TickTurns DEF Roomy
<1>7. ReportComplete'
  <2> SUFFICES ASSUME FullReadNow', NEW i \in Queued("report")'
               PROVE  /\ p'.msg[i].drinks \subseteq {d \in drinks : DayOf(d) = p'.msg[i].arg}
                      /\ {d \in drinks \ gone : DayOf(d) = p'.msg[i].arg}
                           \subseteq p'.msg[i].drinks
    BY <1>2 DEF ReportComplete
  <2>1. i \in Positions(p'.msg, "report")
    BY DEF Queued
  <2>2. Closes(p, now)
    <3>1. ASSUME ~ Closes(p, now) PROVE FALSE
      <4>1. Grows(p, p', Alarms) /\ DOMAIN p'.msg = 1..Len(p'.msg)
            /\ Len(p'.msg) \in Nat /\ Len(p.msg) \in Nat
        BY <1>1, <1>4, <1>6, <3>1, QueueLength
      <4>2. i \in 1..Len(p'.msg) /\ p'.msg[i].kind = "report"
        BY <2>1, <4>1 DEF Positions
      <4>3. i \in 1..Len(p.msg) \/ i \in Len(p.msg) + 1..Len(p'.msg)
        BY <4>1, <4>2
      <4>4. p'.msg[i] \in Alarms
        BY <1>5, <4>1, <4>3 DEF Grows, OnlyAlarms
      <4> QED
        BY <4>2, <4>4 DEF Alarms, Problems
    <3> QED
      BY <3>1
  <2>3. p'.msg[i] = TheReport(p)
    BY <1>6, <2>1, <2>2 DEF Turned
  <2>4. /\ p'.msg[i].arg = p.day_no
        /\ p'.msg[i].drinks = {v \in p.visit : DayOf(v) = p.day_no}
    BY <2>3 DEF TheReport, DrinksOn
  <2>5. FullReadNow
    BY <1>2, <1>4 DEF FullReadNow
  <2>6. ASSUME NEW d \in drinks \ gone, DayOf(d) = p.day_no
        PROVE  d \in p.visit
    <3>1. DayOf(now) = DayOf(d) + 1 /\ SecOfDay(now) >= SettleSec
      <4>1. p.day_no = DayOf(now) \/ p.day_no = DayOf(now) - 1
        BY <1>2, TickDay
      <4>2. p.day_no = DayOf(now) - 1 /\ SecOfDay(now) >= SettleSec
        BY <2>2, <4>1 DEF Closes
      <4>3. DayOf(now) \in Nat
        BY <1>1, DayParts
      <4> QED
        BY <1>1, <2>6, <4>2, <4>3
    <3>2. d \in Nat
      BY <1>1
    <3>3. d + RecordLag < now /\ d + 2 * DaySec >= now
      BY <1>1, <3>1, <3>2, DaySettled
    <3>4. d \notin wet
      <4>1. d \in wet => now <= d + RecordLag
        BY DEF ClaimInv
      <4> QED
        BY <1>1, <3>2, <3>3, <4>1, Constants
    <3> QED
      BY <1>3, <2>5, <3>3, <3>4 DEF Recent
  <2> QED
    BY <1>3, <2>4, <2>6
<1>8. Recent(drinks \ gone)' \subseteq wet \cup buf \cup p'.visit
  BY <1>2, <1>3, <1>4 DEF Recent
<1> QED
  BY <1>2, <1>3, <1>4, <1>7, <1>8 DEF VisitInv

LEMMA OthersKeepVisits ==
  IInv /\ VisitInv /\ (\/ Deliver \/ Ask \/ NobodyAsks \/ DeliverReply \/ Drink
                       \/ (\E t \in wet : WriteRecord(t)) \/ AppSync \/ Pass) => VisitInv'
<1> SUFFICES ASSUME IInv, VisitInv,
                    \/ Deliver \/ Ask \/ NobodyAsks \/ DeliverReply \/ Drink
                    \/ (\E t \in wet : WriteRecord(t)) \/ AppSync \/ Pass
             PROVE  VisitInv'
  OBVIOUS
<1>1. p \in Pk /\ now \in Nat /\ drinks \in SUBSET (0..now) /\ 2 * DaySec \in Nat
  BY Constants DEF IInv, Sound, Env
<1>2. /\ p.visit \subseteq drinks /\ buf \subseteq drinks /\ wet \subseteq drinks
      /\ p.last_ok_ts <= roundAt
      /\ Recent(drinks \ gone) \subseteq wet \cup buf \cup p.visit
  BY DEF VisitInv
<1>3. CASE Deliver \/ Ask \/ NobodyAsks \/ DeliverReply
  <2>1. UNCHANGED <<now, roundAt, wet, buf, drinks, gone>> /\ phase' \in {"answer", "reply", "idle"}
    BY <1>3 DEF Deliver, Ask, NobodyAsks, DeliverReply
  <2>2. p'.visit = p.visit /\ p'.last_ok_ts = p.last_ok_ts
    <3>1. CASE Ask
      <4> DEFINE q == Say(p, Note("status", 0))
      <4>1. q \in Pk /\ Only(p, q, Queue)
        BY <1>1, NoteType, SaySays, SayType
      <4>2. q.visit = p.visit /\ q.last_ok_ts = p.last_ok_ts
        BY <4>1 DEF Only, Fields, Queue
      <4> HIDE DEF q
      <4>3. p' = [q EXCEPT !.day_messages = p.day_messages]
        BY <3>1 DEF Ask, Command, Reply, q
      <4> QED
        BY <4>1, <4>2, <4>3 DEF Pk
    <3>2. CASE NobodyAsks
      BY <3>2 DEF NobodyAsks
    <3>3. CASE Deliver \/ DeliverReply
      BY <1>1, <3>3 DEF Deliver, DeliverReply, MsgClear, Pk
    <3> QED
      BY <1>3, <3>1, <3>2, <3>3
  <2> QED
    BY <1>2, <2>1, <2>2 DEF VisitInv, Recent, ReportComplete
<1>4. CASE Drink
  <2>1. /\ drinks' = drinks \cup {now} /\ wet' = wet \cup {now} /\ phase' = "idle"
        /\ UNCHANGED <<p, now, roundAt, buf, gone>>
    BY <1>4 DEF Drink
  <2> QED
    BY <1>2, <2>1 DEF VisitInv, Recent, ReportComplete
<1>5. CASE \E t \in wet : WriteRecord(t)
  <2>1. PICK t \in wet : WriteRecord(t)
    BY <1>5
  <2>2. /\ wet' = wet \ {t} /\ buf' = buf \cup {t} /\ phase' = "idle"
        /\ UNCHANGED <<p, now, roundAt, drinks, gone>>
    BY <2>1 DEF WriteRecord
  <2> QED
    BY <1>2, <2>2 DEF VisitInv, Recent, ReportComplete
<1>6. CASE AppSync
  <2>1. /\ buf' = {} /\ gone' = gone \cup {t \in buf : t \notin p.visit} /\ phase' = "idle"
        /\ UNCHANGED <<p, now, roundAt, wet, drinks>>
    BY <1>6 DEF AppSync
  <2> QED
    BY <1>2, <2>1 DEF VisitInv, Recent, ReportComplete
<1>7. CASE Pass
  <2>1. /\ now' = now + 1 /\ phase' = "idle"
        /\ UNCHANGED <<p, roundAt, wet, buf, drinks, gone>>
    BY <1>7 DEF Pass
  <2>2. ASSUME NEW v \in drinks, v + 2 * DaySec >= now + 1
        PROVE  v + 2 * DaySec >= now
    <3>1. v \in Nat
      BY <1>1
    <3> QED
      BY <1>1, <2>2, <3>1
  <2>3. Recent(drinks \ gone)' \subseteq Recent(drinks \ gone)
    BY <2>1, <2>2 DEF Recent
  <2> QED
    BY <1>2, <2>1, <2>3 DEF VisitInv, ReportComplete
<1> QED
  BY <1>3, <1>4, <1>5, <1>6, <1>7

\* The report of a finished day lists every visit of that day and no other,
\* after a complete read: the fountain writes a record before the day settles
\* (report_settle_min is 3 minutes, PK_RECORD_LAG_SEC is 2), the list has room
\* for the visits of two days (PK_MAX_VISITS), and the rollover prunes none of
\* them (day_rollover and emit_report in core/petkit_core.c).
THEOREM ReportCorrect ==
  ASSUME SettleSec >= RecordLag
  PROVE  Spec /\ []Roomy /\ []FewDrinks => []ReportComplete
<1>1. IInv /\ ClaimInv /\ TurnInv /\ VisitInv /\ Roomy /\ FewDrinks /\ [Next]_vars => VisitInv'
  <2> SUFFICES ASSUME IInv, ClaimInv, TurnInv, VisitInv, Roomy, FewDrinks, [Next]_vars
               PROVE  VisitInv'
    OBVIOUS
  <2>1. CASE Next
    BY <2>1, PollsKeepVisits, TickKeepsVisits, OthersKeepVisits DEF Next
  <2>2. CASE UNCHANGED vars
    BY <2>2 DEF vars, VisitInv, Recent, ReportComplete, FullReadNow, Queued, Positions
  <2> QED
    BY <2>1, <2>2
<1>2. VisitInv => ReportComplete
  BY DEF VisitInv
<1> QED
  BY <1>1, <1>2, InitVisits, Invariance, ClaimsAlways, TurnsAlways, PTL DEF Spec
=============================================================================
