------------------------------ MODULE VisitList ------------------------------
(***************************************************************************)
(* The array behind pk_t.visit: add_visit, the pruning loop of             *)
(* day_rollover and the slice of day_stats, index by index, as the C code  *)
(* walks it.  The other modules keep the list as a set of timestamps and   *)
(* use the operators of PetkitCore; this module runs the loops from every  *)
(* list they can produce and relates them to those operators.              *)
(***************************************************************************)
EXTENDS PetkitCore, SequencesExt

CONSTANTS
  Horizon,   \* the latest timestamp considered
  Word       \* 2^32 in C: timestamps are subtracted modulo Word

ASSUME ListAssumption == Horizon \in Nat /\ Word \in Nat /\ Word > Horizon

VARIABLES
  list,          \* p->visit[0 .. visit_n-1]
  last_drink_ts

vars == <<list, last_drink_ts>>

Latest(a, b) == IF b > a THEN b ELSE a

\* Fault: a full list refuses the newest record.
MakeRoomAtTheEnd(s) == IF Len(s) >= MaxVisits THEN Front(s) ELSE s

\* memmove(p->visit, p->visit + 1, ...) when the array is full.
MakeRoom(s) == IF Len(s) >= MaxVisits THEN Tail(s) ELSE s

\* Fault: the record is appended without the shifting loop.
InsertVisitLast(s, v) == Append(s, v)

\* The shifting loop leaves v behind the last record that is not later.
InsertVisit(s, v) == InsertAt(s, SelectLastInSeq(s, LAMBDA x : x <= v) + 1, v)

AddVisit(st, v) ==
  IF Contains(st.list, v)
  THEN st
  ELSE [list |-> InsertVisit(MakeRoom(st.list), v),
        last |-> Latest(st.last, v)]

\* for (i = 0; i < n; i++) add_visit(p, &fresh[i]), as read from the stream.
AddAll(s, last, fresh) ==
  LET st[k \in 0..Len(fresh)] ==
        IF k = 0 THEN [list |-> s, last |-> last] ELSE AddVisit(st[k - 1], fresh[k])
  IN  st[Len(fresh)]

\* Fault: the last record of the day is left out.
DaySliceShort(s, day) ==
  LET I == {i \in DOMAIN s : DayOf(s[i]) = day}
  IN  IF I = {} THEN <<>> ELSE SubSeq(s, Min(I), Max(I) - 1)

\* The index loop of day_stats: lo stays at the first record of the day, hi
\* moves past every one.
DaySlice(s, day) ==
  LET I == {i \in DOMAIN s : DayOf(s[i]) = day}
  IN  IF I = {} THEN <<>> ELSE SubSeq(s, Min(I), Max(I))

LongestGap(s) ==
  Max({0} \cup {(s[i] - s[i - 1]) % Word : i \in 2..Len(s)})

InStreamOrder(S) ==
  [i \in 1..Cardinality(S) |->
     CHOOSE x \in S : Cardinality({y \in S : y < x}) = i - 1]

-----------------------------------------------------------------------------
\* A list and a time restored from flash.  They are saved by two commits, so
\* a restart may bring back a list that is ahead of the time.
Init ==
  /\ \E S \in SUBSET (1..Horizon) :
       Cardinality(S) <= MaxVisits /\ list = InStreamOrder(S)
  /\ last_drink_ts \in 0..Horizon

\* The in-place filter: kept[i] is what it has kept of the first i records.
Pruned(s, now) ==
  LET cutoff == IF now > 2 * DaySec THEN now - 2 * DaySec ELSE 0
      kept[i \in 0..Len(s)] ==
        IF i = 0 THEN <<>>
        ELSE IF s[i] >= cutoff THEN Append(kept[i - 1], s[i]) ELSE kept[i - 1]
  IN  kept[Len(s)]

\* One read of the fountain's buffer, which is replayed oldest first.
Replay(F) ==
  LET st == AddAll(list, last_drink_ts, InStreamOrder(F))
  IN  list' = st.list /\ last_drink_ts' = st.last

\* The part of day_rollover that touches the list.
Prune(now) == list' = Pruned(list, now) /\ UNCHANGED last_drink_ts

Next ==
  \/ \E F \in SUBSET (1..Horizon) : Replay(F)
  \/ \E now \in 0..Horizon : Prune(now)

Spec == Init /\ [][Next]_vars

-----------------------------------------------------------------------------
\* The list is strictly increasing, so it has no duplicate, and it fits.
\* day_stats and the pruning loop rely on it without checking it.
SortedWindow ==
  /\ Len(list) <= MaxVisits
  /\ \A i, j \in DOMAIN list : i < j => list[i] < list[j]

\* Every call of the loops computes what PetkitCore says it computes, the
\* time of the last drink included, however the window overflows on the way.
AsSet(s, last) == [PkInit(0) EXCEPT !.visit = ToSet(s), !.last_drink_ts = last]

LoopsMatchSets ==
  /\ \A F \in SUBSET (1..Horizon) :
       LET st == AddAll(list, last_drink_ts, InStreamOrder(F))
       IN  AsSet(st.list, st.last) = TakeVisits(AsSet(list, last_drink_ts), F)
  /\ \A now \in 0..Horizon :
       AsSet(Pruned(list, now), last_drink_ts)
         = [DayRollover(AsSet(list, last_drink_ts), DayOf(now), now)
              EXCEPT !.day_no = 0]

\* The slice the report and /status are built from holds exactly the day's
\* visits, and its gaps are real: no subtraction of two neighbours wraps.
DaySlicesExact ==
  \A day \in 0..DayOf(Horizon) :
    LET s == DaySlice(list, day)
    IN  /\ ToSet(s) = DrinksOn(AsSet(list, last_drink_ts), day)
        /\ Len(s) = Cardinality(ToSet(s))
        /\ LongestGap(s) < DaySec
=============================================================================
