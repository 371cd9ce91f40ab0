----------------------------- MODULE HistoryRead -----------------------------
(***************************************************************************)
(* What one read of the fountain's history promises the core, however the  *)
(* chunks, requests and replies fall: it ends with a list of records and a *)
(* flag.  Unflagged, the list is the newest records of the whole backlog,  *)
(* as many as there is room for.  Flagged, it is a run of the backlog's    *)
(* records in order, none torn - unless data went missing on the way, when *)
(* nothing is said of it.  Nothing changes the list afterwards.            *)
(***************************************************************************)
EXTENDS Integers, Sequences

CONSTANT Room  \* how many records the list holds

VARIABLES
  backlog,   \* how many records the fountain holds
  lost,      \* data went missing
  over,      \* the read has ended
  list,      \* its records, as positions in the backlog
  flagged

read == <<backlog, lost, over, list, flagged>>

Run(first, last) == [i \in 1..(last - first + 1) |-> first + i - 1]

\* The newest n of the first m records.
Newest(n, m) == Run(IF m > n THEN m - n + 1 ELSE 1, m)

LoseData ==
  /\ ~lost
  /\ lost' = TRUE
  /\ UNCHANGED <<backlog, over, list, flagged>>

EndComplete ==
  /\ ~over
  /\ over' = TRUE
  /\ list' = Newest(Room, backlog)
  /\ flagged' = FALSE
  /\ UNCHANGED <<backlog, lost>>

EndFlagged ==
  /\ ~over
  /\ over' = TRUE
  /\ flagged' = TRUE
  /\ lost \/ \E n \in {Room - 1, Room}, m \in 0..backlog : list' = Newest(n, m)
  /\ UNCHANGED <<backlog, lost>>

ReadInit ==
  /\ backlog \in Nat
  /\ lost = FALSE /\ over = FALSE /\ list = <<>> /\ flagged = FALSE

ReadSpec == ReadInit /\ [][LoseData \/ EndComplete \/ EndFlagged]_read
=============================================================================
