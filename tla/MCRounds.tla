------------------------------ MODULE MCRounds ------------------------------
(***************************************************************************)
(* Small instances of MonitorRounds for TLC: start times that cover both   *)
(* phases of the poll grid against midnight, and sets of fountain states.  *)
(***************************************************************************)
EXTENDS MonitorRounds

Starts == {7, 8}

\* A recent visit, and one so long ago that the first poll finds the cat thirsty.
Old == {1, 5}

Reading(power, no_water, fault, battery, filter) ==
  [valid |-> TRUE, power |-> power, no_water |-> no_water, fault |-> fault,
   battery |-> battery, filter |-> filter]

Good == Reading(TRUE, FALSE, FALSE, 0, 0)

Healthy == {Good}

\* One problem at a time, and a gauge that has crossed one threshold.
Troubles == {Good, Reading(TRUE, TRUE, FALSE, 1, 0),
             Reading(TRUE, FALSE, TRUE, 0, 1), Reading(FALSE, FALSE, FALSE, 0, 0)}
=============================================================================
