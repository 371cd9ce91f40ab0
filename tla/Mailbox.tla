------------------------------- MODULE Mailbox -------------------------------
(***************************************************************************)
(* What the gateway promises about a message once the core has queued it,  *)
(* whatever the network does: it is given up only after it has reached     *)
(* Telegram, or because it is the oldest of more than Room messages; and   *)
(* messages wait in the order they were queued in.  A message may reach    *)
(* Telegram twice, and a later one before it.                              *)
(***************************************************************************)
EXTENDS Integers, Sequences, SequencesExt

CONSTANTS
  Room,   \* how many messages are kept through an outage
  Batch   \* how many can be queued at once

VARIABLES
  queued,   \* how many messages there have been; they are numbered
  waiting,  \* messages not given up, in the order they were queued in
  arrived,  \* messages that have reached Telegram
  dropped   \* messages that were given up unsent

mail == <<queued, waiting, arrived, dropped>>

Queue ==
  /\ \E n \in 1..Batch :
       /\ queued' = queued + n
       /\ waiting' = waiting \o [i \in 1..n |-> queued + i]
  /\ UNCHANGED <<arrived, dropped>>

\* A message may arrive at any time while it waits.
Arrivals == \E ms \in SUBSET ToSet(waiting) : arrived' = arrived \cup ms

\* A run of messages that have arrived, of none at the least, is given up.
Retire ==
  /\ Arrivals
  /\ \E a, b \in 0..Len(waiting) :
       /\ a <= b
       /\ \A k \in a + 1..b : waiting[k] \in arrived'
       /\ waiting' = SubSeq(waiting, 1, a) \o SubSeq(waiting, b + 1, Len(waiting))
  /\ UNCHANGED <<queued, dropped>>

DropOldest ==
  /\ Arrivals
  /\ Len(waiting) > Room
  /\ waiting' = Tail(waiting)
  /\ dropped' = dropped \cup {Head(waiting)}
  /\ UNCHANGED queued

MailInit == queued = 0 /\ waiting = <<>> /\ arrived = {} /\ dropped = {}

MailNext == Queue \/ Retire \/ DropOldest

MailSpec == MailInit /\ [][MailNext]_mail
=============================================================================
