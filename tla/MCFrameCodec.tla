----------------------------- MODULE MCFrameCodec -----------------------------
(***************************************************************************)
(* A small instance of FrameCodec for TLC: payloads of up to three bytes   *)
(* that occur in headers and at the end of frames, counters and lists of   *)
(* visits with every byte in use, notifications of every size from the     *)
(* shortest frame to one that holds the longest.                           *)
(***************************************************************************)
EXTENDS FrameCodec

SmallBytes == {0, 1, 250, 251}
CounterValues == {0, 6, 251, 65536, 2000000001}
VisitLists ==
  LET visits == {[ts |-> 1790000251, sec |-> 251], [ts |-> 1, sec |-> 65535]}
  IN  {<<>>} \cup {<<v>> : v \in visits} \cup (visits \X visits)

SmallPayloads ==
  UNION {[1..n -> SmallBytes] : n \in 0..3}
  \cup {CounterPayload(v) : v \in CounterValues}
  \cup {VisitPayload(vs) : vs \in VisitLists}

SmallTags == {1, 251}
SmallSizes == 8..24
=============================================================================
