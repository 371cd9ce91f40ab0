SPECIFICATION Spec
CONSTANTS
  Payloads <- SmallPayloads
  Tags <- SmallTags
  Sizes <- SmallSizes
  Counters <- CounterValues
  Backlogs <- VisitLists
  Room = 1
INVARIANTS
  TypeOK
  HeardIsSaid
  WholeIsHeard
  Understood
