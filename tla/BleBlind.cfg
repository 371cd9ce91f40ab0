SPECIFICATION Spec
INVARIANTS
  BlindReadFlagged
