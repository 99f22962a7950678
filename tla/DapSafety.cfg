\* Two tool calls on one session, an adapter that exits at any time.
SPECIFICATION Spec
CONSTANTS
  Calls = {c1, c2}
  MaxSeq = 6
  MaxStops = 2
  CanTimeOut = TRUE
  CanExit = TRUE
  CanGarble = FALSE
SYMMETRY CallSymmetry
CHECK_DEADLOCK FALSE
INVARIANTS
  TypeOK
  FreshStop
  NoFalseStop
  NoWaitOnDeadAdapter
