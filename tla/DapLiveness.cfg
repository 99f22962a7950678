\* An adapter that may exit, fall silent or garble its output.
SPECIFICATION FairSpec
CONSTANTS
  Calls = {c1}
  MaxSeq = 6
  MaxStops = 2
  CanTimeOut = TRUE
  CanExit = TRUE
  CanGarble = TRUE
CHECK_DEADLOCK FALSE
PROPERTIES
  CallReturns
  TerminateKills
