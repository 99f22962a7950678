\* The functions that keep no state, on small inputs.
SPECIFICATION Spec
CONSTANTS
  None = None
  TestPaths = {"tests"}
  TestNames = {"test_t"}
INVARIANTS
  AnswersAreExact
  EditsAreExact
  SetupHolds
  NestingKeepsClass
  OutputIsRead
