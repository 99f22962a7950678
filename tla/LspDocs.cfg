\* Two calls and one other writer; one document may be open at a time.
SPECIFICATION Spec
CONSTANTS
  Calls = {c1, c2}
  Files = {f1, f2}
  None = none
  MaxDocs = 1
  MaxOutside = 1
SYMMETRY DocsSymmetry
INVARIANTS
  TypeOK
  OpenBound
  ServerFollows
  AnswerNotOlder
  AloneIsExact
