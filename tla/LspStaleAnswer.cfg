\* A query beside a call that is late to tell the server what it has read.
SPECIFICATION Spec
CONSTANTS
  Calls = {c1, c2}
  Files = {f1, f2}
  None = none
  MaxDocs = 1
  MaxOutside = 1
SYMMETRY DocsSymmetry
INVARIANT
  QuerySeesPresent
