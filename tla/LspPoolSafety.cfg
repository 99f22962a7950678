\* Two tool calls and the reaper, up to two clients for one workspace at once.
SPECIFICATION Spec
CONSTANTS
  Keys = {k1}
  Calls = {a1, a2}
  Reaper = reaper
  Slots = {s1, s2}
  None = none
  MaxRequests = 1
SYMMETRY PoolSymmetry
INVARIANTS
  TypeOK
  NoWaitOnDead
  EvictedIsForgotten
  NoStrayServer
