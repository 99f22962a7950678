\* One tool call and the reaper; servers may fall silent or die.
SPECIFICATION FairSpec
CONSTANTS
  Keys = {k1}
  Calls = {a1}
  Reaper = reaper
  Slots = {s1, s2}
  None = none
  MaxRequests = 1
PROPERTIES
  CallReturns
  EvictedServerEnds
