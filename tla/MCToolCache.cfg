SPECIFICATION FairSpec
CONSTANTS
  e1 = e1
  e2 = e2
  w1 = w1
  w2 = w2
  w3 = w3
  l1 = l1
  Env = {e1, e2}
  Wrapped = {w1, w2, w3}
  Legacy = {l1}
  Collectors = {g1, g2}
  Needs <- MCNeeds
  MaxFaults = 2
INVARIANTS
  UsedIsWhole
  BuildIsKept
PROPERTIES
  JobsEnd
CHECK_DEADLOCK FALSE
