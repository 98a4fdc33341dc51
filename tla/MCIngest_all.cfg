SPECIFICATION Spec
CONSTANTS
  x1 = x1
  x2 = x2
  x3 = x3
  x4 = x4
  r1 = r1
  r2 = r2
  r3 = r3
  r4 = r4
  k1 = k1
  k2 = k2
  Event = {x1, x2, x3, x4}
  Request = {r1, r2, r3, r4}
  Key = {k1, k2}
  NoKey = NoKey
  KeysOf <- MCKeysOf
  Matched = {x1, x2}
  Informational = {x4}
  Milestones = {1, 3}
  NoEvent = NoEvent
  MaxFaults = 1
INVARIANTS
  OneOpenPerKey
  MilestonesDispatched
  DuplicateHasOriginal
SYMMETRY Symmetry
CHECK_DEADLOCK FALSE
