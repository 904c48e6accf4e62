CONSTANTS
  Deliveries = {d1, d2}
  Keys = {k1, k2}
  TTLs = {0, 1, 2}
  MaxClock = 4
  NoKey = NoKey
SPECIFICATION Spec
SYMMETRY MCSymmetry
PROPERTIES
  NewOnlyAfterExpiry
  DuplicateHasOriginal
CHECK_DEADLOCK FALSE
