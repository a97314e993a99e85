SPECIFICATION MCSpec
CONSTANTS
  Caller = {c1, c2}
  Job = {j1, j2}
  Chain <- TwoSources
  Threshold = 2
  Window = 2
  Cooldown = 2
  QuoteTTL = 1
  MaxCall = 1
  MaxTime = 4
  MaxDay = 2
  MaxRec = 1
  Horizon <- NearAndFar
  Lookback = 2
  Fails = TRUE
  Tables <- FullTable
SYMMETRY Alike
CHECK_DEADLOCK FALSE
INVARIANTS
  OneProbe
  QuoteFresh
  ClosesOwnDay
PROPERTIES
  StaysOpen
  TripsOnBurst
  BackfillAddsOnly
  PassCovers
