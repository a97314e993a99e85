SPECIFICATION PerfSpec
CONSTANTS
  MaxDay = 1
  MaxRec = 1
  Job = {j1, j2}
  Horizon <- NearAndFar
  Lookback = 7
  Fails = FALSE
  Tables <- Full
SYMMETRY Passes
CHECK_DEADLOCK FALSE
INVARIANT CloseRecorded
