SPECIFICATION PerfSpec
CONSTANTS
  MaxDay = 2
  MaxRec = 1
  Job = {j1}
  Horizon <- Near
  Lookback = 7
  Fails = FALSE
  Tables <- Empty
SYMMETRY Passes
CHECK_DEADLOCK FALSE
INVARIANT FallsBackToRule
