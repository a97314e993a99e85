SPECIFICATION FairSpec
CONSTANTS
  Job = {j1}
  NoRow = NoRow
  DbFails = FALSE
  MaxStops = 0
PROPERTY RunsSettle
