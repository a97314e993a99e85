SPECIFICATION MCSpec
CONSTANTS
  Job = {j1, j2}
  NoRow = NoRow
  DbFails = TRUE
  MaxStops = 1
  Run = {r1, r2}
  Publisher = {p1, p2}
  Stream = {s1, s2}
  ChanSize = 2
  MaxEvents = 2
  NoRun = NoRun
CHECK_DEADLOCK FALSE
INVARIANTS
  AnnouncedAgrees
  WalkAnnounced
  TimelySaved
  NoSendOnClosed
  InOrder
  Accounted
PROPERTIES
  RowsFinal
  JobsEnd
  PublishReturns
