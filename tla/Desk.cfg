SPECIFICATION MCSpec
CONSTANTS
  Sender = {"notify"}
  Channel = {"feishu", "wecom", "dingtalk"}
  Configured <- NoneOneTwo
  Primary = "feishu"
  Fallback <- FeishuTwice
  Attempts = 2
  Node <- Names
  Scenarios <- Worked
  Clock <- Noon
  Page = {p1, p2}
  Report = {r1}
  Key = {k1, k2}
  NoKey = NoKey
  Older <- Never
  ConfigChain <- NoChain
  Room = 1
  MaxId = 2
  Faulty = TRUE
  Request = {q1, q2, q3}
  Cost = {0, 1, 2}
  Quantity = {1, 2}
  Price = {0, 1, 2}
  MaxPosition = 2
  Rec = {x1, x2}
  Label = {1, 2}
  EntryPrice = 2
  ClosePrice = {1, 2, 3}
  Unit = 6
  Size = {1, 2}
  Farthest = 2
  Nil = Nil
SYMMETRY Alike
CHECK_DEADLOCK FALSE
INVARIANTS
  TypesOK
  PicksAreABranchsBest
  PersistAllOrNothing
  SessionAgrees
  NoNeedlessRepeat
  ChannelsInTurn
  KeptKeyIsShown
  LiveIsTable
  PagesCover
  FiguresTrue
  FallsThrough
PROPERTY EditsOwnPosition
