SPECIFICATION Spec
CONSTANTS
  Sender = {"notify"}
  Channel = {"feishu", "wecom", "dingtalk"}
  Configured <- NoneOneTwo
  Primary = "feishu"
  Fallback <- FeishuTwice
  Attempts = 2
  Node <- Names
  Scenarios <- OnlyValue
  Clock <- Noon
INVARIANT PicksPassEveryFilter
