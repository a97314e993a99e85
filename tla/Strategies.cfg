SPECIFICATION MCSpec
CONSTANTS
  Request = {q1, q2, q3}
  Dag = {d1, d2}
  Expr = {e1, e2}
  Keep = Keep
  MaxVersion = 3
  Client = {"c", "d"}
  Name = {"x", "y"}
  Code = {}
  Text <- Texts
  MaxStrategy = 1
  Template = {2, 3}
  Bundled = {2}
  BundledText <- First
  MaxSecond = 1
SYMMETRY Symmetry
CHECK_DEADLOCK FALSE
INVARIANTS
  DagOfCurrentVersion
  SerialInSync
  CopiesFaithful
  GalleryServes
PROPERTIES
  LinearUnlessOutdated
  ApplyKeepsRest
