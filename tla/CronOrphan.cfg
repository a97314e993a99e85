SPECIFICATION Spec
CONSTANTS
  Request = {q1, q2, q3}
  Dag = {d1, d2}
  Expr = {e1, e2}
  Keep = Keep
  MaxVersion = 3
SYMMETRY Symmetry
CHECK_DEADLOCK FALSE
INVARIANT NoOrphanEntry
