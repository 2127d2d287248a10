SPECIFICATION Spec
CONSTANTS
  Threads = {t1, t2}
  Kinds = {k1, k2}
  Prewarms = {TRUE, FALSE}
INVARIANTS
  TypeOK
  HandlesMatchDriver
  ChildrenGone
  OnlyDriverFails
