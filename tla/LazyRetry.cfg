SPECIFICATION Spec
CONSTANTS
  Threads = {t1, t2}
  Kinds = {k1}
  Prewarms = {TRUE}
INVARIANT RetriesLazily
