SPECIFICATION Spec
CONSTANTS
  i1 = i1 i2 = i2 t1 = t1 t2 = t2 because = because
  None = None
  Items = {i1, i2}
  Threads = {t1, t2}
  Reasons = {because}
  MaxTime = 2
  MaxHistory = 3
SYMMETRY Symmetry
INVARIANTS HistoriesArePaths WhatIsWrittenCanBeRead
PROPERTY HistoryOnlyGrows
CHECK_DEADLOCK FALSE
