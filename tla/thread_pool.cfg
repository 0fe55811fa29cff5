SPECIFICATION FairSpec
CONSTANTS
  c1 = c1 c2 = c2 c3 = c3 o1 = o1
  Creations = {c1, c2, c3}
  Others = {o1}
  Threads = 3
PROPERTY EveryRequestIsAnswered
CHECK_DEADLOCK FALSE
