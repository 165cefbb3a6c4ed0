CONSTANTS
  t1 = t1
  t2 = t2
  t3 = t3
  Task = {t1}
  Kernel = Kernel
  Stubborn = 3
SPECIFICATION FairSpec

PROPERTIES DrainCompletes
CHECK_DEADLOCK FALSE
