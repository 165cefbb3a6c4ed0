CONSTANTS
  t1 = t1
  t2 = t2
  t3 = t3
  Task = {t1, t2, t3}
  Kernel = Kernel
  Stubborn = 2
SPECIFICATION Spec
PROPERTIES NothingSurvives
CHECK_DEADLOCK FALSE
