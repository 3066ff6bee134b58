SPECIFICATION Spec
CONSTANTS
  c1 = c1  c2 = c2  l1 = l1  l2 = l2  t1 = t1  t2 = t2
  Callers = {c1, c2}
  Loops = {l1}
  Tasks = {t1, t2}
  Delays = {}
  MaxWait = 1
  MaxTime = 0
  Nobody = Nobody
PROPERTIES LoopServes
