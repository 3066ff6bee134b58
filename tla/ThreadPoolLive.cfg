SPECIFICATION Spec
CONSTANTS
  c1 = c1  c2 = c2  w1 = w1  w2 = w2  w3 = w3  t1 = t1  t2 = t2  t3 = t3
  Callers = {c1}
  Workers = {w1, w2}
  Tasks = {t1, t2}
  Minimums = {0, 1}
  Maximums = {1}
  Recurring = FALSE
  StartMayFail = FALSE
  Nobody = Nobody
PROPERTIES TasksServed ReleaseReturns
