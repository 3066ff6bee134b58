SPECIFICATION Spec
CONSTANTS
  c1 = c1  r1 = r1  r2 = r2
  Callers = {c1}
  Loop = Loop
  Requests = {r1, r2}
  Dir <- MCDir
  Timed = {r1}
  Full = {r1}
  MaxTasks = 1
  MaxCalls = 3
  Nobody = Nobody
INVARIANTS Inv NeverOversleeps AnsweredOnce
CHECK_DEADLOCK FALSE
