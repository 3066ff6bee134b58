SPECIFICATION TimerSpec
CONSTANTS
  c1 = c1  c2 = c2
  Callers = {c1, c2}
  Loop = Loop
  Loops = {Loop}
  Tasks = {}
  Delays = {1}
  MaxWait = 1
  MaxTime = 0
  MaxConcurrent = 1
  MaxEntries = 2
  Nobody = Nobody
INVARIANTS StartedIsQueued QuietAfterStopAndWait
PROPERTIES StopAndWaitReturns
CHECK_DEADLOCK FALSE
