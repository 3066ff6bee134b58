SPECIFICATION Spec
CONSTANTS
  Threads = {t, u}
  Loops = {loop, other}
  Keys = {k}
  Durations = {0, 1}
  MaxEntries = 2
  MaxTimers = 2
  MaxGets = 1
  Nobody = Nobody
INVARIANTS Inv DestroyedQuiet
PROPERTIES NoneEarly Live
CHECK_DEADLOCK FALSE
