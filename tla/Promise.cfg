SPECIFICATION Spec
CONSTANTS
  t1 = t1  t2 = t2  a = a  b = b  third = third  l = l  q = q  v = v  w = w
  userA = userA  waitQ = waitQ  allThird = allThird  allB = allB
  chainA = chainA  innerL = innerL  
  Threads = {t1, t2}
  Promises = {a, b, third, l, q}
  Values = {v, w}
  Callbacks = {userA, waitQ, allThird, allB, chainA, innerL}
  On <- MCOn
  Kind <- MCKind
  Target <- MCTarget
  Inner <- MCInner
  Timed = {}
  Moved = Moved
  List = List
  Nothing = Nothing
INVARIANTS OneTaker AllComplete WaitIsSafe
PROPERTIES Served
CHECK_DEADLOCK FALSE
