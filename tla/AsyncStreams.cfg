SPECIFICATION StreamsSpec
CONSTANTS
  Callers = {a, b}
  Workers = {v, w}
  Requests = {r1, r2}
  Full = {r1}
  Timed = {r2}
  Size = 2
  Nobody = Nobody
  IoCallers = {a, b}
  Loop = loopThread
  IoRequests = {r1}
  Dir <- MCDir
  MaxCalls = 2
  Io = io
  Body = bodies
  MaxPieces = 3
  BufferCount = 2
  BufferSize = 2
  Width = 16
  Totals = {3, 15}
  FileFails = TRUE
  CopyLength = 5
  MaxRequests = 3
  Sizes = {1, 2}
  FilterFull = {2}
  SourceFails = TRUE
  MaxChunk = 3
  ContentLengths = {None, 3}
  None = None
  FilterLength = 4
  CR = CR
  LF = LF
  Zero = Zero
  Other = Other
  HeaderLength = 7
  Base = 3
  Digits = 2
  MaxChunks = 2
  Chunks <- MCChunks
  Trailers <- MCTrailers
  Rests <- MCRests
INVARIANTS DoneInOrder AnsweredTruly QueuedIsProcessed OutputInv CompleteIsAll EmbraceIsClose CopyInv EndMeansDone FilterInv HttpReads
PROPERTIES StreamsServe
CHECK_DEADLOCK FALSE
