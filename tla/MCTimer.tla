------------------------------ MODULE MCTimer ------------------------------
(***************************************************************************)
(* Timer for TLC and for the proofs, beside the DispatchLoop whose thread  *)
(* runs it; what DispatchLoop describes keeps its initial state.  The      *)
(* thread of the loop is the one that stands for it in Timer, and two      *)
(* callers start and stop the timer.                                       *)
(***************************************************************************)
EXTENDS DispatchLoop

CONSTANTS c1, c2, Loop, MaxConcurrent, MaxEntries

VARIABLES flagStarted, nCountRun, entries, timerHolder, timerPc, inside, quiet

T == INSTANCE Timer WITH holder <- timerHolder, pc <- timerPc

ASSUME TimerAssumption == Loop \in Loops /\ T!ConstantsAssumption

TimerSpec ==
    /\ Init /\ T!Init
    /\ [][T!Next /\ UNCHANGED vars]_<<vars, T!vars>>
    /\ T!Fairness

-----------------------------------------------------------------------------
\* run() never has more threads inside the task than the timer allows.
RunsLimited == T!RunsLimited

\* A timer that is started and that nobody is starting or stopping is in the loop's queue.
StartedIsQueued == T!StartedIsQueued

\* After stopAndWait() no run of the task is in progress until the next start.
QuietAfterStopAndWait == T!QuietAfterStopAndWait

\* stopAndWait() returns, unless the task that it waits for is what called it.
StopAndWaitReturns == T!StopAndWaitReturns
=============================================================================
