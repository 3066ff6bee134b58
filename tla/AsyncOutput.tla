---------------------------- MODULE AsyncOutput ----------------------------
(***************************************************************************)
(* AsyncOutput: a queue of headers (memory) and bodies (streams) that is   *)
(* written to one stream, in order, headers in pieces and each body by an  *)
(* AsyncCopy.  The program queues and starts from its threads; the stream  *)
(* answers on its own thread, and a body's stream on another.              *)
(*                                                                         *)
(* The object and every copy have a lock, which a thread may take again.   *)
(* A copy calls onAsyncCopyEnd() with its lock held.  A section under the  *)
(* object's lock is one step, up to a call that needs another lock or that *)
(* calls the program.  Of a copy, which AsyncCopy models, only what its    *)
(* end depends on is kept: a body is one piece, read and then written.     *)
(***************************************************************************)
EXTENDS Integers, Sequences, FiniteSets

CONSTANTS
    Callers,    \* the program's threads
    Io,         \* the thread the stream answers on
    Body,       \* the thread the bodies' streams answer on
    MaxPieces,  \* bound: pieces the program ever queues
    Nobody

Threads == Callers \cup {Io, Body}

\* The assumption on the constants.
ConstantsAssumption ==
    /\ Io \notin Callers /\ Body \notin Callers /\ Io # Body
    /\ Nobody \notin Threads /\ MaxPieces \in Nat

VARIABLES
    queueOutput,    \* m_queueOutput
    elementWriting, \* m_elementWriting
    flagWriting, flagClosed,
    copy,           \* m_copy: the body it copies, or NoBody
    creating,       \* the copy that ended within create(), and is m_copy after that
    stage,          \* of the copy of each body: created, then what it waits for
    lock, copyLock, \* who has the object's lock, and each copy's
    atStream,       \* the write on its way at the stream
    pc, arg,        \* the step a thread is at, and the flag it has at hand
    pieces,         \* how many pieces were queued
    sent, failed    \* the pieces the stream wrote; whether anything failed

output == <<queueOutput, elementWriting, flagClosed>>
copies == <<copy, creating, stage>>
locks == <<lock, copyLock>>
threads == <<pc, arg>>
history == <<sent, failed>>
vars == <<output, flagWriting, copies, locks, atStream, threads, pieces, history>>

Pieces == 1 .. MaxPieces
NoBody == 0

\* The pieces of memory, and the body.
Elements == [header : Seq(Pieces), body : Pieces \cup {NoBody}]
NoElement == [header |-> <<>>, body |-> NoBody]

Init ==
    /\ queueOutput = <<>> /\ elementWriting = NoElement
    /\ flagWriting = FALSE /\ flagClosed = FALSE /\ copy = NoBody /\ creating = NoBody
    /\ stage = [b \in Pieces |-> "none"]
    /\ lock = Nobody /\ copyLock = [b \in Pieces |-> Nobody]
    /\ atStream = <<>>
    /\ pc = [t \in Threads |-> "outside"] /\ arg = [t \in Threads |-> FALSE]
    /\ pieces = 0 /\ sent = <<>> /\ failed = FALSE

Go(t, from, to, flag) ==
    /\ pc[t] = from /\ pc' = [pc EXCEPT ![t] = to] /\ arg' = [arg EXCEPT ![t] = flag]

Free(t) == lock \in {Nobody, t}
CopyFree(t, b) == copyLock[b] \in {Nobody, t}

\* The thread returns from all it has called; m_copy is then c, or what create() gave.
Leave(t, c) ==
    /\ pc' = [pc EXCEPT ![t] = "outside"] /\ arg' = [arg EXCEPT ![t] = FALSE]
    /\ lock' = IF lock = t THEN Nobody ELSE lock
    /\ copyLock' = [b \in Pieces |-> IF copyLock[b] = t THEN Nobody ELSE copyLock[b]]
    /\ IF lock = t /\ creating # NoBody THEN copy' = creating /\ creating' = NoBody
                                     ELSE copy' = c /\ UNCHANGED creating

-----------------------------------------------------------------------------
(* Queueing: AsyncOutputBuffer                                             *)

\* write(): memory goes to the last element while that has no body.
Write ==
    LET last == Len(queueOutput) IN
    /\ pieces < MaxPieces /\ pieces' = pieces + 1 /\ lock = Nobody
    /\ queueOutput' =
          IF last > 0 /\ queueOutput[last].body = NoBody
          THEN [queueOutput EXCEPT ![last].header = Append(@, pieces + 1)]
          ELSE Append(queueOutput, [header |-> <<pieces + 1>>, body |-> NoBody])
    /\ UNCHANGED <<elementWriting, flagClosed, flagWriting, copies, locks, atStream, threads, history>>

\* copyFrom(): and so does a stream.
CopyFrom ==
    LET last == Len(queueOutput) IN
    /\ pieces < MaxPieces /\ pieces' = pieces + 1 /\ lock = Nobody
    /\ queueOutput' =
          IF last > 0 /\ queueOutput[last].body = NoBody
          THEN [queueOutput EXCEPT ![last].body = pieces + 1]
          ELSE Append(queueOutput, [header |-> <<>>, body |-> pieces + 1])
    /\ UNCHANGED <<elementWriting, flagClosed, flagWriting, copies, locks, atStream, threads, history>>

\* The elements of another buffer, here a header and its body.
MergeBuffer ==
    /\ pieces + 2 <= MaxPieces /\ pieces' = pieces + 2 /\ lock = Nobody
    /\ queueOutput' = Append(queueOutput, [header |-> <<pieces + 1>>, body |-> pieces + 2])
    /\ UNCHANGED <<elementWriting, flagClosed, flagWriting, copies, locks, atStream, threads, history>>

-----------------------------------------------------------------------------
(* Writing                                                                 *)
StartWriting(t) ==
    /\ t \in Callers /\ Go(t, "outside", "_write", FALSE)
    /\ UNCHANGED <<output, flagWriting, copies, locks, atStream, pieces, history>>

\* The element to go on with, and the queue behind it; no element in the queue is empty.
Current == IF elementWriting # NoElement \/ queueOutput = <<>> THEN elementWriting ELSE Head(queueOutput)
Behind == IF elementWriting # NoElement \/ queueOutput = <<>> THEN queueOutput ELSE Tail(queueOutput)

\* _write() has nothing to do, or must not.
WriteNothing(t) ==
    /\ pc[t] = "_write" /\ Free(t)
    /\ flagClosed \/ flagWriting \/ (Current = NoElement /\ ~arg[t])
    /\ Leave(t, copy)
    /\ UNCHANGED <<output, flagWriting, stage, atStream, pieces, history>>

\* Faulty variant: does not see the write another thread began.
WriteComplete_Blind(t) ==
    /\ Free(t) /\ ~flagClosed /\ Current = NoElement
    /\ arg[t] /\ Go(t, "_write", "onEnd", FALSE) /\ lock' = t
    /\ UNCHANGED <<output, flagWriting, copies, copyLock, atStream, pieces, history>>

\* Everything is written, and _write() comes from the end of a write.
WriteComplete(t) ==
    /\ Free(t) /\ ~flagClosed /\ ~flagWriting /\ Current = NoElement
    /\ arg[t] /\ Go(t, "_write", "onEnd", FALSE) /\ lock' = t
    /\ UNCHANGED <<output, flagWriting, copies, copyLock, atStream, pieces, history>>

\* The stream takes the piece, or refuses: onWriteStream() then runs within write().
WriteHeader(t) ==
    LET header == Current.header IN
    /\ Free(t) /\ ~flagClosed /\ ~flagWriting /\ pc[t] = "_write" /\ header # <<>>
    /\ queueOutput' = Behind
    /\ elementWriting' = [Current EXCEPT !.header = Tail(@)]
    /\ \/ /\ flagWriting' = TRUE /\ atStream' = Append(atStream, Head(header)) /\ Leave(t, copy)
          /\ UNCHANGED history
       \/ /\ Go(t, "_write", "onEnd", TRUE) /\ lock' = t /\ failed' = TRUE
          /\ UNCHANGED <<flagWriting, atStream, copy, creating, copyLock, sent>>
    /\ UNCHANGED <<flagClosed, stage, pieces>>

\* Faulty variant: m_flagWriting is left as it is.
WriteBody_NoFlag(t) ==
    LET b == Current.body IN
    /\ Free(t) /\ ~flagClosed /\ ~flagWriting /\ pc[t] = "_write" /\ Current.header = <<>> /\ b # NoBody
    /\ queueOutput' = Behind /\ elementWriting' = NoElement
    /\ stage' = [stage EXCEPT ![b] = "reading"] /\ Leave(t, b)
    /\ UNCHANGED <<flagClosed, flagWriting, atStream, pieces, history>>

\* Faulty variant: closes the copy before first.
WriteBody_ClosesLast(t) ==
    LET b == Current.body IN
    /\ Free(t) /\ ~flagClosed /\ ~flagWriting /\ pc[t] = "_write" /\ Current.header = <<>> /\ b # NoBody
    /\ IF copy # NoBody
       THEN /\ Go(t, "_write", "copy->close", FALSE) /\ lock' = t
            /\ UNCHANGED <<output, flagWriting, copies, copyLock>>
       ELSE /\ queueOutput' = Behind /\ elementWriting' = NoElement /\ flagWriting' = TRUE
            /\ stage' = [stage EXCEPT ![b] = "reading"] /\ Leave(t, b) /\ UNCHANGED flagClosed
    /\ UNCHANGED <<atStream, pieces, history>>

\* A copy is made of the body.  Its first read may be refused: it then ends, and calls
\* onAsyncCopyEnd(), before create() returns.
WriteBody(t) ==
    LET b == Current.body IN
    /\ Free(t) /\ ~flagClosed /\ ~flagWriting /\ pc[t] = "_write" /\ Current.header = <<>> /\ b # NoBody
    /\ queueOutput' = Behind /\ elementWriting' = NoElement
    /\ \/ /\ flagWriting' = TRUE /\ stage' = [stage EXCEPT ![b] = "reading"] /\ Leave(t, b)
          /\ UNCHANGED failed
       \/ /\ Go(t, "_write", "onEnd", TRUE) /\ lock' = t
          /\ stage' = [stage EXCEPT ![b] = "ended"] /\ creating' = b /\ failed' = TRUE
          /\ UNCHANGED <<flagWriting, copy, copyLock>>
    /\ UNCHANGED <<flagClosed, atStream, pieces, sent>>

\* m_flagWriting is cleared without the lock, then _write() takes it.
OnWriteStream(t) ==
    /\ pc[t] = "onWriteStream" /\ flagWriting' = FALSE
    /\ IF arg[t] THEN Go(t, "onWriteStream", "onEnd", TRUE) ELSE Go(t, "onWriteStream", "_write", TRUE)
    /\ UNCHANGED <<output, copies, locks, atStream, pieces, history>>

\* Faulty variant: clears m_flagWriting when _write() is done.
OnAsyncCopyEnd_Late(t) ==
    /\ pc[t] = "onAsyncCopyEnd" /\ UNCHANGED flagWriting
    /\ IF arg[t] THEN Go(t, "onAsyncCopyEnd", "onEnd", TRUE) ELSE Go(t, "onAsyncCopyEnd", "_write", TRUE)
    /\ UNCHANGED <<output, copies, locks, atStream, pieces, history>>

OnAsyncCopyEnd(t) ==
    /\ pc[t] = "onAsyncCopyEnd" /\ flagWriting' = FALSE
    /\ IF arg[t] THEN Go(t, "onAsyncCopyEnd", "onEnd", TRUE) ELSE Go(t, "onAsyncCopyEnd", "_write", TRUE)
    /\ UNCHANGED <<output, copies, locks, atStream, pieces, history>>

\* m_onEnd of the program returns, or closes the output.
OnEnd(t) ==
    /\ pc[t] = "onEnd"
    /\ \/ Leave(t, copy)
       \/ Go(t, "onEnd", "close", FALSE) /\ UNCHANGED <<copy, creating, locks>>
    /\ UNCHANGED <<output, flagWriting, stage, atStream, pieces, history>>

-----------------------------------------------------------------------------
(* close()                                                                 *)
CallClose(t) ==
    /\ t \in Callers /\ Go(t, "outside", "close", FALSE)
    /\ UNCHANGED <<output, flagWriting, copies, locks, atStream, pieces, history>>

Close(t) ==
    /\ pc[t] = "close" /\ Free(t)
    /\ flagClosed' = TRUE
    /\ IF flagClosed \/ copy = NoBody
       THEN Leave(t, copy)
       ELSE Go(t, "close", "copy->close", FALSE) /\ lock' = t /\ UNCHANGED <<copy, creating, copyLock>>
    /\ UNCHANGED <<queueOutput, elementWriting, flagWriting, stage, atStream, pieces, history>>

\* A copy that runs ends with what it did, and onAsyncCopyEnd() calls the program.
CloseCopy(t) ==
    /\ pc[t] = "copy->close" /\ CopyFree(t, copy)
    /\ IF stage[copy] = "ended"
       THEN Leave(t, NoBody) /\ UNCHANGED <<flagWriting, stage, failed>>
       ELSE /\ stage' = [stage EXCEPT ![copy] = "ended"] /\ flagWriting' = FALSE /\ failed' = TRUE
            /\ Go(t, "copy->close", "onEnd", TRUE) /\ copyLock' = [copyLock EXCEPT ![copy] = t]
            /\ copy' = NoBody /\ UNCHANGED <<creating, lock>>
    /\ UNCHANGED <<output, atStream, pieces, sent>>

-----------------------------------------------------------------------------
(* The streams answer                                                      *)
Running(b) == stage[b] \in {"reading", "writing"}

\* The body's stream, to the copy: data, which the copy writes, or nothing.
BodyRead(b) ==
    /\ pc[Body] = "outside" /\ stage[b] = "reading" /\ copyLock[b] = Nobody
    /\ \/ /\ stage' = [stage EXCEPT ![b] = "writing"] /\ atStream' = Append(atStream, b)
          /\ UNCHANGED <<threads, copyLock, failed>>
       \/ /\ stage' = [stage EXCEPT ![b] = "ended"] /\ copyLock' = [copyLock EXCEPT ![b] = Body]
          /\ Go(Body, "outside", "onAsyncCopyEnd", TRUE) /\ failed' = TRUE
          /\ UNCHANGED atStream
    /\ UNCHANGED <<output, flagWriting, copy, creating, lock, pieces, sent>>

\* The stream, to the copy.  One that was closed takes no notice.
BodyWritten(ok) ==
    LET b == Head(atStream) IN
    /\ atStream # <<>> /\ pc[Io] = "outside" /\ stage[b] # "none" /\ copyLock[b] = Nobody
    /\ atStream' = Tail(atStream)
    /\ sent' = IF ok THEN Append(sent, b) ELSE sent
    /\ failed' = (failed \/ ~ok)
    /\ IF stage[b] = "writing"
       THEN /\ stage' = [stage EXCEPT ![b] = "ended"] /\ copyLock' = [copyLock EXCEPT ![b] = Io]
            /\ Go(Io, "outside", "onAsyncCopyEnd", ~ok)
       ELSE UNCHANGED <<stage, copyLock, threads>>
    /\ UNCHANGED <<output, flagWriting, copy, creating, lock, pieces>>

\* The stream, to the output.
HeaderWritten(ok) ==
    LET h == Head(atStream) IN
    /\ atStream # <<>> /\ stage[h] = "none"
    /\ Go(Io, "outside", "onWriteStream", ~ok)
    /\ atStream' = Tail(atStream)
    /\ sent' = IF ok THEN Append(sent, h) ELSE sent
    /\ failed' = (failed \/ ~ok)
    /\ UNCHANGED <<output, flagWriting, copies, locks, pieces>>

-----------------------------------------------------------------------------
Queueing == Write \/ CopyFrom \/ MergeBuffer
GoOn(t) == WriteNothing(t) \/ WriteComplete(t) \/ WriteHeader(t) \/ WriteBody(t) \/ OnWriteStream(t)
           \/ OnAsyncCopyEnd(t) \/ OnEnd(t) \/ Close(t) \/ CloseCopy(t)
Answer == (\E b \in Pieces : BodyRead(b)) \/ (\E ok \in BOOLEAN : BodyWritten(ok) \/ HeaderWritten(ok))

Next == Queueing \/ Answer \/ \E t \in Threads : StartWriting(t) \/ CallClose(t) \/ GoOn(t)

\* A thread goes on with what it has begun, and the streams answer.
Fairness == WF_vars(Answer) /\ \A t \in Threads : WF_vars(GoOn(t))

Spec == Init /\ [][Next]_vars /\ Fairness

-----------------------------------------------------------------------------
Steps == {"outside", "_write", "onWriteStream", "onAsyncCopyEnd", "onEnd", "close", "copy->close"}

TypeOK ==
    /\ queueOutput \in Seq(Elements) /\ elementWriting \in Elements
    /\ flagWriting \in BOOLEAN /\ flagClosed \in BOOLEAN /\ {copy, creating} \subseteq Pieces \cup {NoBody}
    /\ stage \in [Pieces -> {"none", "reading", "writing", "ended"}]
    /\ lock \in Threads \cup {Nobody} /\ copyLock \in [Pieces -> Threads \cup {Nobody}]
    /\ atStream \in Seq(Pieces) /\ sent \in Seq(Pieces) /\ failed \in BOOLEAN
    /\ pc \in [Threads -> Steps] /\ arg \in [Threads -> BOOLEAN] /\ pieces \in 0 .. MaxPieces

\* Although m_flagWriting is cleared without the lock, the stream never has two writes,
\* two copies never run at once, and no header is written while one does.
OneWriter ==
    ~flagClosed =>
        /\ Len(atStream) <= 1
        /\ Cardinality({b \in Pieces : Running(b)}) <= 1
        /\ atStream # <<>> /\ stage[Head(atStream)] = "none" => \A b \in Pieces : ~Running(b)

\* What the program queued goes out in that order with nothing left out, until something
\* fails or the output is closed.
SentInOrder == ~failed => sent = [i \in 1 .. Len(sent) |-> i]

\* The three together: the stream has one write at a time, in the order of the queue.
Inv == TypeOK /\ OneWriter /\ SentInOrder

\* When the program is told that the output ended without error, all it queued was sent.
CompleteIsAll ==
    \A t \in Threads : pc[t] = "onEnd" /\ ~arg[t] /\ ~failed => Len(sent) = pieces

\* t waits for a lock that u has.
WaitsFor(t, u) ==
    \/ pc[t] \in {"_write", "close"} /\ lock = u
    \/ pc[t] = "copy->close" /\ copyLock[copy] = u

\* Two threads wait for each other only when one closes the output, which takes the two
\* locks in the other order: from outside the callbacks, or after a failure.  A program
\* that closes only in onEnd and only once all was sent never meets it.
EmbraceIsClose ==
    \A t, u \in Threads : t # u /\ WaitsFor(t, u) /\ WaitsFor(u, t) =>
        \E c \in {t, u} : pc[c] = "copy->close" /\ flagClosed /\ (c \in Callers \/ failed)

\* Every write leads to a call of onEnd, unless the output is closed.
EndIsTold == flagWriting ~> (flagClosed \/ \E t \in Threads : pc[t] = "onEnd")
=============================================================================
