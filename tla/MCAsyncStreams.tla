--------------------------- MODULE MCAsyncStreams ---------------------------
(***************************************************************************)
(* One run for the parts an asynchronous stream is made of: the simulator  *)
(* of a stream over a blocking file, the loop with a stream that is closed,*)
(* the copy, the output, the filter, and the readers of an HTTP request's  *)
(* header and of a chunked content.  In a behaviour one of them acts, named*)
(* by part; the others stay in their initial state, so that the states are *)
(* those of the parts side by side and not their product.                  *)
(***************************************************************************)
EXTENDS AsyncStreamSimulator

CONSTANTS
    IoCallers, Loop, IoRequests, Dir, MaxCalls,                      \* AsyncIoLoop
    Io, Body, MaxPieces,                                            \* AsyncOutput
    BufferCount, BufferSize, Width, Totals, FileFails, CopyLength,  \* AsyncCopy
    MaxRequests, Sizes, FilterFull, MaxChunk, SourceFails,          \* AsyncStreamFilter
    ContentLengths, None, FilterLength,
    CR, LF, Zero, Other, HeaderLength,                              \* HttpHeaderReader
    Base, Digits, MaxChunks, Chunks, Trailers, Rests                \* ChunkedReader

VARIABLE part

\* AsyncIoLoop
VARIABLES loop, queueTasks, queueOrder, queueClosing, instance, ioOpened, closer, slot, held,
          ready, pending, wake, ioPc, ioReq, pass, timer, expired, finished, ioHistory
\* AsyncOutput
VARIABLES queueOutput, elementWriting, flagWriting, flagClosed, bodyCopy, creating, stage,
          lock, copyLock, atStream, threadPc, arg, pieces, sent, failed
\* AsyncCopy
VARIABLES copy, atSource, atTarget, out
\* AsyncStreamFilter
VARIABLES contentLength, requestsRead, buf, count, flags, below, frames, size, given, passed, broken,
          got, answers, refused, nested, completions
\* HttpHeaderReader
VARIABLES input, added, last, piece, end
\* ChunkedReader
VARIABLES body, pos, chunkPiece, state, chunkSize, read, field, output, decoded, outcome

IoLoop == INSTANCE AsyncIoLoop WITH
    Callers <- IoCallers, Requests <- IoRequests, Timed <- {}, Full <- {}, MaxTasks <- 0,
    opened <- ioOpened, pc <- ioPc, req <- ioReq, history <- ioHistory

Output == INSTANCE AsyncOutput WITH copy <- bodyCopy, pc <- threadPc

Copy == INSTANCE AsyncCopy WITH SourceLength <- CopyLength

Filter == INSTANCE AsyncStreamFilter WITH
    Full <- FilterFull, SourceLength <- FilterLength, atSource <- below, calls <- answers

Header == INSTANCE HttpHeaderReader WITH Length <- HeaderLength

Chunked == INSTANCE ChunkedReader WITH
    piece <- chunkPiece, size <- chunkSize, given <- decoded

ASSUME OutputAssumption == Output!ConstantsAssumption
ASSUME CopyAssumption == Copy!ConstantsAssumption
ASSUME FilterAssumption == Filter!ConstantsAssumption
ASSUME HeaderAssumption == Header!ConstantsAssumption
ASSUME ChunkedAssumption == Chunked!ConstantsAssumption

-----------------------------------------------------------------------------
simulator == <<queue, opened, dispatcher, threads, request, history>>
ioVars == <<loop, queueTasks, queueOrder, queueClosing, instance, ioOpened, closer, slot, held,
            ready, pending, wake, ioPc, ioReq, pass, timer, expired, finished, ioHistory>>
outputVars == <<queueOutput, elementWriting, flagWriting, flagClosed, bodyCopy, creating, stage,
                lock, copyLock, atStream, threadPc, arg, pieces, sent, failed>>
copyVars == <<copy, atSource, atTarget, out>>
filterVars == <<contentLength, requestsRead, buf, count, flags, below, frames, size, given, passed,
                broken, got, answers, refused, nested, completions>>
headerVars == <<input, added, last, piece, end>>
chunkedVars == <<body, pos, chunkPiece, state, chunkSize, read, field, output, decoded, outcome>>
streams == <<part, simulator, ioVars, outputVars, copyVars, filterVars, headerVars, chunkedVars>>

Parts == {"simulator", "asyncio", "output", "copy", "filter", "header", "chunked"}

\* What a part that does not act has where its Init has a choice.
Still(p, idle) == IF part = p THEN TRUE ELSE idle
PlainBody ==
    LET bytes == Chunked!AsSent(<<>>, <<>>) IN
    [data |-> <<>>, length |-> Len(bytes), wrong |-> 0, bytes |-> bytes]

StreamsInit ==
    /\ part \in Parts
    /\ Still("header", input = [i \in 1 .. HeaderLength |-> Other])
    /\ Still("filter", contentLength = None)
    /\ Init /\ IoLoop!Init /\ Output!Init /\ Copy!Init /\ Filter!Init /\ Header!Init
    /\ IF part = "chunked" THEN Chunked!Init ELSE body = PlainBody /\ Chunked!Begin
    /\ Still("copy", copy.sizeTotal = Copy!Unlimited)

StreamsNext ==
    /\ UNCHANGED part
    /\ \/ /\ part = "simulator" /\ Next
          /\ UNCHANGED <<ioVars, outputVars, copyVars, filterVars, headerVars, chunkedVars>>
       \/ /\ part = "asyncio" /\ IoLoop!Next
          /\ UNCHANGED <<simulator, outputVars, copyVars, filterVars, headerVars, chunkedVars>>
       \/ /\ part = "output" /\ Output!Next
          /\ UNCHANGED <<simulator, ioVars, copyVars, filterVars, headerVars, chunkedVars>>
       \/ /\ part = "copy" /\ Copy!Next
          /\ UNCHANGED <<simulator, ioVars, outputVars, filterVars, headerVars, chunkedVars>>
       \/ /\ part = "filter" /\ Filter!Next
          /\ UNCHANGED <<simulator, ioVars, outputVars, copyVars, headerVars, chunkedVars>>
       \/ /\ part = "header" /\ Header!Next
          /\ UNCHANGED <<simulator, ioVars, outputVars, copyVars, filterVars, chunkedVars>>
       \/ /\ part = "chunked" /\ Chunked!Next
          /\ UNCHANGED <<simulator, ioVars, outputVars, copyVars, filterVars, headerVars>>

\* The fairness of each module, for the part that acts.
StreamsFairness ==
    /\ \A t \in Threads : WF_simulator(part = "simulator" /\ GoOn(t))
    /\ \A w \in Workers : WF_simulator(part = "simulator" /\ Work(w))
    /\ \A a \in IoCallers : WF_ioVars(part = "asyncio" /\ IoLoop!InCall(a))
    /\ WF_ioVars(part = "asyncio" /\ (IoLoop!InCall(Loop) \/ IoLoop!Step \/ IoLoop!EpollWait))
    /\ WF_outputVars(part = "output" /\ Output!Answer)
    /\ \A t \in Output!Threads : WF_outputVars(part = "output" /\ Output!GoOn(t))
    /\ WF_copyVars(part = "copy" /\ Copy!OnReadStream)
    /\ WF_copyVars(part = "copy" /\ Copy!OnWriteStream)
    /\ WF_filterVars(part = "filter" /\ Filter!GoOn)
    /\ WF_filterVars(part = "filter" /\ Filter!OnReadStream)

StreamsSpec == StreamsInit /\ [][StreamsNext]_streams /\ StreamsFairness

-----------------------------------------------------------------------------
MCDir == [r \in IoRequests |-> "write"]

\* Chunks whose data looks like the end of a line or like a size.
MCChunks ==
    { [zeros |-> 0, data |-> <<CR, LF>>, ext |-> <<Other, 1>>],
      [zeros |-> 2, data |-> <<0>>, ext |-> <<>>] }

MCTrailers == {<<0, Other>>}
MCRests == {<<>>, <<1, CR, LF>>}

-----------------------------------------------------------------------------
\* AsyncOutput: one writer, and what was queued goes out in order (see AsyncOutput).
OutputInv == part = "output" => Output!Inv

\* AsyncOutput: the end that is told without an error is the end of all that was queued.
CompleteIsAll == part = "output" => Output!CompleteIsAll

\* AsyncOutput: two threads wait for each other only when one of them closes.
EmbraceIsClose == part = "output" => Output!EmbraceIsClose

\* AsyncCopy: where the buffers are, and that what is written is what was read.
CopyInv == part = "copy" => Copy!Inv

\* AsyncCopy: an end without an error comes after the last of the data.
EndMeansDone == part = "copy" => Copy!EndMeansDone

\* AsyncStreamFilter: who is answered, how often and with what.
FilterInv == part = "filter" => Filter!Inv

\* HttpHeaderReader: the first empty line is found, however the header is cut.
\* ChunkedReader: what is decoded is the data, and the end is found where it is.
HttpReads ==
    /\ part = "header" => Header!Inv
    /\ part = "chunked" => Chunked!Inv

\* Every part goes on: requests are answered, those of a stream that is closed too, a copy
\* that was started ends, and every write leads to a call of onEnd, each with the exceptions
\* its module names.
StreamsServe == Served /\ IoLoop!CloseServes /\ Output!EndIsTold /\ Copy!Ends /\ Filter!Served
=============================================================================
