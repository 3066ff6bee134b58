------------------------- MODULE AsyncStreamFilter -------------------------
(***************************************************************************)
(* The reading half of AsyncStreamFilter: reads wait in a queue until the  *)
(* stream below has given data, which passes through filterRead().  With a *)
(* contentLength the filter is the HttpContentReader of a body of known    *)
(* length, which completes when that much was read.                        *)
(*                                                                         *)
(* Everything runs under m_lockReading, with the callbacks of the requests,*)
(* from which the program may read again or close: frames is what the      *)
(* thread that has the lock is in, and others wait until it is empty.  Data*)
(* is counted in numbered units, and a filter passes what it is given.     *)
(*                                                                         *)
(* A readFully() that the buffer has too little for goes to the end of the *)
(* queue with what is left of it.  A file that fails answers with a size of*)
(* -1, which is the largest there is: what the filter takes for data then  *)
(* has no end, or that of the content, and is called garbage here.         *)
(***************************************************************************)
EXTENDS Integers, Sequences, FiniteSets

CONSTANTS
    MaxRequests,    \* bound: reads the program ever makes
    Sizes,          \* what they ask for
    Full,           \* those of readFully()
    MaxChunk,       \* what the source gives at a time
    SourceLength,   \* what it has
    SourceFails,    \* it may answer with a size of -1
    ContentLengths, \* of an HttpContentReader, or None
    None

\* The assumption on the constants.
ConstantsAssumption ==
    /\ MaxRequests \in Nat /\ Sizes \subseteq Nat \ {0} /\ MaxChunk \in Nat \ {0}
    /\ Full \subseteq Nat /\ SourceLength \in Nat /\ SourceFails \in BOOLEAN /\ None \notin Nat /\ ContentLengths \subseteq (Nat \ {0}) \cup {None}

Reads == 1 .. MaxRequests
Units == 1 .. SourceLength
Garbage == 0

VARIABLES
    contentLength,  \* m_contentLength of an HttpContentReader, or None
    requestsRead,   \* m_requestsRead
    buf, count,     \* m_bufReadConverted, and its m_size
    flags,          \* m_flagOpened, m_flagReading, m_flagReadingEnded, m_flagReadingError
    atSource,       \* how many reads the stream below has
    frames,         \* the calls the thread that has the lock is in
    size,           \* what each request asks for, or what is left of it
    given, passed,  \* units the stream gave, and filterRead() let pass
    broken,         \* the stream failed in an answer of size -1, or with the last of the content
    got,            \* what the requests were given
    calls,          \* of each request's callback
    refused,        \* the requests whose read() failed
    nested,         \* a read was requested within read(): from a callback, or for what is left
    completions     \* the calls of m_onComplete, with their flagError

queues == <<requestsRead, buf, count>>
history == <<got, calls, refused, nested>>
source == <<given, passed, broken, completions>>
vars == <<contentLength, queues, flags, atSource, frames, size, source, history>>

Frames == {"_read", "_process", "onReadStream", "closeAll", "setError", "program"}

Init ==
    /\ contentLength \in ContentLengths
    /\ requestsRead = <<>> /\ buf = <<>> /\ count = 0
    /\ flags = [opened |-> TRUE, reading |-> FALSE, ended |-> FALSE, error |-> FALSE]
    /\ atSource = 0 /\ frames = <<>> /\ size = <<>>
    /\ given = 0 /\ passed = 0 /\ broken = FALSE /\ got = <<>>
    /\ calls = [r \in Reads |-> 0] /\ refused = {} /\ nested = FALSE /\ completions = <<>>

\* The calls end with the innermost one.
In(frame) == frames # <<>> /\ frames[Len(frames)] = frame
Return == SubSeq(frames, 1, Len(frames) - 1)
Idle == frames = <<>>

\* Where the program may call from.
Calling == Idle \/ In("program")

-----------------------------------------------------------------------------
(* Reading                                                                 *)

\* What _read() and requestIo() test.  The stream is null once the filter is closed.
CanRead == flags.opened /\ ~flags.reading /\ ~flags.ended /\ ~flags.error

\* A call of _read() that is in the calls s runs requests, and will read after that.
InRead(s) == \E i \in DOMAIN s : s[i] = "_read"

\* read().  A request that is refused stays in the queue, unless the filter is closed.
Read ==
    LET r == Len(size) + 1 IN
    /\ Calling /\ r \in Reads
    /\ \E n \in Sizes : size' = Append(size, n)
    /\ requestsRead' = IF flags.opened THEN Append(requestsRead, r) ELSE requestsRead
    /\ IF CanRead
       THEN frames' = frames \o <<"_read", "_process">> /\ UNCHANGED <<calls, refused>>
       ELSE /\ frames' = Append(frames, "program")
            /\ calls' = [calls EXCEPT ![r] = @ + 1] /\ refused' = refused \cup {r}
    /\ nested' = (nested \/ InRead(frames))
    /\ UNCHANGED <<contentLength, buf, count, flags, atSource, source, got>>

\* The callback of a request returns.
ProgramReturns ==
    /\ In("program") /\ frames' = Return
    /\ UNCHANGED <<contentLength, queues, flags, atSource, size, source, history>>

\* The bytes of a failed read are in the buffer of a plain filter: it has no end.
Endless == broken /\ contentLength = None

\* What m_bufReadConverted has for a request, and how it is taken.
Has(r) == IF Endless \/ size[r] < Len(buf) THEN size[r] ELSE Len(buf)

Take(n) ==
    /\ got' = got \o [i \in 1 .. n |-> IF i <= Len(buf) THEN buf[i] ELSE Garbage]
    /\ buf' = SubSeq(buf, n + 1, Len(buf)) /\ count' = count - n

\* Something is left of a readFully(), and nothing ended; then requestIo() is as in Read.
InPart(r) == r \in Full /\ Has(r) < size[r] /\ CanRead

\* One turn of _processReadRequests(): it stops with the buffer empty, after the callback.
Process ==
    LET r == Head(requestsRead) IN
    /\ In("_process") /\ count # 0 /\ requestsRead # <<>> /\ ~InPart(r) /\ Take(Has(r))
    /\ requestsRead' = Tail(requestsRead) /\ calls' = [calls EXCEPT ![r] = @ + 1]
    /\ frames' = Append(IF count' = 0 THEN Return ELSE frames, "program")
    /\ UNCHANGED <<contentLength, flags, atSource, size, source, refused, nested>>

\* runCallback() requests what is left of it: _read() finds the buffer empty.  It is not
\* refused for a read under way: while there is one, the buffer is empty.
AskAgain ==
    LET r == Head(requestsRead) IN
    /\ In("_process") /\ count # 0 /\ requestsRead # <<>> /\ InPart(r) /\ Take(Has(r))
    /\ requestsRead' = Append(Tail(requestsRead), r) /\ size' = [size EXCEPT ![r] = @ - Has(r)]
    /\ frames' = Return \o <<"_read", "_process">>
    /\ nested' = (nested \/ InRead(Return))
    /\ UNCHANGED <<contentLength, flags, atSource, source, calls, refused>>

ProcessEnds ==
    /\ In("_process") /\ (count = 0 \/ requestsRead = <<>>) /\ frames' = Return
    /\ UNCHANGED <<contentLength, queues, flags, atSource, size, source, history>>

-----------------------------------------------------------------------------
(* The stream below answers                                                *)

\* What is left of a content: what filterRead() let pass is with the requests or in the buffer.
Remain == contentLength - Len(got) - Len(buf)

\* Of n more units, those filterRead() lets pass; n units complete the content.  What comes
\* after bytes that have no end is not reached.
Passing(n) ==
    IF contentLength # None THEN IF n = -1 \/ n > Remain THEN Remain ELSE n
    ELSE IF n = -1 \/ broken THEN 0 ELSE n

Completes(n) == contentLength # None /\ n # 0 /\ (n = -1 \/ n >= Remain)

\* A content reader sets both flags when its content is complete, and the first at an error.
Answered(n, code) ==
    [flags EXCEPT !.reading = FALSE,
                  !.ended = @ \/ code = "ended" \/ Completes(n) \/ (contentLength # None /\ code = "error"),
                  !.error = @ \/ code = "error" \/ Completes(n)]

\* What a stream answers: data, its end or an error, or both at once, as a filter does.
Answers ==
    { a \in [size : -1 .. MaxChunk, code : {"success", "ended", "error"}] :
        /\ a.code = "success" => a.size > 0
        /\ a.size = -1 => SourceFails /\ a.code = "error"
        /\ given + a.size <= SourceLength }

\* onReadStream(), up to its calls, in the calls s.  A filter that was closed takes no
\* notice; a content reader then calls setError().
TakeAnswer(n, code, s) ==
    LET after == IF code = "error" /\ contentLength # None THEN Append(s, "setError") ELSE s
        units == [i \in 1 .. Passing(n) |-> IF n = -1 THEN Garbage ELSE given + i] IN
    /\ given' = IF n = -1 THEN given ELSE given + n
    /\ IF flags.opened
       THEN /\ flags' = Answered(n, code) /\ buf' = buf \o units
            /\ completions' = IF Completes(n) THEN Append(completions, flags.error) ELSE completions
            /\ count' = count + IF contentLength = None THEN n ELSE Passing(n)
            /\ passed' = IF n = -1 THEN passed ELSE passed + Passing(n)
            /\ broken' = (broken \/ n = -1 \/ (code = "error" /\ Completes(n)))
            /\ frames' = after \o <<"onReadStream", "_process">>
       ELSE /\ flags' = [flags EXCEPT !.reading = FALSE] /\ frames' = after
            /\ UNCHANGED <<buf, completions, count, passed, broken>>
    /\ UNCHANGED <<contentLength, requestsRead, size, history>>

OnReadStream ==
    /\ Idle /\ atSource > 0 /\ atSource' = atSource - 1
    /\ \E a \in Answers : TakeAnswer(a.size, a.code, <<>>)

\* The rest of _read(), if requests are left.  The stream below may answer within read(),
\* when it refuses, or has data.
ReadBelow ==
    /\ In("_read") /\ requestsRead # <<>>
    /\ \/ /\ flags' = [flags EXCEPT !.reading = TRUE] /\ atSource' = atSource + 1 /\ frames' = Return
          /\ UNCHANGED <<contentLength, queues, size, source, history>>
       \/ /\ UNCHANGED atSource
          /\ \E a \in Answers : TakeAnswer(a.size, a.code, Return)

ReadEnds ==
    /\ In("_read") /\ requestsRead = <<>> /\ frames' = Return
    /\ UNCHANGED <<contentLength, queues, flags, atSource, size, source, history>>

\* setError() of a content reader.
SetError ==
    /\ In("setError") /\ frames' = Return /\ completions' = Append(completions, TRUE)
    /\ flags' = [flags EXCEPT !.ended = TRUE, !.error = TRUE]
    /\ UNCHANGED <<contentLength, queues, atSource, size, given, passed, broken, history>>

\* Faulty variant: what is left waits for the next read().
AfterProcess_NoRead ==
    /\ In("onReadStream")
    /\ frames' = IF flags.error THEN Append(Return, "closeAll") ELSE Return
    /\ UNCHANGED <<contentLength, queues, flags, atSource, size, source, history>>

\* The rest of onReadStream().
AfterProcess ==
    /\ In("onReadStream")
    /\ frames' = IF flags.error THEN Append(Return, "closeAll")
                 ELSE IF requestsRead # <<>> /\ CanRead THEN Return \o <<"_read", "_process">>
                 ELSE Return
    /\ UNCHANGED <<contentLength, queues, flags, atSource, size, source, history>>

\* _closeAllReadRequests()
CloseRequest ==
    LET r == Head(requestsRead) IN
    /\ In("closeAll") /\ requestsRead # <<>>
    /\ requestsRead' = Tail(requestsRead) /\ calls' = [calls EXCEPT ![r] = @ + 1]
    /\ frames' = Append(frames, "program")
    /\ UNCHANGED <<contentLength, buf, count, flags, atSource, size, source, got, refused, nested>>

CloseAllEnds ==
    /\ In("closeAll") /\ requestsRead = <<>> /\ frames' = Return
    /\ UNCHANGED <<contentLength, queues, flags, atSource, size, source, history>>

\* close(), on the reading side.  What waits in the queue is left there.
Close ==
    /\ Calling /\ flags.opened
    /\ flags' = [flags EXCEPT !.opened = FALSE, !.ended = TRUE]
    /\ UNCHANGED <<contentLength, queues, atSource, frames, size, source, history>>

-----------------------------------------------------------------------------
GoOn == ProgramReturns \/ Process \/ AskAgain \/ ProcessEnds \/ ReadBelow \/ ReadEnds \/ AfterProcess
        \/ CloseRequest \/ CloseAllEnds \/ SetError

Next == Read \/ Close \/ OnReadStream \/ GoOn

\* Calls return, and the stream below answers.
Fairness == WF_vars(GoOn) /\ WF_vars(OnReadStream)

Spec == Init /\ [][Next]_vars /\ Fairness

-----------------------------------------------------------------------------
TypeOK ==
    /\ contentLength \in ContentLengths
    /\ requestsRead \in Seq(Reads) /\ {buf, got} \subseteq Seq(Units \cup {Garbage}) /\ count \in Int
    /\ flags \in [opened : BOOLEAN, reading : BOOLEAN, ended : BOOLEAN, error : BOOLEAN]
    /\ atSource \in Nat /\ frames \in Seq(Frames) /\ size \in Seq(Nat \ {0})
    /\ {given, passed} \subseteq 0 .. SourceLength /\ broken \in BOOLEAN
    /\ calls \in [Reads -> Nat] /\ refused \subseteq Reads /\ nested \in BOOLEAN /\ completions \in Seq(BOOLEAN)

\* The requests are given what the stream gave, in order and to the end of the content; what
\* is left waits in the buffer.  Garbage comes after it, when the stream failed with a size.
ReadInOrder ==
    LET row == got \o buf IN
    /\ row = [i \in 1 .. Len(row) |-> IF i <= passed THEN i ELSE Garbage]
    /\ passed = Len(row) \/ (broken /\ passed < Len(row))
    /\ contentLength # None => Len(row) <= contentLength
    /\ flags.opened /\ ~broken => passed = IF contentLength = None \/ given < contentLength THEN given ELSE contentLength

\* A callback runs once, and a second time only for a request whose read() failed and
\* that stayed in the queue.
AnsweredOnce == \A r \in Reads : calls[r] <= IF r \in refused THEN 2 ELSE 1

\* Between calls, a read that waits has a read of the stream below under way.
WaitingHasRead ==
    Idle /\ flags.opened /\ ~flags.ended /\ ~flags.error /\ requestsRead # <<>> => atSource > 0

\* The stream below has one read at a time, while no read is requested within read().
OneRead == nested \/ atSource <= 1

\* Under the same condition a content completes once, and without error only when it has its
\* length; an error that comes with its last units, or a size of -1, is told after that.
CompletedOnce ==
    /\ nested \/ Len(completions) <= IF broken THEN 2 ELSE 1
    /\ completions # <<>> /\ ~completions[1] => Len(got \o buf) = contentLength

\* The six together: requests are answered once and in order, by one read of the stream
\* below at a time, none is left without one, and a content completes once.
Inv == TypeOK /\ ReadInOrder /\ AnsweredOnce /\ WaitingHasRead /\ OneRead /\ CompletedOnce

\* In the end every read that was accepted was answered, unless the filter is closed or the
\* stream ends.
Served ==
    <>[](\A r \in DOMAIN size \ refused : calls[r] > 0 \/ ~flags.opened \/ flags.ended)
=============================================================================
