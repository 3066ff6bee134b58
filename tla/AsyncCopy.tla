----------------------------- MODULE AsyncCopy -----------------------------
(***************************************************************************)
(* AsyncCopy reads from one asynchronous stream and writes to another,     *)
(* with a few buffers between them, so that a read and a write may be on   *)
(* their way at once.  Every entry point runs under the object's lock,     *)
(* with the callbacks it makes, so each is one step.  A stream may refuse a*)
(* request, and a filter may answer a read, before read() returns:         *)
(* onReadStream or onWriteStream then runs inside enqueue().               *)
(*                                                                         *)
(* The units of the source's data are numbered.  The program's onRead keeps*)
(* what it was given, drops it, or closes the copy; its onWrite may close  *)
(* it too.  Memory is never short.                                         *)
(***************************************************************************)
EXTENDS Integers, Sequences, Functions

CONSTANTS
    BufferCount, BufferSize,
    Width,          \* how many values a size has, 2^64
    Totals,         \* what param.size may be
    SourceLength,   \* bound: what the source has to give
    FileFails       \* whether the source may be an AsyncFile whose reads fail

Unlimited == Width - 1  \* SLIB_UINT64_MAX

\* The assumption on the constants.
ConstantsAssumption ==
    /\ BufferCount \in Nat \ {0} /\ BufferSize \in Nat \ {0} /\ SourceLength \in Nat
    /\ Width \in Nat /\ SourceLength + BufferSize < Unlimited
    /\ Totals \subseteq (1 .. SourceLength) \cup {Unlimited} /\ FileFails \in BOOLEAN

Buffers == 1 .. BufferCount
Null == 0

VARIABLES
    copy,       \* the object, and the history its callbacks make
    atSource,   \* the reads on their way
    atTarget,   \* the writes on their way
    out         \* what the target was written

vars == <<copy, atSource, atTarget, out>>

\* mem: what the memory of each buffer holds; length: how much of it is to be written,
\* in memWrite.  given: how much the source gave; kept: what of it onRead let pass;
\* ended: the flagError of each call of onEnd; closed: by the program; hollow: a read
\* that was answered inside enqueue() left nothing to write.
Init ==
    /\ \E total \in Totals :
          copy = [buffersRead |-> [i \in Buffers |-> i], bufferReading |-> Null,
                  buffersWrite |-> <<>>, bufferWriting |-> Null,
                  sizeRead |-> 0, sizeWritten |-> 0, sizeTotal |-> total,
                  readError |-> FALSE, readEnded |-> FALSE, writeError |-> FALSE,
                  started |-> FALSE, running |-> TRUE,
                  mem |-> [b \in Buffers |-> [i \in 1 .. BufferSize |-> 0]],
                  length |-> [b \in Buffers |-> 0],
                  given |-> 0, kept |-> <<>>, ended |-> <<>>, closed |-> FALSE, hollow |-> FALSE]
    /\ atSource = <<>> /\ atTarget = <<>> /\ out = <<>>

Least(m, n) == IF m < n THEN m ELSE n

-----------------------------------------------------------------------------
(* What happens to the object, as functions of its state                   *)

\* close(), and the destructor
Close(c) ==
    IF ~c.running THEN c
    ELSE [c EXCEPT !.running = FALSE, !.ended = Append(@, c.readError \/ c.writeError),
                   !.bufferReading = Null, !.buffersRead = <<>>,
                   !.bufferWriting = Null, !.buffersWrite = <<>>]
CloseByProgram(c) == Close([c EXCEPT !.closed = @ \/ c.running])

\* The source puts n units into the memory it was given.
Fill(c, b, n) ==
    [c EXCEPT !.given = @ + n,
              !.mem[b] = [i \in 1 .. BufferSize |-> IF i <= n THEN c.given + i ELSE @[i]]]

\* Faulty variant: the filled buffer is written before those that wait.
Pass_ToFront(c, b, size, does) ==
    [c EXCEPT !.buffersWrite = <<b>> \o @, !.length[b] = Least(size, BufferSize),
              !.kept = @ \o (IF size > BufferSize THEN <<>> ELSE SubSeq(c.mem[b], 1, size))]

\* A filled buffer waits to be written, unless onRead drops what it holds; a buffer
\* with nothing is read into again.
Pass(c, b, size, does) ==
    LET n == Least(size, BufferSize)    \* Memory::sub()
        d == IF size > 0 /\ does = "close" THEN CloseByProgram(c) ELSE c IN
    IF size > 0 /\ does # "drop"
    THEN [d EXCEPT !.buffersWrite = Append(@, b), !.length[b] = n,
                   !.kept = @ \o (IF size = n THEN SubSeq(c.mem[b], 1, n) ELSE <<>>)]
    ELSE [d EXCEPT !.buffersRead = Append(@, b), !.length[b] = 0]

\* onReadStream(), up to its enqueue()
OnRead(c, size, code, does) ==
    LET b == c.bufferReading
        d == [c EXCEPT !.bufferReading = Null, !.sizeRead = (@ + size) % Width]
        e == IF b = Null THEN c ELSE Pass(d, b, size, does) IN
    CASE code = "error" -> [e EXCEPT !.readError = TRUE]
      [] code = "ended" -> [e EXCEPT !.readEnded = TRUE,
                                     !.sizeTotal = IF @ = Unlimited THEN e.sizeRead ELSE @]
      [] OTHER -> e

\* onWriteStream(), up to its enqueue()
OnWrite(c, size, code, does) ==
    LET b == c.bufferWriting
        d == IF code = "error" THEN [c EXCEPT !.writeError = TRUE] ELSE c
        e == [d EXCEPT !.bufferWriting = Null, !.sizeWritten = (@ + size) % Width,
                       !.length[b] = 0, !.buffersRead = Append(@, b)] IN
    IF b = Null THEN d ELSE IF does = "close" THEN CloseByProgram(e) ELSE e

-----------------------------------------------------------------------------
(* enqueue()                                                               *)
CanRead(c) == /\ ~c.readError /\ ~c.readEnded /\ c.sizeRead < c.sizeTotal
              /\ c.bufferReading = Null /\ c.buffersRead # <<>>

CanWrite(c) == ~c.writeError /\ c.bufferWriting = Null /\ c.buffersWrite # <<>>

\* What a read of n units may be answered: by the base streams, by a filter that has
\* data, and by an AsyncFile that failed, which reports the -1 it got as the size.
Answers(c, n) ==
    LET left == SourceLength - c.given IN
    [size : 1 .. Least(n, left), code : {"success", "ended"}]
        \cup {[size |-> 0, code |-> "ended"], [size |-> 0, code |-> "error"]}
        \cup (IF FileFails THEN {[size |-> Width - 1, code |-> "error"]} ELSE {})
Deeds == {"keep", "drop", "close"}

Got(a) == IF a.size = Width - 1 THEN 0 ELSE a.size

Take(c) == [c EXCEPT !.bufferReading = Head(c.buffersRead), !.buffersRead = Tail(@)]

ReadSize(c) == Least(BufferSize, c.sizeTotal - c.sizeRead)

\* The read was refused, or answered, before read() returned.
Refused(c) == OnRead(c, 0, "error", "keep")

AnsweredAtOnce(c, a, does) ==
    LET d == OnRead(Fill(c, c.bufferReading, Got(a)), a.size, a.code, does) IN
    [d EXCEPT !.hollow = @ \/ (a.code = "success" /\ d.buffersWrite = <<>>)]

\* The outcomes of each half: the object, and what was asked of the stream.
ReadStage(c) ==
    IF ~CanRead(c) THEN {[copy |-> c, asked |-> <<>>]}
    ELSE LET t == Take(c)
             n == ReadSize(c) IN
         {[copy |-> t, asked |-> <<[buffer |-> t.bufferReading, size |-> n]>>],
          [copy |-> Refused(t), asked |-> <<>>]}
         \cup {[copy |-> AnsweredAtOnce(t, a, does), asked |-> <<>>] :
                  a \in {x \in Answers(t, n) : x.size \in 1 .. n}, does \in Deeds}

\* A copy that onRead closed has no target to ask.
WriteStage(c) ==
    IF ~CanWrite(c) THEN {[copy |-> c, asked |-> <<>>]}
    ELSE LET b == Head(c.buffersWrite)
             t == [c EXCEPT !.bufferWriting = b, !.buffersWrite = Tail(@)] IN
         IF ~c.running THEN {[copy |-> t, asked |-> <<>>]}
         ELSE {[copy |-> t, asked |-> <<[buffer |-> b, size |-> c.length[b]]>>]}
              \cup {[copy |-> OnWrite(t, 0, "error", does), asked |-> <<>>] : does \in Deeds \ {"drop"}}

\* Faulty variant: closes as soon as nothing is being read.
EndStage_OnlyReading(c) == IF c.bufferReading = Null THEN Close(c) ELSE c

EndStage(c) == IF c.bufferReading = Null /\ c.bufferWriting = Null THEN Close(c) ELSE c

Enqueue(c, reads, writes) ==
    IF ~c.running
    THEN copy' = c /\ atSource' = reads /\ atTarget' = writes
    ELSE \E r \in ReadStage(c) : \E w \in WriteStage(r.copy) :
            /\ copy' = EndStage(w.copy)
            /\ atSource' = reads \o r.asked /\ atTarget' = writes \o w.asked

-----------------------------------------------------------------------------
(* The steps                                                               *)
Start ==
    /\ ~copy.started
    /\ Enqueue([copy EXCEPT !.started = TRUE], atSource, atTarget)
    /\ UNCHANGED out

\* The program, or the destructor
CloseCopy ==
    /\ copy.running /\ copy' = CloseByProgram(copy)
    /\ UNCHANGED <<atSource, atTarget, out>>

\* onReadStream().  The memory is written to even if the copy was closed.
OnReadStream ==
    /\ atSource # <<>>
    /\ LET q == Head(atSource) IN
       \E a \in Answers(copy, q.size), does \in Deeds :
          LET c == Fill(copy, q.buffer, Got(a)) IN
          Enqueue(IF c.running THEN OnRead(c, a.size, a.code, does) ELSE c, Tail(atSource), atTarget)
    /\ UNCHANGED out

\* onWriteStream().  A write that fails may have written a part (m_flagFully).
OnWriteStream ==
    /\ atTarget # <<>>
    /\ LET q == Head(atTarget) IN
       \E code \in {"success", "error"}, does \in Deeds \ {"drop"} :
       \E n \in IF code = "success" THEN {q.size} ELSE 0 .. q.size - 1 :
          /\ out' = out \o SubSeq(copy.mem[q.buffer], 1, n)
          /\ Enqueue(IF copy.running THEN OnWrite(copy, n, code, does) ELSE copy,
                     atSource, Tail(atTarget))

Next == Start \/ CloseCopy \/ OnReadStream \/ OnWriteStream

\* A stream answers what it was asked.
Fairness == WF_vars(OnReadStream) /\ WF_vars(OnWriteStream)

Spec == Init /\ [][Next]_vars /\ Fairness

-----------------------------------------------------------------------------
TypeOK ==
    /\ copy.buffersRead \in Seq(Buffers) /\ copy.buffersWrite \in Seq(Buffers)
    /\ copy.bufferReading \in Buffers \cup {Null} /\ copy.bufferWriting \in Buffers \cup {Null}
    /\ copy.sizeRead \in 0 .. Width - 1 /\ copy.sizeWritten \in 0 .. Width - 1
    /\ copy.sizeTotal \in 0 .. Width - 1
    /\ copy.mem \in [Buffers -> Seq(0 .. SourceLength)] /\ copy.length \in [Buffers -> 0 .. BufferSize]
    /\ atSource \in Seq([buffer : Buffers, size : 1 .. BufferSize])
    /\ atTarget \in Seq([buffer : Buffers, size : 1 .. BufferSize])
    /\ out \in Seq(0 .. SourceLength)

\* Where the buffers are while the copy runs, in any order.
Held(b) == IF b = Null THEN <<>> ELSE <<b>>
Places == copy.buffersRead \o copy.buffersWrite \o Held(copy.bufferReading) \o Held(copy.bufferWriting)

\* While the copy runs no buffer is lost or in two places, and what the streams were
\* asked is what m_bufferReading and m_bufferWriting stand for: one request each at a
\* time.  A buffer given back early would be read into while it is written from.
BuffersKept ==
    copy.running =>
        /\ Len(Places) = BufferCount /\ IsInjective(Places)
        /\ [i \in DOMAIN atSource |-> atSource[i].buffer] = Held(copy.bufferReading)
        /\ [i \in DOMAIN atTarget |-> atTarget[i].buffer] = Held(copy.bufferWriting)

\* The target gets what was read, in order; after it, and only when a read failed, what
\* a buffer held before (see Answers).
WrittenWasRead ==
    /\ \A i \in DOMAIN out \cap DOMAIN copy.kept : out[i] = copy.kept[i]
    /\ Len(out) > Len(copy.kept) => copy.readError

\* A copy that ends by itself and tells no error has written all the source had, or as
\* much as it was to copy; it ends once.  A read answered inside enqueue() with nothing
\* to write ends it early (hollow).
EndMeansDone ==
    /\ Len(copy.ended) <= 1
    /\ copy.ended = <<FALSE>> /\ ~copy.closed /\ ~copy.hollow =>
          out = copy.kept /\ (copy.readEnded \/ copy.sizeRead = copy.sizeTotal)

\* What AsyncOutput relies on: no error and isCompleted() is all of the data, however
\* the copy ended.
CompletedIsAll ==
    copy.ended = <<FALSE>> /\ copy.sizeWritten = copy.sizeTotal =>
        out = [i \in 1 .. copy.sizeTotal |-> i]

\* The four together: no buffer is lost or used twice, and what is written is what was read,
\* all of it when the copy says so.
Inv == TypeOK /\ BuffersKept /\ WrittenWasRead /\ CompletedIsAll

\* A copy that was started ends.
Ends == <>[](copy.started => ~copy.running)
=============================================================================
