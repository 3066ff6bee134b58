-------------------------- MODULE AsyncCopyProofs --------------------------
(***************************************************************************)
(* The inductive invariant of AsyncCopy and the theorems it proves, for    *)
(* any number and size of buffers, any width of a size and any length of   *)
(* the source, whenever and in whatever parts the two streams answer.      *)
(*                                                                         *)
(* The argument follows the bytes: what a buffer holds was kept right      *)
(* after what the buffers written before it hold, so the target is given   *)
(* what the source gave, in order; and while the copy runs every buffer is *)
(* in one place, so nobody reads into one that is being written.  What the *)
(* sizes of the object say is tied to what was read and written, which is  *)
(* what the end of a copy is decided from.                                 *)
(***************************************************************************)
EXTENDS MCAsyncStreams, SequenceTheorems, FiniteSetTheorems, TLAPS

Buffers == Copy!Buffers
Null == Copy!Null
Unlimited == Copy!Unlimited
Asks == [buffer : Buffers, size : 1 .. BufferSize]

\* The fields of the object, and their types.
Object(c) ==
    c = [buffersRead |-> c.buffersRead, bufferReading |-> c.bufferReading,
         buffersWrite |-> c.buffersWrite, bufferWriting |-> c.bufferWriting,
         sizeRead |-> c.sizeRead, sizeWritten |-> c.sizeWritten, sizeTotal |-> c.sizeTotal,
         readError |-> c.readError, readEnded |-> c.readEnded, writeError |-> c.writeError,
         started |-> c.started, running |-> c.running, mem |-> c.mem, length |-> c.length,
         given |-> c.given, kept |-> c.kept, ended |-> c.ended, closed |-> c.closed, hollow |-> c.hollow]

Typed(c) ==
    /\ c.buffersRead \in Seq(Buffers) /\ c.bufferReading \in Buffers \cup {Null}
    /\ c.buffersWrite \in Seq(Buffers) /\ c.bufferWriting \in Buffers \cup {Null}
    /\ c.sizeRead \in 0 .. Width - 1 /\ c.sizeWritten \in 0 .. Width - 1 /\ c.sizeTotal \in 0 .. Width - 1
    /\ c.mem \in [Buffers -> [1 .. BufferSize -> 0 .. CopyLength]] /\ c.length \in [Buffers -> 0 .. BufferSize]
    /\ c.given \in 0 .. CopyLength /\ c.kept \in Seq(0 .. CopyLength) /\ c.ended \in Seq(BOOLEAN)

\* While the copy runs, no buffer is in two places and none is lost: r wait to be read into and
\* w to be written from, x is being read into and y written from.
Apart(r, w, x, y) ==
    /\ \A i, j \in 1 .. Len(r) : r[i] = r[j] => i = j
    /\ \A i, j \in 1 .. Len(w) : w[i] = w[j] => i = j
    /\ \A i \in 1 .. Len(r), j \in 1 .. Len(w) : r[i] # w[j]
    /\ \A i \in 1 .. Len(r) : r[i] # x /\ r[i] # y
    /\ \A i \in 1 .. Len(w) : w[i] # x /\ w[i] # y
    /\ x # Null => x # y
    /\ Len(r) + Len(w) + (IF x = Null THEN 0 ELSE 1) + (IF y = Null THEN 0 ELSE 1) = BufferCount
OnePlace(c) == Apart(c.buffersRead, c.buffersWrite, c.bufferReading, c.bufferWriting)

\* What is asked of the streams, s of the source and t of the target, while the copy runs.
Asked(c, s, t) ==
    /\ IF c.bufferReading = Null THEN s = <<>>
       ELSE \E n \in 1 .. BufferSize :
               /\ s = <<[buffer |-> c.bufferReading, size |-> n]>> /\ c.sizeRead + n <= c.sizeTotal
               /\ ~c.readError /\ ~c.readEnded
    /\ IF c.bufferWriting = Null THEN t = <<>>
       ELSE /\ t = <<[buffer |-> c.bufferWriting, size |-> c.length[c.bufferWriting]]>>
            /\ c.length[c.bufferWriting] >= 1 /\ ~c.writeError

\* The units that were kept are among the first n, in order.
KeptRises(c, n) ==
    /\ Len(c.kept) <= n
    /\ \A i \in 1 .. Len(c.kept) : i <= c.kept[i] /\ c.kept[i] + (Len(c.kept) - i) <= n

\* What the sizes say, while the copy runs and f units were given that it was not told of.
SizesSay(c, o, f) ==
    /\ f <= c.given
    /\ c.sizeTotal = Unlimited \/ c.sizeTotal <= CopyLength
    /\ ~c.readError => c.sizeRead = c.given - f /\ c.sizeRead <= c.sizeTotal
    /\ ~c.writeError => c.sizeWritten = Len(o)

\* What a buffer holds from place k of what was kept, as far as that goes.
Holds(c, b, n, k) == \A j \in 1 .. n : k + j <= Len(c.kept) => c.mem[b][j] = c.kept[k + j]

\* The buffers that wait hold what was kept from where the write on its way ends, one after
\* the other; off says where each begins, and where the last ends.
Follows(c, o, off) ==
    LET w == c.buffersWrite IN
    /\ off[1] = Len(o) + (IF c.bufferWriting = Null THEN 0 ELSE c.length[c.bufferWriting])
    /\ \A i \in 1 .. Len(w) : /\ c.length[w[i]] >= 1 /\ off[i + 1] = off[i] + c.length[w[i]]
                              /\ Holds(c, w[i], c.length[w[i]], off[i])
    /\ \A i \in 1 .. Len(w) + 1 : /\ off[i] <= Len(c.kept) + BufferSize
                                  /\ off[i] > Len(c.kept) => c.readError
    /\ off[Len(w) + 1] >= Len(c.kept)

Flow(c, o) == \E off \in [1 .. Len(c.buffersWrite) + 1 -> Nat] : Follows(c, o, off)

\* Each stream has one request at most, of different buffers; what is being written is what
\* was kept next, and so was what was written.
OnTheirWay(c, s, t, o) ==
    /\ s # <<>> => \E q \in Asks : s = <<q>>
    /\ t # <<>> => \E q \in Asks :
          /\ t = <<q>> /\ Holds(c, q.buffer, q.size, Len(o))
          /\ Len(o) + q.size > Len(c.kept) => c.readError
    /\ s # <<>> /\ t # <<>> => s[1].buffer # t[1].buffer
    /\ \A i \in 1 .. Len(o) : i <= Len(c.kept) => o[i] = c.kept[i]
    /\ Len(o) > Len(c.kept) => c.readError

\* What is so when the copy has ended.
EndSays(c, t, o) ==
    /\ Len(c.ended) = 1
    /\ c.ended = <<FALSE>> /\ c.sizeWritten = c.sizeTotal =>
          t = <<>> /\ o = [i \in 1 .. c.sizeTotal |-> i]
    /\ c.ended = <<FALSE>> /\ ~c.closed /\ ~c.hollow =>
          t = <<>> /\ o = c.kept /\ (c.readEnded \/ c.sizeRead = c.sizeTotal)

\* The object with the requests s and t and the written o, when f units were given that it
\* was not told of.
Sound(c, s, t, o, f) ==
    /\ Object(c) /\ Typed(c) /\ o \in Seq(0 .. CopyLength)
    /\ OnTheirWay(c, s, t, o)
    /\ c.running => OnePlace(c) /\ Asked(c, s, t) /\ KeptRises(c, c.given - f) /\ SizesSay(c, o, f)
                    /\ c.ended = <<>>
    /\ c.running /\ ~c.writeError => Flow(c, o)
    /\ ~c.running => EndSays(c, t, o)

CopyIInv == Sound(copy, atSource, atTarget, out, 0)

-----------------------------------------------------------------------------
\* The constants are numbers, and no number of units is Unlimited.
LEMMA CopyConstants ==
    /\ BufferCount \in Nat /\ BufferCount >= 1 /\ BufferSize \in Nat /\ BufferSize >= 1
    /\ CopyLength \in Nat /\ Width \in Nat /\ Width - 1 \in Nat /\ Unlimited = Width - 1
    /\ CopyLength + BufferSize < Unlimited
    /\ Totals \subseteq (1 .. CopyLength) \cup {Unlimited}
    /\ Buffers = 1 .. BufferCount /\ Null = 0 /\ Null \notin Buffers
<1>1. Buffers = 1 .. BufferCount /\ Null = 0 /\ Unlimited = Width - 1
  BY DEF Buffers, Null, Unlimited, Copy!Buffers, Copy!Null, Copy!Unlimited
<1>2. /\ BufferCount \in Nat \ {0} /\ BufferSize \in Nat \ {0} /\ CopyLength \in Nat
      /\ Width \in Nat /\ CopyLength + BufferSize < Unlimited
      /\ Totals \subseteq (1 .. CopyLength) \cup {Unlimited}
  BY CopyAssumption DEF Copy!ConstantsAssumption, Unlimited
<1> QED BY <1>1, <1>2

\* d is c as close() leaves it; only closed, which says whose call it was, may differ.
Closes(c, d) ==
    /\ ~d.running
    /\ d.ended = Append(c.ended, c.readError \/ c.writeError)
    /\ d.bufferReading = Null /\ d.buffersRead = <<>> /\ d.bufferWriting = Null /\ d.buffersWrite = <<>>
    /\ d.sizeRead = c.sizeRead /\ d.sizeWritten = c.sizeWritten /\ d.sizeTotal = c.sizeTotal
    /\ d.readError = c.readError /\ d.readEnded = c.readEnded /\ d.writeError = c.writeError
    /\ d.started = c.started /\ d.mem = c.mem /\ d.length = c.length /\ d.given = c.given
    /\ d.kept = c.kept /\ d.hollow = c.hollow

\* What close() does to an object that runs.
LEMMA CloseGives ==
    ASSUME NEW c, Object(c), Typed(c), c.running, NEW d, d = Copy!Close(c)
    PROVE  Object(d) /\ Typed(d) /\ Closes(c, d) /\ d.closed = c.closed
<1>1. d = [c EXCEPT !.running = FALSE, !.ended = Append(@, c.readError \/ c.writeError),
                    !.bufferReading = Null, !.buffersRead = <<>>,
                    !.bufferWriting = Null, !.buffersWrite = <<>>]
  BY DEF Copy!Close, Null
<1>2. Append(c.ended, c.readError \/ c.writeError) \in Seq(BOOLEAN) /\ <<>> \in Seq(Buffers)
  BY DEF Typed
<1>3. Closes(c, d) /\ d.closed = c.closed
  BY <1>1 DEF Object, Closes
<1>4. Object(d)
  BY <1>1 DEF Object
<1>5. Typed(d)
  BY <1>2, <1>3 DEF Typed, Closes
<1> QED BY <1>3, <1>4, <1>5

-----------------------------------------------------------------------------
\* The memory of a buffer is a sequence, and so is its first part.
LEMMA PartOfMemory ==
    ASSUME NEW S, NEW m \in [1 .. BufferSize -> S], NEW n \in 0 .. BufferSize
    PROVE  /\ m \in Seq(S) /\ Len(m) = BufferSize
           /\ SubSeq(m, 1, n) \in Seq(S) /\ Len(SubSeq(m, 1, n)) = n
           /\ \A i \in 1 .. n : SubSeq(m, 1, n)[i] = m[i]
<1>1. BufferSize \in Nat /\ n \in Nat /\ n <= BufferSize
  BY CopyConstants
<1>2. m \in Seq(S) /\ Len(m) = BufferSize
  BY <1>1
<1>3. /\ SubSeq(m, 1, n) \in Seq(S) /\ Len(SubSeq(m, 1, n)) = n
      /\ \A i \in 1 .. n : SubSeq(m, 1, n)[i] = m[i]
  BY <1>1, <1>2
<1> QED BY <1>2, <1>3

\* The least of two numbers.
LEMMA LeastFacts ==
    ASSUME NEW m \in Nat, NEW n \in Nat
    PROVE  /\ Copy!Least(m, n) \in Nat /\ Copy!Least(m, n) <= m /\ Copy!Least(m, n) <= n
           /\ m <= n => Copy!Least(m, n) = m
           /\ n <= m => Copy!Least(m, n) = n
BY DEF Copy!Least

\* The program closes an object that runs.
LEMMA CloseByProgramGives ==
    ASSUME NEW c, Object(c), Typed(c), c.running, NEW d, d = Copy!CloseByProgram(c)
    PROVE  Object(d) /\ Typed(d) /\ Closes(c, d) /\ d.closed
<1> DEFINE e == [c EXCEPT !.closed = @ \/ c.running]
<1>1. /\ e.closed /\ e.running = c.running /\ e.ended = c.ended
      /\ e.bufferReading = c.bufferReading /\ e.buffersRead = c.buffersRead
      /\ e.bufferWriting = c.bufferWriting /\ e.buffersWrite = c.buffersWrite
      /\ e.sizeRead = c.sizeRead /\ e.sizeWritten = c.sizeWritten /\ e.sizeTotal = c.sizeTotal
      /\ e.readError = c.readError /\ e.readEnded = c.readEnded /\ e.writeError = c.writeError
      /\ e.started = c.started /\ e.mem = c.mem /\ e.length = c.length /\ e.given = c.given
      /\ e.kept = c.kept /\ e.hollow = c.hollow
  BY DEF Object
<1>2. Object(e)
  BY DEF Object
<1>3. Typed(e)
  BY <1>1 DEF Typed
<1>4. d = Copy!Close(e)
  BY DEF Copy!CloseByProgram
<1> HIDE DEF e
<1>5. Object(d) /\ Typed(d) /\ Closes(e, d) /\ d.closed = e.closed
  BY <1>1, <1>2, <1>3, <1>4, CloseGives
<1>6. Closes(c, d)
  BY <1>1, <1>5, Zenon DEF Closes
<1> QED BY <1>1, <1>5, <1>6


\* p is what onReadStream() makes of c, which runs, with the buffer b that so many units were
\* read into; n of them are to be written if onRead lets them pass.
Passed(c, b, units, does, n, p) ==
    /\ p.sizeRead = c.sizeRead /\ p.sizeWritten = c.sizeWritten /\ p.sizeTotal = c.sizeTotal
    /\ p.readError = c.readError /\ p.readEnded = c.readEnded /\ p.writeError = c.writeError
    /\ p.mem = c.mem /\ p.given = c.given /\ p.hollow = c.hollow
    /\ units > 0 /\ does = "close" =>
          /\ ~p.running /\ p.closed /\ p.ended = Append(c.ended, c.readError \/ c.writeError)
          /\ p.bufferReading = Null /\ p.bufferWriting = Null
    /\ ~(units > 0 /\ does = "close") =>
          /\ p.running /\ p.ended = c.ended
          /\ p.bufferReading = c.bufferReading /\ p.bufferWriting = c.bufferWriting
    /\ units > 0 /\ does # "drop" =>
          /\ p.length = [c.length EXCEPT ![b] = n]
          /\ p.kept = c.kept \o (IF units = n THEN SubSeq(c.mem[b], 1, n) ELSE <<>>)
          /\ does # "close" => p.buffersWrite = Append(c.buffersWrite, b) /\ p.buffersRead = c.buffersRead
    /\ ~(units > 0 /\ does # "drop") =>
          /\ p.length = [c.length EXCEPT ![b] = 0] /\ p.kept = c.kept
          /\ p.buffersRead = Append(c.buffersRead, b) /\ p.buffersWrite = c.buffersWrite

LEMMA PassGives ==
    ASSUME NEW c, Object(c), Typed(c), c.running, NEW b \in Buffers, NEW units \in 0 .. Width - 1, NEW does,
           NEW n, n = Copy!Least(units, BufferSize),
           NEW p, p = Copy!Pass(c, b, units, does)
    PROVE  Object(p) /\ Typed(p) /\ Passed(c, b, units, does, n, p)
<1> DEFINE d == IF units > 0 /\ does = "close" THEN Copy!CloseByProgram(c) ELSE c
           x == IF units = n THEN SubSeq(c.mem[b], 1, n) ELSE <<>>
<1>1. n \in 0 .. BufferSize /\ BufferSize \in Nat
  BY LeastFacts, CopyConstants
<1>2. x \in Seq(0 .. CopyLength)
  <2>1. c.mem[b] \in [1 .. BufferSize -> 0 .. CopyLength]
    BY DEF Typed
  <2>2. SubSeq(c.mem[b], 1, n) \in Seq(0 .. CopyLength)
    BY <1>1, <2>1, PartOfMemory
  <2>3. <<>> \in Seq(0 .. CopyLength)
    OBVIOUS
  <2> QED BY <2>2, <2>3, Zenon
<1>3. /\ Object(d) /\ Typed(d)
      /\ d.sizeRead = c.sizeRead /\ d.sizeWritten = c.sizeWritten /\ d.sizeTotal = c.sizeTotal
      /\ d.readError = c.readError /\ d.readEnded = c.readEnded /\ d.writeError = c.writeError
      /\ d.mem = c.mem /\ d.length = c.length /\ d.given = c.given
      /\ d.kept = c.kept /\ d.hollow = c.hollow
      /\ units > 0 /\ does = "close" =>
            /\ ~d.running /\ d.closed /\ d.ended = Append(c.ended, c.readError \/ c.writeError)
            /\ d.bufferReading = Null /\ d.bufferWriting = Null
      /\ ~(units > 0 /\ does = "close") => d = c
  BY CloseByProgramGives DEF Closes
<1>4. p = IF units > 0 /\ does # "drop"
          THEN [d EXCEPT !.buffersWrite = Append(@, b), !.length[b] = n, !.kept = @ \o x]
          ELSE [d EXCEPT !.buffersRead = Append(@, b), !.length[b] = 0]
  BY <1>3, Zenon DEF Copy!Pass
<1> HIDE DEF d, x
<1>5. CASE units > 0 /\ does # "drop"
  <2>1. p = [d EXCEPT !.buffersWrite = Append(@, b), !.length[b] = n, !.kept = @ \o x]
    BY <1>4, <1>5
  <2>2. /\ p.sizeRead = d.sizeRead /\ p.sizeWritten = d.sizeWritten /\ p.sizeTotal = d.sizeTotal
        /\ p.readError = d.readError /\ p.readEnded = d.readEnded /\ p.writeError = d.writeError
        /\ p.mem = d.mem /\ p.given = d.given /\ p.hollow = d.hollow /\ p.closed = d.closed
        /\ p.running = d.running /\ p.ended = d.ended
        /\ p.bufferReading = d.bufferReading /\ p.bufferWriting = d.bufferWriting
        /\ p.buffersRead = d.buffersRead /\ p.buffersWrite = Append(d.buffersWrite, b)
        /\ p.length = [d.length EXCEPT ![b] = n] /\ p.kept = d.kept \o x
    BY <1>3, <2>1 DEF Object
  <2>3. Object(p)
    BY <1>3, <2>1 DEF Object
  <2>4. Typed(p)
    <3>1. p.buffersWrite \in Seq(Buffers)
      BY <1>3, <2>2 DEF Typed
    <3>2. p.length \in [Buffers -> 0 .. BufferSize]
      <4>1. d.length \in [Buffers -> 0 .. BufferSize]
        BY <1>3 DEF Typed
      <4> QED BY <1>1, <2>2, <4>1
    <3>3. p.kept \in Seq(0 .. CopyLength)
      BY <1>2, <1>3, <2>2 DEF Typed
    <3> QED BY <1>3, <2>2, <3>1, <3>2, <3>3 DEF Typed
  <2> QED BY <1>3, <1>5, <2>2, <2>3, <2>4 DEF x, Passed
<1>6. CASE ~(units > 0 /\ does # "drop")
  <2>1. p = [d EXCEPT !.buffersRead = Append(@, b), !.length[b] = 0]
    BY <1>4, <1>6
  <2>2. /\ p.sizeRead = d.sizeRead /\ p.sizeWritten = d.sizeWritten /\ p.sizeTotal = d.sizeTotal
        /\ p.readError = d.readError /\ p.readEnded = d.readEnded /\ p.writeError = d.writeError
        /\ p.mem = d.mem /\ p.given = d.given /\ p.hollow = d.hollow /\ p.closed = d.closed
        /\ p.running = d.running /\ p.ended = d.ended
        /\ p.bufferReading = d.bufferReading /\ p.bufferWriting = d.bufferWriting
        /\ p.buffersRead = Append(d.buffersRead, b) /\ p.buffersWrite = d.buffersWrite
        /\ p.length = [d.length EXCEPT ![b] = 0] /\ p.kept = d.kept
    BY <1>3, <2>1 DEF Object
  <2>3. Object(p)
    BY <1>3, <2>1 DEF Object
  <2>4. Typed(p)
    <3>1. p.buffersRead \in Seq(Buffers)
      BY <1>3, <2>2 DEF Typed
    <3>2. p.length \in [Buffers -> 0 .. BufferSize]
      BY <1>1, <1>3, <2>2 DEF Typed
    <3> QED BY <1>3, <2>2, <3>1, <3>2 DEF Typed
  <2> QED BY <1>3, <1>6, <2>2, <2>3, <2>4 DEF Passed
<1> QED BY <1>5, <1>6

\* What % gives.
LEMMA ModFacts ==
    ASSUME NEW w \in Nat, w > 0, NEW i \in Nat
    PROVE  i % w \in 0 .. w - 1 /\ (i < w => i % w = i)
OBVIOUS

\* d is what onReadStream() makes of c, which reads into b, when so many units came with code;
\* n of them are to be written if onRead lets them pass.
Told(c, b, units, code, does, n, d) ==
    /\ d.sizeRead = (c.sizeRead + units) % Width /\ d.sizeWritten = c.sizeWritten
    /\ d.sizeTotal = IF code = "ended" /\ c.sizeTotal = Unlimited THEN d.sizeRead ELSE c.sizeTotal
    /\ d.readError = IF code = "error" THEN TRUE ELSE c.readError
    /\ d.readEnded = IF code = "ended" THEN TRUE ELSE c.readEnded
    /\ d.writeError = c.writeError /\ d.mem = c.mem /\ d.given = c.given /\ d.hollow = c.hollow
    /\ units > 0 /\ does = "close" =>
          ~d.running /\ d.closed /\ d.ended = Append(c.ended, c.readError \/ c.writeError)
    /\ ~(units > 0 /\ does = "close") =>
          /\ d.running /\ d.ended = c.ended
          /\ d.bufferReading = Null /\ d.bufferWriting = c.bufferWriting
    /\ units > 0 /\ does # "drop" =>
          /\ d.length = [c.length EXCEPT ![b] = n]
          /\ d.kept = c.kept \o (IF units = n THEN SubSeq(c.mem[b], 1, n) ELSE <<>>)
          /\ does # "close" => d.buffersWrite = Append(c.buffersWrite, b) /\ d.buffersRead = c.buffersRead
    /\ ~(units > 0 /\ does # "drop") =>
          /\ d.length = [c.length EXCEPT ![b] = 0] /\ d.kept = c.kept
          /\ d.buffersRead = Append(c.buffersRead, b) /\ d.buffersWrite = c.buffersWrite

LEMMA OnReadGives ==
    ASSUME NEW c, Object(c), Typed(c), c.running, NEW b \in Buffers, c.bufferReading = b,
           NEW units \in 0 .. Width - 1, NEW code \in {"success", "ended", "error"}, NEW does,
           NEW n, n = Copy!Least(units, BufferSize),
           NEW d, d = Copy!OnRead(c, units, code, does)
    PROVE  Object(d) /\ Typed(d) /\ Told(c, b, units, code, does, n, d)
<1> DEFINE y == (c.sizeRead + units) % Width
           x == [c EXCEPT !.bufferReading = Null, !.sizeRead = y]
           e == Copy!Pass(x, b, units, does)
<1>0. y \in 0 .. Width - 1
  <2>1. c.sizeRead + units \in Nat /\ Width \in Nat /\ Width > 0
    <3>1. c.sizeRead \in 0 .. Width - 1
      BY DEF Typed
    <3>2. Width \in Nat /\ Width - 1 \in Nat
      BY CopyConstants
    <3> QED BY <3>1, <3>2
  <2> HIDE DEF y
  <2>2. y = (c.sizeRead + units) % Width
    BY DEF y
  <2> QED BY <2>1, <2>2, ModFacts
<1>4. d = CASE code = "error" -> [e EXCEPT !.readError = TRUE]
            [] code = "ended" -> [e EXCEPT !.readEnded = TRUE,
                                           !.sizeTotal = IF @ = Unlimited THEN e.sizeRead ELSE @]
            [] OTHER -> e
  <2>1. b # Copy!Null
    BY CopyConstants DEF Null
  <2> QED BY <2>1, Zenon DEF Copy!OnRead, Null, Unlimited
<1> HIDE DEF y, e, x
<1>b. x = [c EXCEPT !.bufferReading = Null, !.sizeRead = y]
  BY DEF x
<1>1. /\ x.bufferReading = Null /\ x.sizeRead = y
      /\ x.running = c.running /\ x.ended = c.ended /\ x.buffersRead = c.buffersRead
      /\ x.bufferWriting = c.bufferWriting /\ x.buffersWrite = c.buffersWrite
      /\ x.sizeWritten = c.sizeWritten /\ x.sizeTotal = c.sizeTotal
      /\ x.readError = c.readError /\ x.readEnded = c.readEnded /\ x.writeError = c.writeError
      /\ x.mem = c.mem /\ x.length = c.length /\ x.given = c.given
      /\ x.kept = c.kept /\ x.hollow = c.hollow
  BY <1>b DEF Object
<1>2. Object(x)
  BY <1>b DEF Object
<1>3. Typed(x)
  BY <1>0, <1>1 DEF Typed
<1>5. Object(e) /\ Typed(e) /\ Passed(x, b, units, does, n, e)
  BY <1>1, <1>2, <1>3, PassGives DEF e
<1>c. Object(e)
  BY <1>5
<1> DEFINE z == IF code = "ended" /\ e.sizeTotal = Unlimited THEN e.sizeRead ELSE e.sizeTotal
<1>a. z \in 0 .. Width - 1
  BY <1>5 DEF Typed
<1>6. /\ Object(d)
      /\ d.sizeRead = e.sizeRead /\ d.sizeWritten = e.sizeWritten /\ d.sizeTotal = z
      /\ d.readError = IF code = "error" THEN TRUE ELSE e.readError
      /\ d.readEnded = IF code = "ended" THEN TRUE ELSE e.readEnded
      /\ d.writeError = e.writeError /\ d.mem = e.mem /\ d.given = e.given /\ d.hollow = e.hollow
      /\ d.running = e.running /\ d.closed = e.closed /\ d.ended = e.ended
      /\ d.bufferReading = e.bufferReading /\ d.bufferWriting = e.bufferWriting
      /\ d.buffersRead = e.buffersRead /\ d.buffersWrite = e.buffersWrite
      /\ d.length = e.length /\ d.kept = e.kept
  <2>1. CASE code = "error"
    <3>1. d = [e EXCEPT !.readError = TRUE] /\ z = e.sizeTotal
      BY <1>4, <2>1
    <3> HIDE DEF z
    <3> QED BY <1>c, <2>1, <3>1, Zenon DEF Object
  <2>2. CASE code = "ended"
    <3>1. d = [e EXCEPT !.readEnded = TRUE, !.sizeTotal = z]
      BY <1>4, <2>2
    <3> HIDE DEF z
    <3> QED BY <1>c, <2>2, <3>1, Zenon DEF Object
  <2>3. CASE code = "success"
    <3>1. d = e /\ z = e.sizeTotal
      BY <1>4, <2>3
    <3> QED BY <1>5, <2>3, <3>1
  <2> QED BY <2>1, <2>2, <2>3
<1>8. Typed(d)
  <2> HIDE DEF z
  <2> QED BY <1>5, <1>6, <1>a DEF Typed
<1>9. Told(c, b, units, code, does, n, d)
  BY <1>1, <1>5, <1>6 DEF Told, Passed, y
<1> QED BY <1>6, <1>8, <1>9

\* The object with four of its fields changed.
Changed(d, y, l, r, e) ==
    /\ e.sizeRead = d.sizeRead /\ e.sizeWritten = y /\ e.sizeTotal = d.sizeTotal
    /\ e.readError = d.readError /\ e.readEnded = d.readEnded /\ e.writeError = d.writeError
    /\ e.mem = d.mem /\ e.length = l /\ e.given = d.given /\ e.kept = d.kept /\ e.hollow = d.hollow
    /\ e.running = d.running /\ e.ended = d.ended /\ e.closed = d.closed
    /\ e.bufferReading = d.bufferReading /\ e.bufferWriting = Null
    /\ e.buffersWrite = d.buffersWrite /\ e.buffersRead = r

LEMMA FieldsChanged ==
    ASSUME NEW d, Object(d), NEW y, NEW l, NEW r,
           NEW e, e = [d EXCEPT !.bufferWriting = Null, !.sizeWritten = y, !.length = l, !.buffersRead = r]
    PROVE  Object(e) /\ Changed(d, y, l, r, e)
BY DEF Object, Changed

\* d is what onWriteStream() makes of c, which writes from b, when so many units were written
\* with code.
Wrote(c, b, units, code, d) ==
    /\ d.sizeRead = c.sizeRead /\ d.sizeWritten = (c.sizeWritten + units) % Width /\ d.sizeTotal = c.sizeTotal
    /\ d.readError = c.readError /\ d.readEnded = c.readEnded
    /\ d.writeError = IF code = "error" THEN TRUE ELSE c.writeError
    /\ d.mem = c.mem /\ d.length = [c.length EXCEPT ![b] = 0]
    /\ d.given = c.given /\ d.kept = c.kept /\ d.hollow = c.hollow
    /\ d.running = c.running /\ d.ended = c.ended /\ d.closed = c.closed
    /\ d.bufferReading = c.bufferReading /\ d.bufferWriting = Null
    /\ d.buffersWrite = c.buffersWrite /\ d.buffersRead = Append(c.buffersRead, b)

LEMMA OnWriteGives ==
    ASSUME NEW c, Object(c), Typed(c), NEW b \in Buffers, c.bufferWriting = b,
           NEW units \in 0 .. Width - 1, NEW code, NEW does
    PROVE  \E e : /\ Object(e) /\ Typed(e) /\ Wrote(c, b, units, code, e)
                  /\ Copy!OnWrite(c, units, code, does) =
                        IF does = "close" THEN Copy!CloseByProgram(e) ELSE e
<1> DEFINE y == (c.sizeWritten + units) % Width
           r == Append(c.buffersRead, b)
           l == [c.length EXCEPT ![b] = 0]
           d == IF code = "error" THEN [c EXCEPT !.writeError = TRUE] ELSE c
           e == [d EXCEPT !.bufferWriting = Null, !.sizeWritten = y, !.length = l, !.buffersRead = r]
<1>d. Object(d)
  <2>1. CASE code = "error"
    BY <2>1 DEF Object
  <2>2. CASE code # "error"
    BY <2>2
  <2> QED BY <2>1, <2>2
<1>1. /\ d.sizeRead = c.sizeRead /\ d.sizeWritten = c.sizeWritten /\ d.sizeTotal = c.sizeTotal
      /\ d.readError = c.readError /\ d.readEnded = c.readEnded
      /\ d.writeError = IF code = "error" THEN TRUE ELSE c.writeError
      /\ d.mem = c.mem /\ d.length = c.length /\ d.given = c.given /\ d.kept = c.kept /\ d.hollow = c.hollow
      /\ d.running = c.running /\ d.ended = c.ended /\ d.closed = c.closed
      /\ d.bufferReading = c.bufferReading
      /\ d.buffersWrite = c.buffersWrite /\ d.buffersRead = c.buffersRead
  <2>1. CASE code = "error"
    BY <2>1 DEF Object
  <2>2. CASE code # "error"
    BY <2>2
  <2> QED BY <2>1, <2>2
<1>2. Copy!OnWrite(c, units, code, does) = IF does = "close" THEN Copy!CloseByProgram(e) ELSE e
  <2> DEFINE g == [d EXCEPT !.bufferWriting = Null, !.sizeWritten = (@ + units) % Width,
                            !.length[c.bufferWriting] = 0, !.buffersRead = Append(@, c.bufferWriting)]
  <2>1. b # Copy!Null
    BY CopyConstants DEF Null
  <2>2. Copy!OnWrite(c, units, code, does) = IF does = "close" THEN Copy!CloseByProgram(g) ELSE g
    BY <2>1, Zenon DEF Copy!OnWrite, Null
  <2> HIDE DEF d
  <2>3. g = e
    <3>1. g = [d EXCEPT !.bufferWriting = Null, !.sizeWritten = (c.sizeWritten + units) % Width,
                        !.length = [c.length EXCEPT ![b] = 0], !.buffersRead = Append(c.buffersRead, b)]
      BY <1>1, Zenon
    <3> QED BY <3>1, Zenon
  <2> QED BY <2>2, <2>3, Zenon
<1>3. y \in 0 .. Width - 1
  <2>1. c.sizeWritten + units \in Nat /\ Width \in Nat /\ Width > 0
    <3>1. c.sizeWritten \in 0 .. Width - 1
      BY DEF Typed
    <3>2. Width \in Nat /\ Width - 1 \in Nat
      BY CopyConstants
    <3> QED BY <3>1, <3>2
  <2> QED BY <2>1, ModFacts
<1>4. r \in Seq(Buffers)
  BY DEF Typed
<1>5. l \in [Buffers -> 0 .. BufferSize]
  <2>1. c.length \in [Buffers -> 0 .. BufferSize]
    BY DEF Typed
  <2> QED BY <2>1, CopyConstants
<1> HIDE DEF d, y, r, l, e
<1>e. e = [d EXCEPT !.bufferWriting = Null, !.sizeWritten = y, !.length = l, !.buffersRead = r]
  BY Zenon DEF e
<1>6. Object(e) /\ Changed(d, y, l, r, e)
  BY <1>d, <1>e, FieldsChanged, Zenon
<1>8. Typed(e)
  BY <1>1, <1>3, <1>4, <1>5, <1>6 DEF Typed, Changed
<1>9. Wrote(c, b, units, code, e)
  BY <1>1, <1>6, Zenon DEF Wrote, Changed, y, r, l
<1> QED BY <1>2, <1>6, <1>8, <1>9

-----------------------------------------------------------------------------
\* What was told to onEnd.
LEMMA EndedFalse ==
    ASSUME NEW v
    PROVE  /\ Len(Append(<<>>, v)) = 1
           /\ Append(<<>>, v) = <<FALSE>> => v = FALSE
<1>1. Append(<<>>, v) = <<v>> /\ Len(<<v>>) = 1
  OBVIOUS
<1>2. <<v>>[1] = v /\ <<FALSE>>[1] = FALSE
  OBVIOUS
<1> QED BY <1>1, <1>2, Zenon

\* The sizes of a copy that runs and had no error.
LEMMA Numbers ==
    ASSUME NEW c, NEW s, NEW t, NEW o, NEW f \in Nat, Sound(c, s, t, o, f), c.running
    PROVE  /\ Len(o) \in Nat /\ Len(c.kept) \in Nat /\ Len(c.kept) <= CopyLength
           /\ c.sizeRead \in Nat /\ c.sizeWritten \in Nat /\ c.sizeTotal \in Nat
           /\ c.given \in Nat /\ c.given <= CopyLength /\ f <= c.given /\ Len(c.kept) <= c.given - f
           /\ ~c.readError => Len(o) <= Len(c.kept) /\ c.sizeRead = c.given - f /\ c.sizeRead <= c.sizeTotal
           /\ ~c.writeError => c.sizeWritten = Len(o)
<1>1. /\ o \in Seq(0 .. CopyLength) /\ c.kept \in Seq(0 .. CopyLength)
      /\ c.sizeRead \in 0 .. Width - 1 /\ c.sizeWritten \in 0 .. Width - 1 /\ c.sizeTotal \in 0 .. Width - 1
      /\ c.given \in 0 .. CopyLength
  BY DEF Sound, Typed
<1>2. KeptRises(c, c.given - f) /\ SizesSay(c, o, f) /\ OnTheirWay(c, s, t, o)
  BY DEF Sound
<1>3. /\ Len(c.kept) <= c.given - f /\ f <= c.given
      /\ ~c.readError => c.sizeRead = c.given - f /\ c.sizeRead <= c.sizeTotal
      /\ ~c.writeError => c.sizeWritten = Len(o)
      /\ Len(o) > Len(c.kept) => c.readError
  BY <1>2 DEF KeptRises, SizesSay, OnTheirWay
<1>4. Len(o) \in Nat /\ Len(c.kept) \in Nat
  BY <1>1
<1> QED BY <1>1, <1>3, <1>4, CopyConstants

\* Where as much is written as was to be copied, and there was no error, all is.
LEMMA AllIsWritten ==
    ASSUME NEW c, NEW s, NEW t, NEW o, NEW f \in Nat, Sound(c, s, t, o, f), c.running,
           ~c.readError, ~c.writeError, c.sizeWritten = c.sizeTotal
    PROVE  t = <<>> /\ o = [i \in 1 .. c.sizeTotal |-> i]
<1> DEFINE k == Len(c.kept)
<1>1. /\ k \in Nat /\ Len(o) = k /\ c.sizeTotal = k /\ c.given - f = k
  BY Numbers
<1>2. o \in Seq(0 .. CopyLength) /\ c.kept \in Seq(0 .. CopyLength)
  BY DEF Sound, Typed
<1>3. ASSUME NEW i \in 1 .. k PROVE o[i] = i
  <2>1. o[i] = c.kept[i]
    BY <1>1 DEF Sound, OnTheirWay
  <2>2. i <= c.kept[i] /\ c.kept[i] + (k - i) <= k
    BY <1>1 DEF Sound, KeptRises
  <2>3. c.kept[i] \in 0 .. CopyLength
    BY <1>2, ElementOfSeq
  <2>4. \A x \in 0 .. CopyLength : i <= x /\ x + (k - i) <= k => x = i
    BY <1>1, CopyConstants
  <2> QED BY <2>1, <2>2, <2>3, <2>4
<1>4. o = [i \in 1 .. c.sizeTotal |-> i]
  <2>1. o \in [1 .. Len(o) -> 0 .. CopyLength]
    BY <1>2, LenProperties
  <2> QED BY <1>1, <1>3, <2>1
<1>5. t = <<>>
  <2> SUFFICES ASSUME t # <<>> PROVE FALSE
    OBVIOUS
  <2>1. PICK q \in Asks : Len(o) + q.size > Len(c.kept) => c.readError
    BY DEF Sound, OnTheirWay
  <2>2. q.size \in 1 .. BufferSize
    BY DEF Asks
  <2> QED BY <1>1, <2>1, <2>2
<1> QED BY <1>4, <1>5

\* A copy that runs may be closed when there was an error, when the program closes it, and
\* when all is done.
LEMMA CloseSound ==
    ASSUME NEW c, NEW s, NEW t, NEW o, NEW f \in Nat, Sound(c, s, t, o, f), c.running,
           NEW d, Object(d), Typed(d), Closes(c, d),
           \/ c.readError \/ c.writeError \/ d.closed \/ d.hollow
           \/ t = <<>> /\ o = c.kept /\ (c.readEnded \/ c.sizeRead = c.sizeTotal),
           NEW g
    PROVE  Sound(d, s, t, o, g)
<1> DEFINE v == c.readError \/ c.writeError
<1>1. d.ended = Append(<<>>, v)
  BY DEF Closes, Sound
<1>2. Len(d.ended) = 1 /\ (d.ended = <<FALSE>> => v = FALSE)
  BY <1>1, EndedFalse
<1>3. d.ended = <<FALSE>> => ~c.readError /\ ~c.writeError
  BY <1>2, Zenon
<1> HIDE DEF v
<1>4. d.ended = <<FALSE>> /\ d.sizeWritten = d.sizeTotal => t = <<>> /\ o = [i \in 1 .. d.sizeTotal |-> i]
  BY <1>3, AllIsWritten, Zenon DEF Closes
<1>5. d.ended = <<FALSE>> /\ ~d.closed /\ ~d.hollow =>
          t = <<>> /\ o = d.kept /\ (d.readEnded \/ d.sizeRead = d.sizeTotal)
  BY <1>3 DEF Closes
<1>6. EndSays(d, t, o)
  BY <1>2, <1>4, <1>5 DEF EndSays
<1>7. OnTheirWay(d, s, t, o)
  BY DEF OnTheirWay, Holds, Closes, Sound
<1>8. ~d.running /\ o \in Seq(0 .. CopyLength)
  BY DEF Closes, Sound
<1> QED BY <1>6, <1>7, <1>8 DEF Sound

\* What the program's close() makes of a copy that runs.
LEMMA ClosedByProgramSound ==
    ASSUME NEW c, NEW s, NEW t, NEW o, NEW f \in Nat, Sound(c, s, t, o, f), c.running, NEW g
    PROVE  Sound(Copy!CloseByProgram(c), s, t, o, g) /\ ~Copy!CloseByProgram(c).running
<1> DEFINE d == Copy!CloseByProgram(c)
<1>1. Object(c) /\ Typed(c)
  BY DEF Sound
<1>2. Object(d) /\ Typed(d) /\ Closes(c, d) /\ d.closed
  BY <1>1, CloseByProgramGives
<1> HIDE DEF d
<1>3. Sound(d, s, t, o, g)
  BY <1>2, CloseSound
<1> QED BY <1>2, <1>3 DEF Closes, d

-----------------------------------------------------------------------------
\* The first of a sequence, and the others.
LEMMA HeadAndTail ==
    ASSUME NEW S, NEW r \in Seq(S), r # <<>>
    PROVE  /\ Head(r) = r[1] /\ Head(r) \in S /\ Tail(r) \in Seq(S)
           /\ Len(r) \in Nat /\ Len(r) >= 1 /\ Len(Tail(r)) = Len(r) - 1
           /\ \A i \in 1 .. Len(r) - 1 : Tail(r)[i] = r[i + 1]
OBVIOUS

\* The object with a buffer taken to be read into.
Taken(c, b, r, d) ==
    /\ d.bufferReading = b /\ d.buffersRead = r
    /\ d.bufferWriting = c.bufferWriting /\ d.buffersWrite = c.buffersWrite
    /\ d.sizeRead = c.sizeRead /\ d.sizeWritten = c.sizeWritten /\ d.sizeTotal = c.sizeTotal
    /\ d.readError = c.readError /\ d.readEnded = c.readEnded /\ d.writeError = c.writeError
    /\ d.running = c.running /\ d.mem = c.mem /\ d.length = c.length /\ d.given = c.given
    /\ d.kept = c.kept /\ d.ended = c.ended /\ d.closed = c.closed /\ d.hollow = c.hollow

LEMMA FieldsTaken ==
    ASSUME NEW c, Object(c), NEW b, NEW r, NEW d, d = [c EXCEPT !.bufferReading = b, !.buffersRead = r]
    PROVE  Object(d) /\ Taken(c, b, r, d)
BY DEF Object, Taken

\* A read is asked of the source: enqueue() takes a buffer for it.
LEMMA TakeSound ==
    ASSUME NEW c, NEW t, NEW o, Sound(c, <<>>, t, o, 0), c.running, Copy!CanRead(c),
           NEW d, d = Copy!Take(c), NEW n, n = Copy!ReadSize(c)
    PROVE  /\ d.running /\ d.bufferReading \in Buffers /\ n \in 1 .. BufferSize /\ d.hollow = c.hollow
           /\ Sound(d, <<[buffer |-> d.bufferReading, size |-> n]>>, t, o, 0)
<1> DEFINE r == c.buffersRead
           q == [buffer |-> d.bufferReading, size |-> n]
<1>1. /\ ~c.readError /\ ~c.readEnded /\ c.sizeRead < c.sizeTotal
      /\ c.bufferReading = Null /\ r # <<>>
  BY DEF Copy!CanRead, Null
<1>a. Object(c)
  BY DEF Sound
<1>2. Typed(c) /\ OnePlace(c) /\ Asked(c, <<>>, t) /\ OnTheirWay(c, <<>>, t, o)
  BY DEF Sound
<1>3. r \in Seq(Buffers)
  BY <1>2 DEF Typed
<1>4. /\ Head(r) = r[1] /\ Head(r) \in Buffers /\ Tail(r) \in Seq(Buffers)
      /\ Len(r) \in Nat /\ Len(r) >= 1 /\ Len(Tail(r)) = Len(r) - 1
      /\ \A i \in 1 .. Len(r) - 1 : Tail(r)[i] = r[i + 1]
  BY <1>1, <1>3, HeadAndTail
<1>5. d = [c EXCEPT !.bufferReading = Head(r), !.buffersRead = Tail(r)]
  BY DEF Copy!Take
<1> HIDE DEF r
<1>b. Object(d) /\ Taken(c, Head(r), Tail(r), d)
  BY <1>a, <1>5, FieldsTaken, Zenon
<1>6. /\ d.bufferReading = Head(r) /\ d.buffersRead = Tail(r)
      /\ d.bufferWriting = c.bufferWriting /\ d.buffersWrite = c.buffersWrite
      /\ d.sizeRead = c.sizeRead /\ d.sizeWritten = c.sizeWritten /\ d.sizeTotal = c.sizeTotal
      /\ d.readError = c.readError /\ d.readEnded = c.readEnded /\ d.writeError = c.writeError
      /\ d.running = c.running /\ d.mem = c.mem /\ d.length = c.length /\ d.given = c.given
      /\ d.kept = c.kept /\ d.ended = c.ended /\ d.closed = c.closed /\ d.hollow = c.hollow
  BY <1>b DEF Taken
<1>7. Object(d)
  BY <1>b
<1>8. Typed(d)
  BY <1>2, <1>4, <1>6 DEF Typed
<1>9. n \in 1 .. BufferSize /\ n <= c.sizeTotal - c.sizeRead
  <2>1. c.sizeTotal \in 0 .. Width - 1 /\ c.sizeRead \in 0 .. Width - 1
    BY <1>2 DEF Typed
  <2>2. c.sizeTotal - c.sizeRead \in Nat /\ c.sizeTotal - c.sizeRead >= 1
    BY <1>1, <2>1, CopyConstants
  <2>3. /\ n \in Nat /\ n <= BufferSize /\ n <= c.sizeTotal - c.sizeRead
        /\ n = BufferSize \/ n = c.sizeTotal - c.sizeRead
    BY <2>2, CopyConstants DEF Copy!ReadSize, Copy!Least
  <2> QED BY <2>2, <2>3, CopyConstants
<1>10. q \in Asks /\ q.buffer = d.bufferReading /\ q.size = n /\ <<q>>[1] = q /\ <<q>> # <<>>
  BY <1>4, <1>6, <1>9 DEF Asks
<1>11. d.bufferReading = r[1] /\ d.bufferReading # Null /\ d.bufferReading # c.bufferWriting
  BY <1>2, <1>4, <1>6, CopyConstants DEF OnePlace, Apart, r
<1>12. OnTheirWay(d, <<q>>, t, o)
  <2>1. t # <<>> => t[1].buffer = c.bufferWriting
    <3>1. SUFFICES ASSUME t # <<>> PROVE t[1].buffer = c.bufferWriting
      OBVIOUS
    <3>2. t = <<[buffer |-> c.bufferWriting, size |-> c.length[c.bufferWriting]]>>
      BY <1>2, <3>1 DEF Asked
    <3> QED BY <3>2
  <2>2. t # <<>> => <<q>>[1].buffer # t[1].buffer
    BY <1>10, <1>11, <2>1
  <2> HIDE DEF q
  <2> QED BY <1>2, <1>6, <1>10, <2>2 DEF OnTheirWay, Holds
<1>13. OnePlace(d)
  <2>1. /\ \A i, j \in 1 .. Len(d.buffersRead) : d.buffersRead[i] = d.buffersRead[j] => i = j
        /\ \A i \in 1 .. Len(d.buffersRead), j \in 1 .. Len(d.buffersWrite) : d.buffersRead[i] # d.buffersWrite[j]
        /\ \A i \in 1 .. Len(d.buffersRead) : d.buffersRead[i] # d.bufferReading /\ d.buffersRead[i] # d.bufferWriting
    BY <1>2, <1>4, <1>6 DEF OnePlace, Apart, r
  <2>2. /\ \A i, j \in 1 .. Len(d.buffersWrite) : d.buffersWrite[i] = d.buffersWrite[j] => i = j
        /\ \A i \in 1 .. Len(d.buffersWrite) : /\ d.buffersWrite[i] # d.bufferReading
                                               /\ d.buffersWrite[i] # d.bufferWriting
    BY <1>2, <1>4, <1>6, <1>11 DEF OnePlace, Apart, r
  <2>3. /\ d.bufferReading # Null => d.bufferReading # d.bufferWriting
        /\ Len(d.buffersRead) + Len(d.buffersWrite) + (IF d.bufferReading = Null THEN 0 ELSE 1)
              + (IF d.bufferWriting = Null THEN 0 ELSE 1) = BufferCount
    <3>1. c.buffersWrite \in Seq(Buffers)
      BY <1>2 DEF Typed
    <3>2. Len(c.buffersWrite) \in Nat
      BY <3>1
    <3> DEFINE w == IF c.bufferWriting = Null THEN 0 ELSE 1
    <3>3. w \in Nat
      OBVIOUS
    <3>4. Len(r) + Len(c.buffersWrite) + w = BufferCount
      <4>1. Len(r) + Len(c.buffersWrite) + (IF c.bufferReading = Null THEN 0 ELSE 1) + w = BufferCount
        BY <1>2, Zenon DEF OnePlace, Apart, r
      <4>2. (IF c.bufferReading = Null THEN 0 ELSE 1) = 0
        BY <1>1
      <4>3. Len(r) \in Nat
        BY <1>4
      <4> DEFINE x == Len(r)
                 y == Len(c.buffersWrite)
                 z == IF c.bufferReading = Null THEN 0 ELSE 1
      <4>4. x \in Nat /\ y \in Nat /\ z = 0 /\ x + y + z + w = BufferCount
        BY <3>2, <4>1, <4>2, <4>3
      <4> HIDE DEF w, x, y, z
      <4>5. x + y + w = BufferCount
        BY <3>3, <4>4
      <4> QED BY <4>5 DEF x, y
    <3>5. (IF d.bufferReading = Null THEN 0 ELSE 1) = 1
      BY <1>11
    <3>6. (IF d.bufferWriting = Null THEN 0 ELSE 1) = w
      BY <1>6
    <3> HIDE DEF w
    <3>7. Len(Tail(r)) + Len(c.buffersWrite) + 1 + w = BufferCount
      BY <1>4, <3>2, <3>3, <3>4
    <3> QED BY <1>6, <1>11, <3>5, <3>6, <3>7
  <2> QED BY <2>1, <2>2, <2>3 DEF OnePlace, Apart
<1>14. Asked(d, <<q>>, t)
  <2>1. c.sizeTotal \in 0 .. Width - 1 /\ c.sizeRead \in 0 .. Width - 1
    BY <1>2 DEF Typed
  <2>2. d.sizeRead + n <= d.sizeTotal
    BY <1>6, <1>9, <2>1, CopyConstants
  <2> QED BY <1>1, <1>2, <1>6, <1>9, <1>11, <2>2 DEF Asked
<1>15. KeptRises(d, d.given - 0) /\ SizesSay(d, o, 0) /\ d.ended = <<>> /\ d.running
  BY <1>6 DEF Sound, KeptRises, SizesSay
<1>16. ~d.writeError => Flow(d, o)
  BY <1>6 DEF Sound, Flow, Follows, Holds
<1>17. o \in Seq(0 .. CopyLength)
  BY DEF Sound
<1> HIDE DEF q
<1>18. Sound(d, <<q>>, t, o, 0)
  BY <1>7, <1>8, <1>12, <1>13, <1>14, <1>15, <1>16, <1>17 DEF Sound
<1> QED BY <1>4, <1>6, <1>9, <1>15, <1>18 DEF q

\* The object with a buffer taken to be written from.
Sent(c, b, w, d) ==
    /\ d.bufferWriting = b /\ d.buffersWrite = w
    /\ d.bufferReading = c.bufferReading /\ d.buffersRead = c.buffersRead
    /\ d.sizeRead = c.sizeRead /\ d.sizeWritten = c.sizeWritten /\ d.sizeTotal = c.sizeTotal
    /\ d.readError = c.readError /\ d.readEnded = c.readEnded /\ d.writeError = c.writeError
    /\ d.running = c.running /\ d.mem = c.mem /\ d.length = c.length /\ d.given = c.given
    /\ d.kept = c.kept /\ d.ended = c.ended /\ d.closed = c.closed /\ d.hollow = c.hollow

LEMMA FieldsSent ==
    ASSUME NEW c, Object(c), NEW b, NEW w, NEW d, d = [c EXCEPT !.bufferWriting = b, !.buffersWrite = w]
    PROVE  Object(d) /\ Sent(c, b, w, d)
BY DEF Object, Sent

\* A write is asked of the target: enqueue() takes the first buffer that waits.
LEMMA SendSound ==
    ASSUME NEW c, NEW s, NEW o, Sound(c, s, <<>>, o, 0), c.running, Copy!CanWrite(c),
           NEW b, b = Head(c.buffersWrite),
           NEW d, Object(d), Sent(c, b, Tail(c.buffersWrite), d)
    PROVE  /\ d.running /\ b \in Buffers /\ c.length[b] \in 1 .. BufferSize /\ d.bufferWriting = b
           /\ Sound(d, s, <<[buffer |-> b, size |-> c.length[b]]>>, o, 0)
<1> DEFINE w == c.buffersWrite
           q == [buffer |-> b, size |-> c.length[b]]
<1>1. ~c.writeError /\ c.bufferWriting = Null /\ w # <<>>
  BY DEF Copy!CanWrite, Null
<1>2. /\ Typed(c) /\ OnePlace(c) /\ Asked(c, s, <<>>) /\ OnTheirWay(c, s, <<>>, o)
      /\ o \in Seq(0 .. CopyLength)
  BY DEF Sound
<1>3. w \in Seq(Buffers)
  BY <1>2 DEF Typed
<1>4. /\ b = w[1] /\ b \in Buffers /\ Tail(w) \in Seq(Buffers)
      /\ Len(w) \in Nat /\ Len(w) >= 1 /\ Len(Tail(w)) = Len(w) - 1
      /\ \A i \in 1 .. Len(w) - 1 : Tail(w)[i] = w[i + 1]
  BY <1>1, <1>3, HeadAndTail
<1>b. Object(d) /\ Sent(c, b, Tail(w), d)
  OBVIOUS
<1> HIDE DEF w
<1>6. /\ d.bufferWriting = b /\ d.buffersWrite = Tail(w)
      /\ d.bufferReading = c.bufferReading /\ d.buffersRead = c.buffersRead
      /\ d.sizeRead = c.sizeRead /\ d.sizeWritten = c.sizeWritten /\ d.sizeTotal = c.sizeTotal
      /\ d.readError = c.readError /\ d.readEnded = c.readEnded /\ d.writeError = c.writeError
      /\ d.running = c.running /\ d.mem = c.mem /\ d.length = c.length /\ d.given = c.given
      /\ d.kept = c.kept /\ d.ended = c.ended /\ d.closed = c.closed /\ d.hollow = c.hollow
  BY <1>b DEF Sent
<1>8. Typed(d)
  BY <1>2, <1>4, <1>6 DEF Typed
<1>9. PICK off \in [1 .. Len(w) + 1 -> Nat] : Follows(c, o, off)
  BY <1>1 DEF Sound, Flow, w
<1>10. Len(o) \in Nat /\ Len(c.kept) \in Nat
  BY Numbers
<1>11. /\ off[1] = Len(o)
       /\ \A i \in 1 .. Len(w) : /\ c.length[w[i]] >= 1 /\ off[i + 1] = off[i] + c.length[w[i]]
                                 /\ Holds(c, w[i], c.length[w[i]], off[i])
       /\ \A i \in 1 .. Len(w) + 1 : /\ off[i] <= Len(c.kept) + BufferSize
                                     /\ off[i] > Len(c.kept) => c.readError
       /\ off[Len(w) + 1] >= Len(c.kept)
  <2>1. off[1] = Len(o) + 0
    BY <1>1, <1>9, Zenon DEF Follows
  <2> QED BY <1>9, <1>10, <2>1 DEF Follows, w
<1>12. c.length[b] \in 1 .. BufferSize
  <2>1. c.length[b] \in 0 .. BufferSize
    BY <1>2, <1>4 DEF Typed
  <2>2. c.length[b] >= 1
    BY <1>4, <1>11
  <2> QED BY <2>1, <2>2, CopyConstants
<1>13. /\ off[2] = Len(o) + c.length[b]
       /\ Holds(c, b, c.length[b], Len(o)) /\ (off[2] > Len(c.kept) => c.readError)
  <2>1. 1 \in 1 .. Len(w) /\ 2 \in 1 .. Len(w) + 1 /\ 1 + 1 = 2
    BY <1>4
  <2> QED BY <1>4, <1>11, <2>1
<1>14. q \in Asks /\ q.buffer = b /\ q.size = c.length[b] /\ <<q>>[1] = q /\ <<q>> # <<>>
  BY <1>4, <1>12 DEF Asks
<1>c. /\ \A i, j \in 1 .. Len(w) : w[i] = w[j] => i = j
      /\ \A i \in 1 .. Len(w) : w[i] # c.bufferReading /\ w[i] # c.bufferWriting
      /\ \A i \in 1 .. Len(c.buffersRead), j \in 1 .. Len(w) : c.buffersRead[i] # w[j]
  BY <1>2, Zenon DEF OnePlace, Apart, w
<1>d. 1 \in 1 .. Len(w) /\ \A i \in 1 .. Len(w) - 1 : i + 1 \in 1 .. Len(w)
  BY <1>4
<1>e. /\ d.bufferWriting = w[1] /\ d.buffersRead = c.buffersRead /\ d.bufferReading = c.bufferReading
      /\ Len(d.buffersWrite) = Len(w) - 1
      /\ \A i \in 1 .. Len(w) - 1 : d.buffersWrite[i] = w[i + 1]
  BY <1>4, <1>6
<1>15. b # Null /\ b # c.bufferReading
  BY <1>4, <1>c, <1>d, CopyConstants
<1>16. OnTheirWay(d, s, <<q>>, o)
  <2>1. s # <<>> => s[1].buffer = c.bufferReading
    <3>1. SUFFICES ASSUME s # <<>> PROVE s[1].buffer = c.bufferReading
      OBVIOUS
    <3>2. PICK n \in 1 .. BufferSize : s = <<[buffer |-> c.bufferReading, size |-> n]>>
      BY <1>2, <3>1 DEF Asked
    <3> QED BY <3>2
  <2>2. s # <<>> => s[1].buffer # <<q>>[1].buffer
    BY <1>14, <1>15, <2>1
  <2>3. Holds(d, q.buffer, q.size, Len(o))
    BY <1>6, <1>13, <1>14 DEF Holds
  <2>4. Len(o) + q.size > Len(d.kept) => d.readError
    BY <1>6, <1>13, <1>14
  <2> HIDE DEF q
  <2> QED BY <1>2, <1>6, <1>14, <2>2, <2>3, <2>4 DEF OnTheirWay
<1>17. OnePlace(d)
  <2>1. /\ \A i, j \in 1 .. Len(d.buffersRead) : d.buffersRead[i] = d.buffersRead[j] => i = j
        /\ \A i \in 1 .. Len(d.buffersRead) : d.buffersRead[i] # d.bufferReading
    BY <1>2, <1>6 DEF OnePlace, Apart
  <2>2. \A i \in 1 .. Len(d.buffersRead) : d.buffersRead[i] # d.bufferWriting
    BY <1>c, <1>d, <1>e
  <2>3. /\ \A i, j \in 1 .. Len(d.buffersWrite) : d.buffersWrite[i] = d.buffersWrite[j] => i = j
        /\ \A i \in 1 .. Len(d.buffersWrite) : d.buffersWrite[i] # d.bufferWriting
    <3>1. ASSUME NEW i \in 1 .. Len(w) - 1, NEW j \in 1 .. Len(w) - 1, d.buffersWrite[i] = d.buffersWrite[j]
          PROVE  i = j
      <4>1. i + 1 \in 1 .. Len(w) /\ j + 1 \in 1 .. Len(w) /\ w[i + 1] = w[j + 1]
        BY <1>d, <1>e, <3>1, Zenon
      <4>2. i + 1 = j + 1
        BY <1>c, <4>1
      <4> QED BY <4>2
    <3>2. ASSUME NEW i \in 1 .. Len(w) - 1 PROVE d.buffersWrite[i] # w[1]
      <4>1. i + 1 \in 1 .. Len(w) /\ d.buffersWrite[i] = w[i + 1]
        BY <1>d, <1>e, Zenon
      <4>2. i + 1 # 1
        OBVIOUS
      <4> QED BY <1>c, <1>d, <4>1, <4>2, Zenon
    <3> QED BY <1>e, <3>1, <3>2
  <2>4. /\ \A i \in 1 .. Len(d.buffersRead), j \in 1 .. Len(d.buffersWrite) : d.buffersRead[i] # d.buffersWrite[j]
        /\ \A i \in 1 .. Len(d.buffersWrite) : d.buffersWrite[i] # d.bufferReading
    <3>1. \A i \in 1 .. Len(c.buffersRead), j \in 1 .. Len(w) - 1 : c.buffersRead[i] # d.buffersWrite[j]
      <4>1. SUFFICES ASSUME NEW i \in 1 .. Len(c.buffersRead), NEW j \in 1 .. Len(w) - 1
                     PROVE  c.buffersRead[i] # d.buffersWrite[j]
        OBVIOUS
      <4>2. j + 1 \in 1 .. Len(w) /\ d.buffersWrite[j] = w[j + 1]
        BY <1>d, <1>e, Zenon
      <4> QED BY <1>c, <4>2, Zenon
    <3>2. \A j \in 1 .. Len(w) - 1 : d.buffersWrite[j] # c.bufferReading
      BY <1>c, <1>d, <1>e, Zenon
    <3> QED BY <1>e, <3>1, <3>2
  <2>5. Len(d.buffersRead) + Len(d.buffersWrite) + (IF d.bufferReading = Null THEN 0 ELSE 1)
              + (IF d.bufferWriting = Null THEN 0 ELSE 1) = BufferCount
    <3> DEFINE x == Len(c.buffersRead)
               y == Len(w)
               z == IF c.bufferReading = Null THEN 0 ELSE 1
    <3>1. c.buffersRead \in Seq(Buffers)
      BY <1>2 DEF Typed
    <3>2. x \in Nat /\ y \in Nat /\ z \in Nat
      BY <1>4, <3>1
    <3>3. x + y + z + (IF c.bufferWriting = Null THEN 0 ELSE 1) = BufferCount
      BY <1>2, Zenon DEF OnePlace, Apart, w
    <3>4. (IF c.bufferWriting = Null THEN 0 ELSE 1) = 0 /\ (IF d.bufferWriting = Null THEN 0 ELSE 1) = 1
      BY <1>1, <1>6, <1>15
    <3>5. Len(d.buffersRead) = x /\ Len(d.buffersWrite) = y - 1 /\ (IF d.bufferReading = Null THEN 0 ELSE 1) = z
      BY <1>4, <1>6
    <3> HIDE DEF x, y, z
    <3>6. x + y + z + 0 = BufferCount
      BY <3>3, <3>4, Zenon
    <3>7. x + (y - 1) + z + 1 = BufferCount
      BY <3>2, <3>6
    <3> QED BY <3>4, <3>5, <3>7, Zenon
  <2> QED BY <1>6, <1>15, <2>1, <2>2, <2>3, <2>4, <2>5 DEF OnePlace, Apart
<1>18. Asked(d, s, <<q>>)
  BY <1>1, <1>2, <1>6, <1>12, <1>15 DEF Asked
<1>19. KeptRises(d, d.given - 0) /\ SizesSay(d, o, 0) /\ d.ended = <<>> /\ d.running
  BY <1>6 DEF Sound, KeptRises, SizesSay
<1>20. Flow(d, o)
  <2> DEFINE new == [i \in 1 .. Len(Tail(w)) + 1 |-> off[i + 1]]
  <2>1. new \in [1 .. Len(Tail(w)) + 1 -> Nat]
    BY <1>4, <1>9
  <2>2. \A i \in 1 .. Len(w) : new[i] = off[i + 1]
    BY <1>4
  <2> HIDE DEF new
  <2>3. new[1] = Len(o) + c.length[b]
    BY <1>4, <1>13, <2>2
  <2>4. \A i \in 1 .. Len(Tail(w)) : /\ c.length[Tail(w)[i]] >= 1 /\ new[i + 1] = new[i] + c.length[Tail(w)[i]]
                                     /\ Holds(c, Tail(w)[i], c.length[Tail(w)[i]], new[i])
    <3> SUFFICES ASSUME NEW i \in 1 .. Len(w) - 1
                 PROVE  /\ c.length[w[i + 1]] >= 1 /\ new[i + 1] = new[i] + c.length[w[i + 1]]
                        /\ Holds(c, w[i + 1], c.length[w[i + 1]], new[i])
      BY <1>4
    <3>1. i + 1 \in 1 .. Len(w) /\ i \in 1 .. Len(w)
      BY <1>4
    <3> QED BY <1>11, <2>2, <3>1
  <2>5. \A i \in 1 .. Len(Tail(w)) + 1 : /\ new[i] <= Len(c.kept) + BufferSize
                                         /\ new[i] > Len(c.kept) => c.readError
    <3> SUFFICES ASSUME NEW i \in 1 .. Len(w)
                 PROVE  new[i] <= Len(c.kept) + BufferSize /\ (new[i] > Len(c.kept) => c.readError)
      BY <1>4
    <3>1. i + 1 \in 1 .. Len(w) + 1
      BY <1>4
    <3> QED BY <1>11, <2>2, <3>1
  <2>6. new[Len(Tail(w)) + 1] >= Len(c.kept)
    BY <1>4, <1>11, <2>2
  <2>7. Follows(d, o, new)
    <3>1. new[1] = Len(o) + (IF d.bufferWriting = Null THEN 0 ELSE d.length[d.bufferWriting])
      BY <1>6, <1>15, <2>3
    <3>2. \A x, n, k : Holds(c, x, n, k) => Holds(d, x, n, k)
      BY <1>6, Zenon DEF Holds
    <3>3. d.buffersWrite = Tail(w) /\ d.length = c.length /\ d.kept = c.kept /\ d.readError = c.readError
      BY <1>6
    <3>4. \A i \in 1 .. Len(Tail(w)) : /\ d.length[d.buffersWrite[i]] >= 1
                                         /\ new[i + 1] = new[i] + d.length[d.buffersWrite[i]]
                                         /\ Holds(d, d.buffersWrite[i], d.length[d.buffersWrite[i]], new[i])
      BY <2>4, <3>2, <3>3, Zenon
    <3> QED BY <2>5, <2>6, <3>1, <3>3, <3>4, Zenon DEF Follows
  <2> QED BY <1>6, <2>1, <2>7 DEF Flow
<1> HIDE DEF q
<1>21. Sound(d, s, <<q>>, o, 0)
  BY <1>2, <1>b, <1>8, <1>16, <1>17, <1>18, <1>19, <1>20 DEF Sound
<1> QED BY <1>4, <1>6, <1>12, <1>19, <1>21 DEF q

-----------------------------------------------------------------------------
\* What was written is still what was kept, when a part of what the target was asked is
\* written too.
LEMMA WrittenMore ==
    ASSUME NEW c, Typed(c), NEW s, NEW q \in Asks, NEW o \in Seq(0 .. CopyLength), OnTheirWay(c, s, <<q>>, o),
           NEW n \in 0 .. q.size
    PROVE  LET p == o \o SubSeq(c.mem[q.buffer], 1, n) IN
           /\ p \in Seq(0 .. CopyLength) /\ Len(o) \in Nat /\ Len(p) = Len(o) + n
           /\ \A i \in 1 .. Len(p) : i <= Len(c.kept) => p[i] = c.kept[i]
           /\ Len(p) > Len(c.kept) => c.readError
<1> DEFINE m == c.mem[q.buffer]
           x == SubSeq(m, 1, n)
           p == o \o x
<1>1. q.buffer \in Buffers /\ q.size \in 1 .. BufferSize /\ n \in 0 .. BufferSize /\ n <= q.size
  BY CopyConstants DEF Asks
<1>2. m \in [1 .. BufferSize -> 0 .. CopyLength]
  BY <1>1 DEF Typed
<1> HIDE DEF m
<1>3. x \in Seq(0 .. CopyLength) /\ Len(x) = n /\ \A i \in 1 .. n : x[i] = m[i]
  <2>1. n \in 0 .. BufferSize
    BY <1>1
  <2>2. SubSeq(m, 1, n) \in Seq(0 .. CopyLength) /\ Len(SubSeq(m, 1, n)) = n
    BY <1>2, <2>1, PartOfMemory
  <2>3. \A i \in 1 .. n : SubSeq(m, 1, n)[i] = m[i]
    BY <1>2, <2>1, PartOfMemory
  <2> QED BY <2>2, <2>3
<1> HIDE DEF x, p
<1>4. p = o \o x
  BY Zenon DEF p
<1>5. /\ p \in Seq(0 .. CopyLength) /\ Len(o) \in Nat /\ Len(p) = Len(o) + n
      /\ \A i \in 1 .. Len(p) : p[i] = IF i <= Len(o) THEN o[i] ELSE x[i - Len(o)]
  <2>1. o \o x \in Seq(0 .. CopyLength)
    BY <1>3, ConcatProperties
  <2>2. Len(o \o x) = Len(o) + Len(x)
    BY <1>3, ConcatProperties
  <2>3. \A i \in 1 .. Len(o) + Len(x) : (o \o x)[i] = IF i <= Len(o) THEN o[i] ELSE x[i - Len(o)]
    BY <1>3, ConcatProperties
  <2>4. Len(o) \in Nat
    BY LenProperties
  <2> QED BY <1>3, <1>4, <2>1, <2>2, <2>3, <2>4, Zenon
<1>6. Len(c.kept) \in Nat
  <2>1. c.kept \in Seq(0 .. CopyLength)
    BY DEF Typed
  <2> QED BY <2>1
<1>7. <<q>> # <<>>
  OBVIOUS
<1>8. /\ Holds(c, q.buffer, q.size, Len(o)) /\ (Len(o) + q.size > Len(c.kept) => c.readError)
      /\ \A i \in 1 .. Len(o) : i <= Len(c.kept) => o[i] = c.kept[i]
  <2>1. PICK a \in Asks : /\ <<q>> = <<a>> /\ Holds(c, a.buffer, a.size, Len(o))
                          /\ Len(o) + a.size > Len(c.kept) => c.readError
    BY <1>7 DEF OnTheirWay
  <2>2. a = q
    BY <2>1
  <2> QED BY <2>1, <2>2 DEF OnTheirWay
<1>9. ASSUME NEW i \in 1 .. Len(p), i <= Len(c.kept) PROVE p[i] = c.kept[i]
  <2>1. CASE i <= Len(o)
    <3>1. i \in 1 .. Len(o) /\ p[i] = o[i]
      BY <1>5, <2>1
    <3> QED BY <1>8, <1>9, <3>1
  <2>2. CASE ~(i <= Len(o))
    <3> DEFINE j == i - Len(o)
    <3>1. j \in 1 .. n /\ j \in 1 .. q.size /\ Len(o) + j = i /\ p[i] = x[j]
      BY <1>1, <1>5, <2>2
    <3> HIDE DEF j
    <3>2. x[j] = c.mem[q.buffer][j]
      BY <1>3, <3>1 DEF m
    <3>3. c.mem[q.buffer][j] = c.kept[Len(o) + j]
      BY <1>8, <1>9, <3>1 DEF Holds
    <3> QED BY <3>1, <3>2, <3>3
  <2> QED BY <2>1, <2>2
<1>10. Len(p) > Len(c.kept) => c.readError
  BY <1>1, <1>5, <1>6, <1>8
<1> QED BY <1>5, <1>9, <1>10, Zenon DEF p, x, m

\* A buffer that was written from waits to be read into again.
LEMMA GivenBack ==
    ASSUME NEW c, Typed(c), OnePlace(c), NEW b \in Buffers, c.bufferWriting = b,
           NEW e, e.bufferWriting = Null, e.buffersRead = Append(c.buffersRead, b),
           e.buffersWrite = c.buffersWrite, e.bufferReading = c.bufferReading
    PROVE  OnePlace(e)
<1> DEFINE r == c.buffersRead
           w == c.buffersWrite
<1>1. r \in Seq(Buffers) /\ w \in Seq(Buffers) /\ Null \notin Buffers
  BY CopyConstants DEF Typed
<1>2. /\ \A i \in 1 .. Len(r) : r[i] \in Buffers /\ r[i] # Null
      /\ \A i \in 1 .. Len(w) : w[i] \in Buffers /\ w[i] # Null
      /\ b # Null
  BY <1>1, ElementOfSeq
<1>3. /\ Len(r) \in Nat /\ Len(w) \in Nat
      /\ Len(e.buffersRead) = Len(r) + 1 /\ e.buffersRead[Len(r) + 1] = b
      /\ \A i \in 1 .. Len(r) : e.buffersRead[i] = r[i]
  BY <1>1
<1>4. /\ \A i, j \in 1 .. Len(r) : r[i] = r[j] => i = j
      /\ \A i, j \in 1 .. Len(w) : w[i] = w[j] => i = j
      /\ \A i \in 1 .. Len(r), j \in 1 .. Len(w) : r[i] # w[j]
      /\ \A i \in 1 .. Len(r) : r[i] # c.bufferReading /\ r[i] # b
      /\ \A i \in 1 .. Len(w) : w[i] # c.bufferReading /\ w[i] # b
      /\ c.bufferReading # Null => c.bufferReading # b
  BY Zenon DEF OnePlace, Apart
<1>5. Len(r) + Len(w) + (IF c.bufferReading = Null THEN 0 ELSE 1) + (IF b = Null THEN 0 ELSE 1) = BufferCount
  BY Zenon DEF OnePlace, Apart
<1> HIDE DEF r, w
<1>6. \A i \in 1 .. Len(r) + 1 : i \in 1 .. Len(r) \/ i = Len(r) + 1
  BY <1>3
<1>7. b # c.bufferReading
  BY <1>2, <1>4
<1>8. \A i, j \in 1 .. Len(r) + 1 : e.buffersRead[i] = e.buffersRead[j] => i = j
  BY <1>3, <1>4, <1>6
<1>9. \A i \in 1 .. Len(r) + 1, j \in 1 .. Len(w) : e.buffersRead[i] # w[j]
  BY <1>3, <1>4, <1>6
<1>10. \A i \in 1 .. Len(r) + 1 : e.buffersRead[i] # c.bufferReading /\ e.buffersRead[i] # Null
  BY <1>2, <1>3, <1>4, <1>6, <1>7
<1>11. (Len(r) + 1) + Len(w) + (IF c.bufferReading = Null THEN 0 ELSE 1) + (IF Null = Null THEN 0 ELSE 1) = BufferCount
  BY <1>2, <1>3, <1>5
<1>12. e.buffersWrite = w
  BY DEF w
<1>13. Len(e.buffersRead) = Len(r) + 1
  BY <1>3
<1>14. \A i \in 1 .. Len(w) : w[i] # c.bufferReading /\ w[i] # Null
  BY <1>2, <1>4
<1> HIDE DEF Null
<1> QED BY <1>4, <1>8, <1>9, <1>10, <1>11, <1>12, <1>13, <1>14 DEF OnePlace, Apart

\* What an answered write makes of a copy that runs: before the program may close it.
LEMMA WroteSound ==
    ASSUME NEW c, NEW s, NEW q \in Asks, NEW o, Sound(c, s, <<q>>, o, 0), c.running,
           NEW code \in {"success", "error"}, NEW n \in 0 .. q.size, code = "success" => n = q.size,
           NEW e, Object(e), Typed(e), Wrote(c, q.buffer, n, code, e)
    PROVE  Sound(e, s, <<>>, o \o SubSeq(c.mem[q.buffer], 1, n), 0)
<1> DEFINE p == o \o SubSeq(c.mem[q.buffer], 1, n)
           b == q.buffer
<1>1. /\ Typed(c) /\ OnePlace(c) /\ Asked(c, s, <<q>>) /\ OnTheirWay(c, s, <<q>>, o)
      /\ o \in Seq(0 .. CopyLength) /\ KeptRises(c, c.given - 0) /\ SizesSay(c, o, 0) /\ c.ended = <<>>
  BY DEF Sound
<1>2. /\ p \in Seq(0 .. CopyLength) /\ Len(o) \in Nat /\ Len(p) = Len(o) + n
      /\ \A i \in 1 .. Len(p) : i <= Len(c.kept) => p[i] = c.kept[i]
      /\ Len(p) > Len(c.kept) => c.readError
  BY <1>1, WrittenMore
<1> HIDE DEF p
<1>3. b \in Buffers /\ q.size \in 1 .. BufferSize /\ n \in Nat
  BY CopyConstants DEF Asks
<1>4. c.bufferWriting = b /\ c.length[b] = q.size /\ ~c.writeError
  <2>1. c.bufferWriting # Null
    BY <1>1 DEF Asked
  <2>2. <<q>> = <<[buffer |-> c.bufferWriting, size |-> c.length[c.bufferWriting]]>> /\ ~c.writeError
    BY <1>1, <2>1 DEF Asked
  <2>3. q = [buffer |-> c.bufferWriting, size |-> c.length[c.bufferWriting]]
    BY <2>2
  <2>4. q.buffer = c.bufferWriting /\ q.size = c.length[c.bufferWriting]
    BY <2>3
  <2> QED BY <2>2, <2>4
<1>5. /\ e.bufferWriting = Null /\ e.buffersRead = Append(c.buffersRead, b)
      /\ e.buffersWrite = c.buffersWrite /\ e.bufferReading = c.bufferReading
      /\ e.sizeRead = c.sizeRead /\ e.sizeTotal = c.sizeTotal
      /\ e.readError = c.readError /\ e.readEnded = c.readEnded
      /\ e.mem = c.mem /\ e.given = c.given /\ e.kept = c.kept
      /\ e.running = c.running /\ e.ended = c.ended
  BY DEF Wrote
<1>6. /\ e.sizeWritten = (c.sizeWritten + n) % Width /\ e.length = [c.length EXCEPT ![b] = 0]
      /\ e.writeError = IF code = "error" THEN TRUE ELSE c.writeError
  BY Zenon DEF Wrote
<1> HIDE DEF b
<1>7. OnePlace(e)
  BY <1>1, <1>3, <1>4, <1>5, GivenBack
<1>8. Asked(e, s, <<>>)
  BY <1>1, <1>5, Zenon DEF Asked
<1>9. OnTheirWay(e, s, <<>>, p)
  BY <1>1, <1>2, <1>5 DEF OnTheirWay
<1>10. KeptRises(e, e.given - 0)
  BY <1>1, <1>5, Zenon DEF KeptRises
<1>11. PICK off \in [1 .. Len(c.buffersWrite) + 1 -> Nat] : Follows(c, o, off)
  BY <1>4 DEF Sound, Flow
<1>12. /\ off[1] = Len(o) + q.size /\ off[1] <= Len(c.kept) + BufferSize
  <2>1. b # Null
    BY <1>3, CopyConstants
  <2>2. off[1] = Len(o) + q.size
    BY <1>4, <1>11, <2>1 DEF Follows
  <2>3. c.buffersWrite \in Seq(Buffers)
    BY <1>1 DEF Typed
  <2>4. 1 \in 1 .. Len(c.buffersWrite) + 1
    BY <2>3
  <2> QED BY <1>11, <2>2, <2>4, Zenon DEF Follows
<1>13. SizesSay(e, p, 0)
  <2>1. ~e.writeError => e.sizeWritten = Len(p)
    <3>1. Len(c.kept) \in Nat /\ Len(c.kept) <= CopyLength /\ c.sizeWritten = Len(o)
      BY <1>4, Numbers
    <3>2. Len(o) + n < Width /\ Len(o) + n \in Nat
      <4> DEFINE x == Len(o)
                 y == Len(c.kept)
                 z == q.size
      <4>1. x \in Nat /\ y \in Nat /\ z \in Nat /\ n \in Nat /\ n <= z
        BY <1>2, <1>3, <3>1, CopyConstants
      <4>2. x + z <= y + BufferSize /\ y <= CopyLength
        BY <1>12, <3>1
      <4>3. BufferSize \in Nat /\ CopyLength \in Nat /\ Width \in Nat /\ CopyLength + BufferSize < Width - 1
        BY CopyConstants
      <4> HIDE DEF x, y, z
      <4>4. x + n < Width /\ x + n \in Nat
        BY <4>1, <4>2, <4>3
      <4> QED BY <4>4 DEF x
    <3>3. (Len(o) + n) % Width = Len(o) + n
      BY <3>2, CopyConstants, ModFacts
    <3> QED BY <1>2, <1>6, <3>1, <3>3
  <2> QED BY <1>1, <1>5, <2>1 DEF SizesSay
<1>14. ~e.writeError => Flow(e, p)
  <2> SUFFICES ASSUME ~e.writeError PROVE Flow(e, p)
    OBVIOUS
  <2>1. n = q.size
    BY <1>6
  <2>2. off[1] = Len(p) + (IF e.bufferWriting = Null THEN 0 ELSE e.length[e.bufferWriting])
    BY <1>2, <1>3, <1>5, <1>12, <2>1
  <2>3. \A i \in 1 .. Len(c.buffersWrite) : c.buffersWrite[i] # b /\ c.buffersWrite[i] \in Buffers
    <3>1. c.buffersWrite \in Seq(Buffers)
      BY <1>1 DEF Typed
    <3>2. \A i \in 1 .. Len(c.buffersWrite) : c.buffersWrite[i] # b
      BY <1>1, <1>4, Zenon DEF OnePlace, Apart
    <3> QED BY <3>1, <3>2, ElementOfSeq
  <2>4. \A i \in 1 .. Len(c.buffersWrite) : e.length[c.buffersWrite[i]] = c.length[c.buffersWrite[i]]
    <3>1. c.length \in [Buffers -> 0 .. BufferSize]
      BY <1>1 DEF Typed
    <3> QED BY <1>6, <2>3, <3>1
  <2>5. \A x, m, k : Holds(c, x, m, k) => Holds(e, x, m, k)
    BY <1>5, Zenon DEF Holds
  <2>6. \A i \in 1 .. Len(c.buffersWrite) : /\ e.length[c.buffersWrite[i]] >= 1
                                            /\ off[i + 1] = off[i] + e.length[c.buffersWrite[i]]
                                            /\ Holds(e, c.buffersWrite[i], e.length[c.buffersWrite[i]], off[i])
    BY <1>11, <2>4, <2>5, Zenon DEF Follows
  <2>7. /\ \A i \in 1 .. Len(c.buffersWrite) + 1 : /\ off[i] <= Len(e.kept) + BufferSize
                                                   /\ off[i] > Len(e.kept) => e.readError
        /\ off[Len(c.buffersWrite) + 1] >= Len(e.kept)
    BY <1>5, <1>11, Zenon DEF Follows
  <2>8. Follows(e, p, off)
    BY <1>5, <2>2, <2>6, <2>7, Zenon DEF Follows
  <2> QED BY <1>5, <2>8, Zenon DEF Flow
<1>15. e.running /\ e.ended = <<>>
  BY <1>1, <1>5
<1>16. Sound(e, s, <<>>, p, 0)
  BY <1>2, <1>7, <1>8, <1>9, <1>10, <1>13, <1>14, <1>15 DEF Sound
<1> QED BY <1>16 DEF p

\* What an answered write makes of a copy that runs.
LEMMA WriteSound ==
    ASSUME NEW c, NEW s, NEW q \in Asks, NEW o, Sound(c, s, <<q>>, o, 0), c.running,
           NEW code \in {"success", "error"}, NEW n \in 0 .. q.size, code = "success" => n = q.size, NEW does,
           NEW d, d = Copy!OnWrite(c, n, code, does)
    PROVE  /\ Sound(d, s, <<>>, o \o SubSeq(c.mem[q.buffer], 1, n), 0)
           /\ code = "error" => ~d.running \/ d.writeError
<1> DEFINE p == o \o SubSeq(c.mem[q.buffer], 1, n)
<1>1. Object(c) /\ Typed(c) /\ Asked(c, s, <<q>>)
  BY DEF Sound
<1>2. q.buffer \in Buffers /\ q.size \in 1 .. BufferSize /\ n \in 0 .. Width - 1
  BY CopyConstants DEF Asks
<1>3. c.bufferWriting = q.buffer
  <2>1. c.bufferWriting # Null
    BY <1>1 DEF Asked
  <2>2. <<q>> = <<[buffer |-> c.bufferWriting, size |-> c.length[c.bufferWriting]]>>
    BY <1>1, <2>1 DEF Asked
  <2>3. q = [buffer |-> c.bufferWriting, size |-> c.length[c.bufferWriting]]
    BY <2>2
  <2> QED BY <2>3
<1>4. PICK e : /\ Object(e) /\ Typed(e) /\ Wrote(c, q.buffer, n, code, e)
               /\ d = IF does = "close" THEN Copy!CloseByProgram(e) ELSE e
  BY <1>1, <1>2, <1>3, OnWriteGives
<1>5. Sound(e, s, <<>>, p, 0)
  BY <1>4, WroteSound
<1> HIDE DEF p
<1>6. e.running /\ (code = "error" => e.writeError)
  BY <1>4 DEF Wrote
<1>7. 0 \in Nat
  OBVIOUS
<1>8. Sound(Copy!CloseByProgram(e), s, <<>>, p, 0) /\ ~Copy!CloseByProgram(e).running
  BY <1>5, <1>6, <1>7, ClosedByProgramSound
<1> QED BY <1>4, <1>5, <1>6, <1>8, Zenon DEF p

\* A buffer that was read into and holds nothing waits to be read into again.
LEMMA PutBack ==
    ASSUME NEW c, Typed(c), OnePlace(c), NEW b \in Buffers, c.bufferReading = b,
           NEW e, e.bufferReading = Null, e.buffersRead = Append(c.buffersRead, b),
           e.buffersWrite = c.buffersWrite, e.bufferWriting = c.bufferWriting
    PROVE  OnePlace(e)
<1> DEFINE r == c.buffersRead
           w == c.buffersWrite
<1>1. r \in Seq(Buffers) /\ w \in Seq(Buffers) /\ Null \notin Buffers
  BY CopyConstants DEF Typed
<1>2. /\ \A i \in 1 .. Len(r) : r[i] \in Buffers /\ r[i] # Null
      /\ \A i \in 1 .. Len(w) : w[i] \in Buffers /\ w[i] # Null
      /\ b # Null
  BY <1>1, ElementOfSeq
<1>3. /\ Len(r) \in Nat /\ Len(w) \in Nat
      /\ Len(e.buffersRead) = Len(r) + 1 /\ e.buffersRead[Len(r) + 1] = b
      /\ \A i \in 1 .. Len(r) : e.buffersRead[i] = r[i]
  BY <1>1
<1>4. /\ \A i, j \in 1 .. Len(r) : r[i] = r[j] => i = j
      /\ \A i, j \in 1 .. Len(w) : w[i] = w[j] => i = j
      /\ \A i \in 1 .. Len(r), j \in 1 .. Len(w) : r[i] # w[j]
      /\ \A i \in 1 .. Len(r) : r[i] # c.bufferWriting /\ r[i] # b
      /\ \A i \in 1 .. Len(w) : w[i] # c.bufferWriting /\ w[i] # b
      /\ b # Null => b # c.bufferWriting
  BY Zenon DEF OnePlace, Apart
<1>5. Len(r) + Len(w) + (IF b = Null THEN 0 ELSE 1) + (IF c.bufferWriting = Null THEN 0 ELSE 1) = BufferCount
  BY Zenon DEF OnePlace, Apart
<1> HIDE DEF r, w
<1>6. \A i \in 1 .. Len(r) + 1 : i \in 1 .. Len(r) \/ i = Len(r) + 1
  BY <1>3
<1>7. b # c.bufferWriting
  BY <1>2, <1>4
<1>8. \A i, j \in 1 .. Len(r) + 1 : e.buffersRead[i] = e.buffersRead[j] => i = j
  BY <1>3, <1>4, <1>6
<1>9. \A i \in 1 .. Len(r) + 1, j \in 1 .. Len(w) : e.buffersRead[i] # w[j]
  BY <1>3, <1>4, <1>6
<1>10. \A i \in 1 .. Len(r) + 1 : e.buffersRead[i] # c.bufferWriting /\ e.buffersRead[i] # Null
  BY <1>2, <1>3, <1>4, <1>6, <1>7
<1>11. (Len(r) + 1) + Len(w) + (IF Null = Null THEN 0 ELSE 1) + (IF c.bufferWriting = Null THEN 0 ELSE 1) = BufferCount
  BY <1>2, <1>3, <1>5
<1>12. e.buffersWrite = w
  BY DEF w
<1>13. Len(e.buffersRead) = Len(r) + 1
  BY <1>3
<1>14. \A i \in 1 .. Len(w) : w[i] # c.bufferWriting /\ w[i] # Null
  BY <1>2, <1>4
<1> HIDE DEF Null
<1> QED BY <1>4, <1>8, <1>9, <1>10, <1>11, <1>12, <1>13, <1>14 DEF OnePlace, Apart

\* A buffer that was read into and holds what onRead let pass waits to be written.
LEMMA PutOn ==
    ASSUME NEW c, Typed(c), OnePlace(c), NEW b \in Buffers, c.bufferReading = b,
           NEW e, e.bufferReading = Null, e.buffersWrite = Append(c.buffersWrite, b),
           e.buffersRead = c.buffersRead, e.bufferWriting = c.bufferWriting
    PROVE  OnePlace(e)
<1> DEFINE r == c.buffersRead
           w == c.buffersWrite
<1>1. r \in Seq(Buffers) /\ w \in Seq(Buffers) /\ Null \notin Buffers
  BY CopyConstants DEF Typed
<1>2. /\ \A i \in 1 .. Len(r) : r[i] \in Buffers /\ r[i] # Null
      /\ \A i \in 1 .. Len(w) : w[i] \in Buffers /\ w[i] # Null
      /\ b # Null
  BY <1>1, ElementOfSeq
<1>3. /\ Len(r) \in Nat /\ Len(w) \in Nat
      /\ Len(e.buffersWrite) = Len(w) + 1 /\ e.buffersWrite[Len(w) + 1] = b
      /\ \A i \in 1 .. Len(w) : e.buffersWrite[i] = w[i]
  BY <1>1
<1>4. /\ \A i, j \in 1 .. Len(r) : r[i] = r[j] => i = j
      /\ \A i, j \in 1 .. Len(w) : w[i] = w[j] => i = j
      /\ \A i \in 1 .. Len(r), j \in 1 .. Len(w) : r[i] # w[j]
      /\ \A i \in 1 .. Len(r) : r[i] # b /\ r[i] # c.bufferWriting
      /\ \A i \in 1 .. Len(w) : w[i] # b /\ w[i] # c.bufferWriting
      /\ b # Null => b # c.bufferWriting
  BY Zenon DEF OnePlace, Apart
<1>5. Len(r) + Len(w) + (IF b = Null THEN 0 ELSE 1) + (IF c.bufferWriting = Null THEN 0 ELSE 1) = BufferCount
  BY Zenon DEF OnePlace, Apart
<1> HIDE DEF r, w
<1>6. \A i \in 1 .. Len(w) + 1 : i \in 1 .. Len(w) \/ i = Len(w) + 1
  BY <1>3
<1>7. b # c.bufferWriting
  BY <1>2, <1>4
<1>8. \A i, j \in 1 .. Len(w) + 1 : e.buffersWrite[i] = e.buffersWrite[j] => i = j
  BY <1>3, <1>4, <1>6
<1>9. \A i \in 1 .. Len(r), j \in 1 .. Len(w) + 1 : r[i] # e.buffersWrite[j]
  BY <1>3, <1>4, <1>6
<1>10. \A i \in 1 .. Len(w) + 1 : e.buffersWrite[i] # Null /\ e.buffersWrite[i] # c.bufferWriting
  BY <1>2, <1>3, <1>4, <1>6, <1>7
<1>11. Len(r) + (Len(w) + 1) + (IF Null = Null THEN 0 ELSE 1) + (IF c.bufferWriting = Null THEN 0 ELSE 1) = BufferCount
  BY <1>2, <1>3, <1>5
<1>12. e.buffersRead = r
  BY DEF r
<1>13. Len(e.buffersWrite) = Len(w) + 1
  BY <1>3
<1>14. \A i \in 1 .. Len(r) : r[i] # Null /\ r[i] # c.bufferWriting
  BY <1>2, <1>4
<1> HIDE DEF Null
<1> QED BY <1>4, <1>8, <1>9, <1>10, <1>11, <1>12, <1>13, <1>14 DEF OnePlace, Apart

-----------------------------------------------------------------------------
\* What the source puts into the memory of a buffer.
Filled(c, b, n, g) ==
    /\ g.buffersRead = c.buffersRead /\ g.bufferReading = c.bufferReading
    /\ g.buffersWrite = c.buffersWrite /\ g.bufferWriting = c.bufferWriting
    /\ g.sizeRead = c.sizeRead /\ g.sizeWritten = c.sizeWritten /\ g.sizeTotal = c.sizeTotal
    /\ g.readError = c.readError /\ g.readEnded = c.readEnded /\ g.writeError = c.writeError
    /\ g.running = c.running /\ g.length = c.length /\ g.given = c.given + n
    /\ g.kept = c.kept /\ g.ended = c.ended /\ g.closed = c.closed /\ g.hollow = c.hollow
    /\ \A i \in 1 .. n : g.mem[b][i] = c.given + i
    /\ \A x \in Buffers : x # b => g.mem[x] = c.mem[x]

Given(c, k, m, g) ==
    /\ g.buffersRead = c.buffersRead /\ g.bufferReading = c.bufferReading
    /\ g.buffersWrite = c.buffersWrite /\ g.bufferWriting = c.bufferWriting
    /\ g.sizeRead = c.sizeRead /\ g.sizeWritten = c.sizeWritten /\ g.sizeTotal = c.sizeTotal
    /\ g.readError = c.readError /\ g.readEnded = c.readEnded /\ g.writeError = c.writeError
    /\ g.running = c.running /\ g.length = c.length /\ g.given = k /\ g.mem = m
    /\ g.kept = c.kept /\ g.ended = c.ended /\ g.closed = c.closed /\ g.hollow = c.hollow

LEMMA FieldsFilled ==
    ASSUME NEW c, Object(c), NEW m, NEW k, NEW g, g = [c EXCEPT !.given = k, !.mem = m]
    PROVE  Object(g) /\ Given(c, k, m, g)
BY DEF Object, Given

LEMMA FillGives ==
    ASSUME NEW c, Object(c), Typed(c), NEW b \in Buffers, NEW n \in 0 .. BufferSize, c.given + n <= CopyLength
    PROVE  LET g == Copy!Fill(c, b, n) IN Object(g) /\ Typed(g) /\ Filled(c, b, n, g)
<1> DEFINE h == [i \in 1 .. BufferSize |-> IF i <= n THEN c.given + i ELSE c.mem[b][i]]
           m == [c.mem EXCEPT ![b] = h]
           g == [c EXCEPT !.given = c.given + n, !.mem = m]
<1>1. Copy!Fill(c, b, n) = g
  BY Zenon DEF Copy!Fill
<1>2. c.given \in 0 .. CopyLength /\ c.mem \in [Buffers -> [1 .. BufferSize -> 0 .. CopyLength]]
  BY DEF Typed
<1>3. n \in Nat /\ n <= BufferSize /\ BufferSize \in Nat /\ CopyLength \in Nat
  BY CopyConstants
<1>4. h \in [1 .. BufferSize -> 0 .. CopyLength]
  <2>1. c.mem[b] \in [1 .. BufferSize -> 0 .. CopyLength]
    BY <1>2
  <2>2. \A i \in 1 .. BufferSize : (IF i <= n THEN c.given + i ELSE c.mem[b][i]) \in 0 .. CopyLength
    BY <1>2, <1>3, <2>1
  <2> QED BY <2>2
<1>5. \A i \in 1 .. n : h[i] = c.given + i
  BY <1>3
<1> HIDE DEF h
<1>6. m \in [Buffers -> [1 .. BufferSize -> 0 .. CopyLength]] /\ m[b] = h /\ \A x \in Buffers : x # b => m[x] = c.mem[x]
  BY <1>2, <1>4
<1>7. c.given + n \in 0 .. CopyLength
  BY <1>2, <1>3
<1> HIDE DEF m, g
<1>8. g = [c EXCEPT !.given = c.given + n, !.mem = m]
  BY Zenon DEF g
<1>9. Object(g) /\ Given(c, c.given + n, m, g)
  BY <1>8, FieldsFilled
<1>10. Typed(g)
  BY <1>6, <1>7, <1>9 DEF Typed, Given
<1>11. Filled(c, b, n, g)
  BY <1>5, <1>6, <1>9, Zenon DEF Filled, Given
<1> QED BY <1>1, <1>9, <1>10, <1>11, Zenon

\* The source fills what it was given while its request is on its way.
LEMMA FillSound ==
    ASSUME NEW c, NEW q \in Asks, NEW t, NEW o, Sound(c, <<q>>, t, o, 0),
           NEW n \in 0 .. q.size, c.given + n <= CopyLength,
           NEW g, g = Copy!Fill(c, q.buffer, n)
    PROVE  /\ Sound(g, <<q>>, t, o, n) /\ g.hollow = c.hollow /\ g.running = c.running
           /\ \A i \in 1 .. n : g.mem[q.buffer][i] = g.given - n + i
<1> DEFINE b == q.buffer
<1>1. Object(c) /\ Typed(c) /\ OnTheirWay(c, <<q>>, t, o) /\ o \in Seq(0 .. CopyLength)
  BY DEF Sound
<1>2. b \in Buffers /\ q.size \in 1 .. BufferSize /\ n \in 0 .. BufferSize /\ n \in Nat
  BY CopyConstants DEF Asks
<1>3. Object(g) /\ Typed(g) /\ Filled(c, b, n, g)
  BY <1>1, <1>2, FillGives
<1>4. c.given \in Nat /\ g.given = c.given + n /\ g.given - n = c.given /\ n <= g.given
  <2>1. c.given \in 0 .. CopyLength /\ g.given = c.given + n
    BY <1>1, <1>3 DEF Typed, Filled
  <2> QED BY <1>2, <2>1
<1>5. \A i \in 1 .. n : g.mem[b][i] = g.given - n + i
  BY <1>3, <1>4, Zenon DEF Filled
<1>6. \A x \in Buffers : \A k, j : x # b /\ Holds(c, x, j, k) => Holds(g, x, j, k)
  BY <1>3, Zenon DEF Filled, Holds
<1>7. OnTheirWay(g, <<q>>, t, o)
  <2>1. <<q>> # <<>> /\ <<q>>[1] = q
    OBVIOUS
  <2>2. t # <<>> => \E a \in Asks :
          /\ t = <<a>> /\ Holds(g, a.buffer, a.size, Len(o))
          /\ Len(o) + a.size > Len(g.kept) => g.readError
    <3> SUFFICES ASSUME t # <<>> PROVE \E a \in Asks :
          /\ t = <<a>> /\ Holds(g, a.buffer, a.size, Len(o))
          /\ Len(o) + a.size > Len(g.kept) => g.readError
      OBVIOUS
    <3>1. PICK a \in Asks : /\ t = <<a>> /\ Holds(c, a.buffer, a.size, Len(o))
                            /\ Len(o) + a.size > Len(c.kept) => c.readError
      BY <1>1 DEF OnTheirWay
    <3>2. t[1] = a
      BY <3>1
    <3>3. a.buffer # b /\ a.buffer \in Buffers
      BY <1>1, <2>1, <3>2 DEF OnTheirWay, Asks
    <3>4. Holds(g, a.buffer, a.size, Len(o))
      BY <1>6, <3>1, <3>3
    <3>5. g.kept = c.kept /\ g.readError = c.readError
      BY <1>3 DEF Filled
    <3> QED BY <3>1, <3>4, <3>5, Zenon
  <2>3. g.kept = c.kept /\ g.readError = c.readError
    BY <1>3 DEF Filled
  <2> QED BY <1>1, <2>2, <2>3, Zenon DEF OnTheirWay
<1>8. ASSUME c.running
      PROVE  OnePlace(g) /\ Asked(g, <<q>>, t) /\ KeptRises(g, g.given - n) /\ SizesSay(g, o, n) /\ g.ended = <<>>
  <2>1. OnePlace(c) /\ Asked(c, <<q>>, t) /\ KeptRises(c, c.given - 0) /\ SizesSay(c, o, 0) /\ c.ended = <<>>
    BY <1>8 DEF Sound
  <2>2. OnePlace(g)
    <3>1. /\ g.buffersRead = c.buffersRead /\ g.bufferReading = c.bufferReading
          /\ g.buffersWrite = c.buffersWrite /\ g.bufferWriting = c.bufferWriting
      BY <1>3 DEF Filled
    <3> QED BY <2>1, <3>1, Zenon DEF OnePlace
  <2>3. Asked(g, <<q>>, t)
    BY <1>3, <2>1, Zenon DEF Filled, Asked
  <2>4. c.given - 0 = c.given
    BY <1>4
  <2>5. KeptRises(g, g.given - n)
    BY <1>3, <1>4, <2>1, <2>4, Zenon DEF Filled, KeptRises
  <2>6. SizesSay(g, o, n)
    BY <1>3, <1>4, <2>1, <2>4 DEF Filled, SizesSay
  <2>7. g.ended = <<>>
    BY <1>3, <2>1 DEF Filled
  <2> QED BY <2>2, <2>3, <2>5, <2>6, <2>7
<1>9. ASSUME c.running, ~c.writeError PROVE Flow(g, o)
  <2>1. PICK off \in [1 .. Len(c.buffersWrite) + 1 -> Nat] : Follows(c, o, off)
    BY <1>9 DEF Sound, Flow
  <2>2. \A i \in 1 .. Len(c.buffersWrite) : c.buffersWrite[i] \in Buffers /\ c.buffersWrite[i] # b
    <3>1. c.buffersWrite \in Seq(Buffers)
      BY <1>1 DEF Typed
    <3>2. c.bufferReading = b
      <4>1. Asked(c, <<q>>, t)
        BY <1>9 DEF Sound
      <4>2. c.bufferReading # Null
        BY <4>1 DEF Asked
      <4>3. PICK k \in 1 .. BufferSize : <<q>> = <<[buffer |-> c.bufferReading, size |-> k]>>
        BY <4>1, <4>2 DEF Asked
      <4>4. q = [buffer |-> c.bufferReading, size |-> k]
        BY <4>3
      <4> QED BY <4>4
    <3>3. \A i \in 1 .. Len(c.buffersWrite) : c.buffersWrite[i] # c.bufferReading
      BY <1>9, Zenon DEF Sound, OnePlace, Apart
    <3> QED BY <3>1, <3>2, <3>3, ElementOfSeq
  <2>3. /\ g.buffersWrite = c.buffersWrite /\ g.bufferWriting = c.bufferWriting
        /\ g.length = c.length /\ g.kept = c.kept /\ g.readError = c.readError
    BY <1>3 DEF Filled
  <2>4. \A i \in 1 .. Len(c.buffersWrite) : Holds(g, c.buffersWrite[i], c.length[c.buffersWrite[i]], off[i])
    BY <1>6, <2>1, <2>2, Zenon DEF Follows
  <2>5. Follows(g, o, off)
    BY <2>1, <2>3, <2>4, Zenon DEF Follows
  <2> QED BY <2>1, <2>3, <2>5, Zenon DEF Flow
<1>10. ~c.running => EndSays(g, t, o)
  <2>1. ~c.running => EndSays(c, t, o)
    BY DEF Sound
  <2> QED BY <1>3, <2>1, Zenon DEF Filled, EndSays
<1>11. g.running = c.running /\ g.writeError = c.writeError /\ g.hollow = c.hollow
  BY <1>3 DEF Filled
<1>12. Sound(g, <<q>>, t, o, n)
  BY <1>1, <1>3, <1>7, <1>8, <1>9, <1>10, <1>11, Zenon DEF Sound
<1> QED BY <1>5, <1>11, <1>12

-----------------------------------------------------------------------------
\* What is so while a read is on its way.
LEMMA Reading ==
    ASSUME NEW c, NEW q \in Asks, NEW t, NEW o, NEW f \in Nat, Sound(c, <<q>>, t, o, f), c.running
    PROVE  /\ q.buffer \in Buffers /\ q.size \in 1 .. BufferSize /\ c.bufferReading = q.buffer
           /\ ~c.readError /\ ~c.readEnded
           /\ c.sizeRead \in Nat /\ c.sizeTotal \in Nat /\ c.given \in Nat /\ c.given <= CopyLength /\ f <= c.given
           /\ c.sizeRead = c.given - f /\ c.sizeRead + q.size <= c.sizeTotal
<1>1. Asked(c, <<q>>, t)
  BY DEF Sound
<1>2. c.bufferReading # Null
  BY <1>1 DEF Asked
<1>3. PICK n \in 1 .. BufferSize : /\ <<q>> = <<[buffer |-> c.bufferReading, size |-> n]>>
                                   /\ c.sizeRead + n <= c.sizeTotal /\ ~c.readError /\ ~c.readEnded
  BY <1>1, <1>2 DEF Asked
<1>4. q = [buffer |-> c.bufferReading, size |-> n]
  BY <1>3
<1>5. q.buffer = c.bufferReading /\ q.size = n
  BY <1>4
<1>6. q.buffer \in Buffers
  BY DEF Asks
<1> QED BY <1>3, <1>5, <1>6, Numbers

KeptAlso(c, x, f, k) ==
    /\ k \in Seq(0 .. CopyLength) /\ Len(c.kept) \in Nat /\ Len(k) = Len(c.kept) + f
    /\ \A i \in 1 .. Len(c.kept) : k[i] = c.kept[i]
    /\ \A i \in 1 .. f : k[Len(c.kept) + i] = x[i]
    /\ Len(k) <= c.given
    /\ \A i \in 1 .. Len(k) : i <= k[i] /\ k[i] + (Len(k) - i) <= c.given

\* What is kept, when the f units that were given last are kept too.
LEMMA KeptMore ==
    ASSUME NEW c, NEW s, NEW t, NEW o, NEW f \in Nat, Sound(c, s, t, o, f), c.running,
           NEW x \in Seq(0 .. CopyLength), Len(x) = f, \A i \in 1 .. f : x[i] = c.given - f + i
    PROVE  KeptAlso(c, x, f, c.kept \o x)
<1> DEFINE k == c.kept \o x
           old == c.kept
           g == c.given
<1>1. old \in Seq(0 .. CopyLength)
  BY DEF Sound, Typed
<1>2. Len(old) \in Nat /\ g \in Nat /\ f <= g /\ Len(old) <= g - f
  BY Numbers
<1>3. \A i \in 1 .. Len(old) : i <= old[i] /\ old[i] + (Len(old) - i) <= g - f
  BY DEF Sound, KeptRises
<1>4. \A i \in 1 .. Len(old) : old[i] \in 0 .. CopyLength
  BY <1>1, ElementOfSeq
<1>8. \A i \in 1 .. f : x[i] = g - f + i
  OBVIOUS
<1> HIDE DEF k, old, g
<1>5. k \in Seq(0 .. CopyLength)
  BY <1>1, ConcatProperties, Zenon DEF k, old
<1>6. Len(k) = Len(old) + f
  BY <1>1, ConcatProperties DEF k, old
<1>7. \A i \in 1 .. Len(old) + Len(x) : k[i] = IF i <= Len(old) THEN old[i] ELSE x[i - Len(old)]
  BY <1>1, ConcatProperties DEF k, old
<1>9. \A i \in 1 .. Len(old) : k[i] = old[i]
  BY <1>2, <1>7
<1>10. \A i \in 1 .. f : k[Len(old) + i] = x[i]
  <2> SUFFICES ASSUME NEW i \in 1 .. f PROVE k[Len(old) + i] = x[i]
    OBVIOUS
  <2> DEFINE j == Len(old) + i
  <2>1. j \in 1 .. Len(old) + Len(x) /\ ~(j <= Len(old)) /\ j - Len(old) = i
    BY <1>2
  <2> HIDE DEF j
  <2>2. k[j] = x[i]
    BY <1>7, <2>1
  <2> QED BY <2>2 DEF j
<1>11. ASSUME NEW i \in 1 .. Len(k) PROVE i <= k[i] /\ k[i] + (Len(k) - i) <= g
  <2>1. CASE i <= Len(old)
    <3>1. i \in 1 .. Len(old) /\ k[i] = old[i]
      BY <1>2, <1>6, <1>9, <2>1
    <3>2. i <= old[i] /\ old[i] + (Len(old) - i) <= g - f /\ old[i] \in 0 .. CopyLength
      BY <1>3, <1>4, <3>1
    <3> DEFINE v == old[i]
               l == Len(old)
    <3>3. v \in Nat /\ l \in Nat /\ i \in Nat
      BY <1>2, <3>2, CopyConstants
    <3>4. v + (l - i) <= g - f /\ i <= v
      BY <3>2
    <3> HIDE DEF v, l
    <3>5. v + ((l + f) - i) <= g
      BY <1>2, <3>3, <3>4
    <3>6. Len(k) = l + f /\ k[i] = v
      BY <1>6, <3>1 DEF l, v
    <3> QED BY <3>4, <3>5, <3>6
  <2>2. CASE ~(i <= Len(old))
    <3> DEFINE j == i - Len(old)
    <3>1. j \in 1 .. f /\ Len(old) + j = i
      BY <1>2, <1>6, <2>2
    <3> HIDE DEF j
    <3>2. k[i] = g - f + j
      BY <1>8, <1>10, <3>1
    <3> QED BY <1>2, <1>6, <3>1, <3>2
  <2> QED BY <2>1, <2>2
<1>12. Len(k) <= g
  BY <1>2, <1>6
<1> QED BY <1>2, <1>5, <1>6, <1>9, <1>10, <1>11, <1>12, Zenon DEF KeptAlso, k, old, g

\* The sizes and the requests when an answered read left the copy running.
LEMMA ToldSizes ==
    ASSUME NEW c, NEW q \in Asks, NEW t, NEW o, NEW f \in 0 .. q.size, Sound(c, <<q>>, t, o, f), c.running,
           NEW units \in 0 .. Width - 1, NEW code \in {"success", "ended", "error"}, NEW does, NEW n,
           units = f \/ (units = Width - 1 /\ code = "error"),
           NEW d, Object(d), Typed(d), Told(c, q.buffer, units, code, does, n, d), d.running
    PROVE  Asked(d, <<>>, t) /\ SizesSay(d, o, 0) /\ d.ended = <<>>
<1>1. /\ q.buffer \in Buffers /\ q.size \in 1 .. BufferSize /\ c.bufferReading = q.buffer
      /\ ~c.readError /\ ~c.readEnded /\ f \in Nat
      /\ c.sizeRead \in Nat /\ c.sizeTotal \in Nat /\ c.given \in Nat /\ c.given <= CopyLength /\ f <= c.given
      /\ c.sizeRead = c.given - f /\ c.sizeRead + q.size <= c.sizeTotal
  BY Reading
<1>2. Typed(c) /\ OnePlace(c) /\ Asked(c, <<q>>, t) /\ SizesSay(c, o, f) /\ c.ended = <<>>
  BY <1>1 DEF Sound
<1>3. ~(units > 0 /\ does = "close")
  BY DEF Told
<1>4. /\ d.ended = c.ended /\ d.bufferReading = Null /\ d.bufferWriting = c.bufferWriting
      /\ d.sizeRead = (c.sizeRead + units) % Width /\ d.sizeWritten = c.sizeWritten
      /\ d.sizeTotal = IF code = "ended" /\ c.sizeTotal = Unlimited THEN d.sizeRead ELSE c.sizeTotal
      /\ d.readError = IF code = "error" THEN TRUE ELSE c.readError
      /\ d.writeError = c.writeError /\ d.given = c.given
  BY <1>3, Zenon DEF Told
<1>5. d.length = [c.length EXCEPT ![q.buffer] = n] \/ d.length = [c.length EXCEPT ![q.buffer] = 0]
  BY Zenon DEF Told
<1>6. c.bufferWriting # Null => d.length[c.bufferWriting] = c.length[c.bufferWriting]
  <2> SUFFICES ASSUME c.bufferWriting # Null PROVE d.length[c.bufferWriting] = c.length[c.bufferWriting]
    OBVIOUS
  <2>1. c.bufferWriting \in Buffers /\ c.length \in [Buffers -> 0 .. BufferSize]
    BY <1>2 DEF Typed
  <2>2. q.buffer # c.bufferWriting
    <3>1. q.buffer # Null
      BY <1>1, CopyConstants
    <3> QED BY <1>1, <1>2, <3>1, Zenon DEF OnePlace, Apart
  <2> QED BY <1>5, <2>1, <2>2
<1>7. Asked(d, <<>>, t)
  <2>1. IF c.bufferWriting = Null THEN t = <<>>
        ELSE /\ t = <<[buffer |-> c.bufferWriting, size |-> c.length[c.bufferWriting]]>>
             /\ c.length[c.bufferWriting] >= 1 /\ ~c.writeError
    BY <1>2, Zenon DEF Asked
  <2>2. IF d.bufferWriting = Null THEN t = <<>>
        ELSE /\ t = <<[buffer |-> d.bufferWriting, size |-> d.length[d.bufferWriting]]>>
             /\ d.length[d.bufferWriting] >= 1 /\ ~d.writeError
    BY <1>4, <1>6, <2>1
  <2> QED BY <1>4, <2>2, Zenon DEF Asked
<1>8. code # "error" => d.sizeRead = c.given
  <2> SUFFICES ASSUME code # "error" PROVE d.sizeRead = c.given
    OBVIOUS
  <2>1. c.sizeRead + units = c.given
    BY <1>1
  <2>2. c.given < Width
    BY <1>1, CopyConstants
  <2>3. c.given % Width = c.given
    <3>1. Width \in Nat /\ Width > 0 /\ c.given \in Nat
      BY <1>1, CopyConstants
    <3> QED BY <2>2, <3>1, ModFacts
  <2> QED BY <1>4, <2>1, <2>3
<1>9. code # "error" => c.given <= c.sizeTotal
  <2> SUFFICES c.given <= c.sizeTotal
    OBVIOUS
  <2> QED BY <1>1
<1>10. 0 <= d.given /\ d.given - 0 = c.given
  BY <1>1, <1>4
<1>11. d.sizeTotal = Unlimited \/ d.sizeTotal <= CopyLength
  <2>1. c.sizeTotal = Unlimited \/ c.sizeTotal <= CopyLength
    BY <1>2 DEF SizesSay
  <2> QED BY <1>1, <1>4, <1>8, <2>1
<1>12. ~d.readError => d.sizeRead = d.given - 0 /\ d.sizeRead <= d.sizeTotal
  BY <1>1, <1>4, <1>8, <1>9, <1>10
<1>13. ~d.writeError => d.sizeWritten = Len(o)
  BY <1>2, <1>4 DEF SizesSay
<1>14. SizesSay(d, o, 0)
  BY <1>10, <1>11, <1>12, <1>13, Zenon DEF SizesSay
<1> QED BY <1>2, <1>4, <1>7, <1>14

\* What is on its way to the target holds what was kept, when more is kept.
LEMMA TargetKeeps ==
    ASSUME NEW c, NEW s, NEW t, NEW o \in Seq(0 .. CopyLength), OnTheirWay(c, s, t, o), ~c.readError,
           NEW d, d.mem = c.mem, Len(c.kept) \in Nat, NEW f \in Nat, Len(d.kept) = Len(c.kept) + f,
           \A i \in 1 .. Len(c.kept) : d.kept[i] = c.kept[i]
    PROVE  OnTheirWay(d, <<>>, t, o)
<1>1. Len(o) \in Nat
  OBVIOUS
<1>2. Len(o) <= Len(c.kept) /\ \A i \in 1 .. Len(o) : i <= Len(c.kept) => o[i] = c.kept[i]
  BY <1>1 DEF OnTheirWay
<1>3. Len(o) <= Len(d.kept) /\ \A i \in 1 .. Len(o) : o[i] = d.kept[i]
  <2>1. Len(o) <= Len(c.kept) /\ Len(d.kept) \in Nat /\ Len(c.kept) <= Len(d.kept)
    BY <1>2
  <2>2. Len(o) <= Len(d.kept)
    BY <1>1, <2>1
  <2>3. ASSUME NEW i \in 1 .. Len(o) PROVE o[i] = d.kept[i]
    <3>1. i \in 1 .. Len(c.kept) /\ i <= Len(c.kept)
      BY <1>1, <2>1
    <3>2. o[i] = c.kept[i]
      BY <1>2, <3>1
    <3> QED BY <3>1, <3>2
  <2> QED BY <2>2, <2>3
<1>4. ASSUME t # <<>>
      PROVE  \E a \in Asks : t = <<a>> /\ Holds(d, a.buffer, a.size, Len(o)) /\ ~(Len(o) + a.size > Len(d.kept))
  <2>1. PICK a \in Asks : /\ t = <<a>> /\ Holds(c, a.buffer, a.size, Len(o))
                          /\ Len(o) + a.size > Len(c.kept) => c.readError
    BY <1>4 DEF OnTheirWay
  <2>2. a.size \in Nat /\ Len(o) + a.size <= Len(c.kept)
    BY <1>1, <2>1, CopyConstants DEF Asks
  <2>3. ASSUME NEW j \in 1 .. a.size PROVE d.mem[a.buffer][j] = d.kept[Len(o) + j]
    <3>1. Len(o) + j \in 1 .. Len(c.kept) /\ Len(o) + j <= Len(c.kept)
      BY <1>1, <2>2
    <3>2. c.mem[a.buffer][j] = c.kept[Len(o) + j]
      BY <2>1, <3>1 DEF Holds
    <3> QED BY <3>1, <3>2
  <2>4. Holds(d, a.buffer, a.size, Len(o))
    BY <2>3 DEF Holds
  <2>5. ~(Len(o) + a.size > Len(d.kept))
    BY <1>1, <2>2
  <2> QED BY <2>1, <2>4, <2>5
<1>5. ~(Len(o) > Len(d.kept))
  BY <1>1, <1>3
<1>6. <<>> # <<>> => FALSE
  OBVIOUS
<1> QED BY <1>3, <1>4, <1>5, Zenon DEF OnTheirWay

\* What was read is dropped, or nothing was read: the buffer waits to be read into again.
LEMMA DroppedSound ==
    ASSUME NEW c, NEW q \in Asks, NEW t, NEW o, NEW f \in 0 .. q.size, Sound(c, <<q>>, t, o, f), c.running,
           NEW units \in 0 .. Width - 1, NEW code \in {"success", "ended", "error"}, NEW does, NEW n,
           units = f \/ (units = Width - 1 /\ code = "error"),
           NEW d, Object(d), Typed(d), Told(c, q.buffer, units, code, does, n, d),
           ~(units > 0 /\ does # "drop"), ~(units > 0 /\ does = "close")
    PROVE  Sound(d, <<>>, t, o, 0)
<1>1. /\ q.buffer \in Buffers /\ q.size \in 1 .. BufferSize /\ c.bufferReading = q.buffer
      /\ ~c.readError /\ f \in Nat /\ c.given \in Nat /\ f <= c.given
  BY Reading
<1>2. /\ Typed(c) /\ OnePlace(c) /\ KeptRises(c, c.given - f) /\ OnTheirWay(c, <<q>>, t, o)
      /\ o \in Seq(0 .. CopyLength) /\ (~c.writeError => Flow(c, o))
  BY <1>1 DEF Sound
<1>3. /\ d.running /\ d.bufferReading = Null /\ d.bufferWriting = c.bufferWriting
      /\ d.buffersRead = Append(c.buffersRead, q.buffer) /\ d.buffersWrite = c.buffersWrite
      /\ d.length = [c.length EXCEPT ![q.buffer] = 0] /\ d.kept = c.kept
      /\ d.readError = IF code = "error" THEN TRUE ELSE c.readError
      /\ d.writeError = c.writeError /\ d.mem = c.mem /\ d.given = c.given
  BY Zenon DEF Told
<1>4. Asked(d, <<>>, t) /\ SizesSay(d, o, 0) /\ d.ended = <<>>
  <2>1. d.running
    BY <1>3
  <2> QED BY <2>1, ToldSizes
<1>5. OnePlace(d)
  BY <1>1, <1>2, <1>3, PutBack
<1>6. KeptRises(d, d.given - 0)
  <2>1. Len(c.kept) <= c.given /\ \A i \in 1 .. Len(c.kept) : i <= c.kept[i] /\ c.kept[i] + (Len(c.kept) - i) <= c.given
    <3>1. Len(c.kept) <= c.given - f
      BY <1>2 DEF KeptRises
    <3>2. Len(c.kept) \in Nat /\ \A i \in 1 .. Len(c.kept) : c.kept[i] \in 0 .. CopyLength
      <4>1. c.kept \in Seq(0 .. CopyLength)
        BY <1>2 DEF Typed
      <4>2. Len(c.kept) \in Nat
        BY <4>1
      <4>3. \A i \in 1 .. Len(c.kept) : c.kept[i] \in 0 .. CopyLength
        BY <4>1, ElementOfSeq
      <4> QED BY <4>2, <4>3
    <3>3. ASSUME NEW i \in 1 .. Len(c.kept) PROVE i <= c.kept[i] /\ c.kept[i] + (Len(c.kept) - i) <= c.given
      <4> DEFINE v == c.kept[i]
                 l == Len(c.kept)
      <4>1. i <= v /\ v + (l - i) <= c.given - f
        BY <1>2 DEF KeptRises
      <4>2. v \in Nat /\ l \in Nat /\ i \in Nat
        BY <3>2, CopyConstants
      <4> HIDE DEF v, l
      <4>3. v + (l - i) <= c.given
        BY <1>1, <4>1, <4>2
      <4> QED BY <4>1, <4>3 DEF v, l
    <3> QED BY <1>1, <3>1, <3>2, <3>3
  <2>2. d.given - 0 = c.given
    BY <1>1, <1>3
  <2> QED BY <1>3, <2>1, <2>2, Zenon DEF KeptRises
<1>7. OnTheirWay(d, <<>>, t, o)
  <2>1. Len(c.kept) \in Nat /\ 0 \in Nat /\ Len(d.kept) = Len(c.kept) + 0
    <3>1. c.kept \in Seq(0 .. CopyLength)
      BY <1>2 DEF Typed
    <3> QED BY <1>3, <3>1
  <2> QED BY <1>1, <1>2, <1>3, <2>1, TargetKeeps
<1>8. ASSUME ~d.writeError PROVE Flow(d, o)
  <2>1. PICK off \in [1 .. Len(c.buffersWrite) + 1 -> Nat] : Follows(c, o, off)
    BY <1>2, <1>3, <1>8 DEF Flow
  <2>2. /\ \A i \in 1 .. Len(c.buffersWrite) : c.buffersWrite[i] # q.buffer
        /\ c.bufferWriting # q.buffer
    <3>1. q.buffer # Null
      BY <1>1, CopyConstants
    <3> QED BY <1>1, <1>2, <3>1, Zenon DEF OnePlace, Apart
  <2>3. /\ \A i \in 1 .. Len(c.buffersWrite) : d.length[c.buffersWrite[i]] = c.length[c.buffersWrite[i]]
        /\ c.bufferWriting # Null => d.length[c.bufferWriting] = c.length[c.bufferWriting]
    <3>1. c.length \in [Buffers -> 0 .. BufferSize] /\ c.buffersWrite \in Seq(Buffers)
      BY <1>2 DEF Typed
    <3>2. c.bufferWriting \in Buffers \cup {Null}
      BY <1>2 DEF Typed
    <3>3. \A i \in 1 .. Len(c.buffersWrite) : c.buffersWrite[i] \in Buffers
      BY <3>1, ElementOfSeq
    <3>4. \A x \in Buffers : x # q.buffer => d.length[x] = c.length[x]
      BY <1>1, <1>3, <3>1
    <3> QED BY <2>2, <3>2, <3>3, <3>4
  <2>4. \A x, m, k : Holds(c, x, m, k) => Holds(d, x, m, k)
    BY <1>3, Zenon DEF Holds
  <2>5. off[1] = Len(o) + (IF d.bufferWriting = Null THEN 0 ELSE d.length[d.bufferWriting])
    <3>1. off[1] = Len(o) + (IF c.bufferWriting = Null THEN 0 ELSE c.length[c.bufferWriting])
      BY <2>1, Zenon DEF Follows
    <3>2. (IF d.bufferWriting = Null THEN 0 ELSE d.length[d.bufferWriting])
             = (IF c.bufferWriting = Null THEN 0 ELSE c.length[c.bufferWriting])
      BY <1>3, <2>3
    <3> QED BY <3>1, <3>2, Zenon
  <2>6. \A i \in 1 .. Len(c.buffersWrite) : /\ d.length[c.buffersWrite[i]] >= 1
                                            /\ off[i + 1] = off[i] + d.length[c.buffersWrite[i]]
                                            /\ Holds(d, c.buffersWrite[i], d.length[c.buffersWrite[i]], off[i])
    BY <2>1, <2>3, <2>4, Zenon DEF Follows
  <2>7. /\ \A i \in 1 .. Len(c.buffersWrite) + 1 : /\ off[i] <= Len(d.kept) + BufferSize
                                                   /\ off[i] > Len(d.kept) => d.readError
        /\ off[Len(c.buffersWrite) + 1] >= Len(d.kept)
    <3>1. c.readError => d.readError
      BY <1>3
    <3> QED BY <1>3, <2>1, <3>1, Zenon DEF Follows
  <2>8. Follows(d, o, off)
    BY <1>3, <2>5, <2>6, <2>7, Zenon DEF Follows
  <2> QED BY <1>3, <2>1, <2>8, Zenon DEF Flow
<1> QED BY <1>2, <1>3, <1>4, <1>5, <1>6, <1>7, <1>8, Zenon DEF Sound

\* What onRead lets pass of a buffer: all that was given, and nothing when the source failed.
LEMMA PartKept ==
    ASSUME NEW c, Typed(c), NEW b \in Buffers, NEW f \in 0 .. BufferSize,
           NEW units \in 1 .. Width - 1, units = f \/ (units = Width - 1 /\ f = 0),
           NEW n, n = Copy!Least(units, BufferSize), NEW g, \A i \in 1 .. f : c.mem[b][i] = g + i
    PROVE  LET x == IF units = n THEN SubSeq(c.mem[b], 1, n) ELSE <<>> IN
           /\ x \in Seq(0 .. CopyLength) /\ Len(x) = f
           /\ \A i \in 1 .. f : x[i] = c.mem[b][i] /\ x[i] = g + i
           /\ n \in 1 .. BufferSize /\ n >= f /\ (n > f => units = Width - 1)
<1> DEFINE m == c.mem[b]
           x == IF units = n THEN SubSeq(m, 1, n) ELSE <<>>
<1>1. m \in [1 .. BufferSize -> 0 .. CopyLength]
  BY DEF Typed
<1>2. /\ BufferSize \in Nat /\ BufferSize >= 1 /\ BufferSize < Width - 1 /\ Width \in Nat /\ f \in Nat
      /\ f <= BufferSize
  BY CopyConstants
<1>3. /\ n \in Nat /\ n <= units /\ n <= BufferSize
      /\ units <= BufferSize => n = units
      /\ BufferSize <= units => n = BufferSize
  BY <1>2, LeastFacts
<1> HIDE DEF m
<1>4. \A i \in 1 .. f : m[i] = g + i
  BY DEF m
<1>5. CASE units = f
  <2>1. n = units /\ n = f /\ n \in 0 .. BufferSize /\ n \in 1 .. BufferSize
    BY <1>2, <1>3, <1>5
  <2>2. SubSeq(m, 1, n) \in Seq(0 .. CopyLength) /\ Len(SubSeq(m, 1, n)) = n
    BY <1>1, <2>1, PartOfMemory
  <2>3. \A i \in 1 .. n : SubSeq(m, 1, n)[i] = m[i]
    BY <1>1, <2>1, PartOfMemory
  <2>4. x = SubSeq(m, 1, n)
    BY <2>1
  <2> HIDE DEF x
  <2>5. x \in Seq(0 .. CopyLength) /\ Len(x) = f /\ \A i \in 1 .. f : x[i] = m[i] /\ x[i] = g + i
    BY <1>4, <2>1, <2>2, <2>3, <2>4
  <2>6. n >= f /\ ~(n > f)
    BY <1>2, <2>1
  <2> QED BY <2>1, <2>5, <2>6, Zenon DEF x, m
<1>6. CASE units = Width - 1 /\ f = 0
  <2>1. n = BufferSize /\ n # units
    BY <1>2, <1>3, <1>6
  <2>2. x = <<>>
    BY <2>1
  <2>3. <<>> \in Seq(0 .. CopyLength) /\ Len(<<>>) = 0
    OBVIOUS
  <2>4. \A i \in 1 .. f : FALSE
    BY <1>6
  <2>5. n \in 1 .. BufferSize /\ n >= f
    BY <1>2, <1>6, <2>1
  <2> HIDE DEF x
  <2> QED BY <1>6, <2>2, <2>3, <2>4, <2>5, Zenon DEF x, m
<1> QED BY <1>5, <1>6

\* What was read is kept: the buffer waits to be written.
LEMMA KeptSound ==
    ASSUME NEW c, NEW q \in Asks, NEW t, NEW o, NEW f \in 0 .. q.size, Sound(c, <<q>>, t, o, f), c.running,
           NEW units \in 1 .. Width - 1, NEW code \in {"success", "ended", "error"}, NEW does,
           units = f \/ (units = Width - 1 /\ f = 0 /\ code = "error"),
           \A i \in 1 .. f : c.mem[q.buffer][i] = c.given - f + i,
           NEW n, n = Copy!Least(units, BufferSize),
           NEW d, Object(d), Typed(d), Told(c, q.buffer, units, code, does, n, d), does # "drop", does # "close"
    PROVE  Sound(d, <<>>, t, o, 0)
<1> DEFINE b == q.buffer
           x == IF units = n THEN SubSeq(c.mem[b], 1, n) ELSE <<>>
           w == c.buffersWrite
<1>1. /\ b \in Buffers /\ q.size \in 1 .. BufferSize /\ c.bufferReading = b
      /\ ~c.readError /\ f \in Nat /\ c.given \in Nat /\ f <= c.given
  BY Reading
<1>2. /\ Typed(c) /\ OnePlace(c) /\ OnTheirWay(c, <<q>>, t, o)
      /\ o \in Seq(0 .. CopyLength) /\ (~c.writeError => Flow(c, o))
  BY <1>1 DEF Sound
<1>3. units > 0 /\ units \in 0 .. Width - 1 /\ f \in 0 .. BufferSize
  BY <1>1, CopyConstants
<1>4. /\ d.running /\ d.bufferReading = Null /\ d.bufferWriting = c.bufferWriting
      /\ d.buffersRead = c.buffersRead /\ d.buffersWrite = Append(w, b)
      /\ d.length = [c.length EXCEPT ![b] = n] /\ d.kept = c.kept \o x
      /\ d.readError = IF code = "error" THEN TRUE ELSE c.readError
      /\ d.writeError = c.writeError /\ d.mem = c.mem /\ d.given = c.given
  BY <1>3, Zenon DEF Told
<1>5. Asked(d, <<>>, t) /\ SizesSay(d, o, 0) /\ d.ended = <<>>
  <2>1. units = f \/ (units = Width - 1 /\ code = "error")
    OBVIOUS
  <2>2. d.running /\ units \in 0 .. Width - 1
    BY <1>3, <1>4
  <2> QED BY <2>1, <2>2, ToldSizes
<1>6. OnePlace(d)
  BY <1>1, <1>2, <1>4, PutOn
<1>7. /\ x \in Seq(0 .. CopyLength) /\ Len(x) = f
      /\ \A i \in 1 .. f : x[i] = c.mem[b][i] /\ x[i] = (c.given - f) + i
      /\ n \in 1 .. BufferSize /\ n >= f /\ (n > f => units = Width - 1)
  <2> DEFINE g == c.given - f
  <2>1. \A i \in 1 .. f : c.mem[b][i] = g + i
    OBVIOUS
  <2>2. units = f \/ (units = Width - 1 /\ f = 0)
    OBVIOUS
  <2> HIDE DEF g, b, x
  <2>3. /\ x \in Seq(0 .. CopyLength) /\ Len(x) = f
        /\ \A i \in 1 .. f : x[i] = c.mem[b][i] /\ x[i] = g + i
        /\ n \in 1 .. BufferSize /\ n >= f /\ (n > f => units = Width - 1)
    BY <1>1, <1>2, <1>3, <2>1, <2>2, PartKept DEF x
  <2> QED BY <2>3, Zenon DEF g
<1> HIDE DEF x, b
<1>8. /\ d.kept \in Seq(0 .. CopyLength) /\ Len(c.kept) \in Nat /\ Len(d.kept) = Len(c.kept) + f
      /\ \A i \in 1 .. Len(c.kept) : d.kept[i] = c.kept[i]
      /\ \A i \in 1 .. f : d.kept[Len(c.kept) + i] = x[i]
      /\ Len(d.kept) <= c.given
      /\ \A i \in 1 .. Len(d.kept) : i <= d.kept[i] /\ d.kept[i] + (Len(d.kept) - i) <= c.given
  <2>1. /\ x \in Seq(0 .. CopyLength) /\ Len(x) = f /\ f \in Nat
        /\ \A i \in 1 .. f : x[i] = c.given - f + i
    BY <1>1, <1>7
  <2>2. KeptAlso(c, x, f, c.kept \o x)
    BY <2>1, KeptMore
  <2> QED BY <1>4, <2>2, Zenon DEF KeptAlso
<1>9. KeptRises(d, d.given - 0)
  <2>1. d.given - 0 = c.given
    BY <1>1, <1>4
  <2> QED BY <1>8, <2>1, Zenon DEF KeptRises
<1>10. OnTheirWay(d, <<>>, t, o)
  <2>1. d.mem = c.mem
    BY <1>4
  <2>2. /\ Len(c.kept) \in Nat /\ Len(d.kept) = Len(c.kept) + f
        /\ \A i \in 1 .. Len(c.kept) : d.kept[i] = c.kept[i]
    BY <1>8
  <2>3. f \in Nat /\ ~c.readError
    BY <1>1
  <2>4. o \in Seq(0 .. CopyLength) /\ OnTheirWay(c, <<q>>, t, o)
    BY <1>2
  <2> QED BY <2>1, <2>2, <2>3, <2>4, TargetKeeps
<1>11. ASSUME ~d.writeError PROVE Flow(d, o)
  <2> DEFINE l == Len(w)
             k == Len(c.kept)
  <2>1. PICK off \in [1 .. l + 1 -> Nat] : Follows(c, o, off)
    BY <1>2, <1>4, <1>11 DEF Flow
  <2>2. /\ off[1] = Len(o) + (IF c.bufferWriting = Null THEN 0 ELSE c.length[c.bufferWriting])
        /\ \A i \in 1 .. l : /\ c.length[w[i]] >= 1 /\ off[i + 1] = off[i] + c.length[w[i]]
                             /\ Holds(c, w[i], c.length[w[i]], off[i])
        /\ \A i \in 1 .. l + 1 : /\ off[i] <= k + BufferSize /\ (off[i] > k => c.readError)
        /\ off[l + 1] >= k
    BY <2>1, Zenon DEF Follows
  <2>3. w \in Seq(Buffers) /\ l \in Nat /\ k \in Nat
    <3>1. w \in Seq(Buffers)
      BY <1>2 DEF Typed
    <3> QED BY <1>8, <3>1
  <2>4. /\ Len(d.buffersWrite) = l + 1 /\ d.buffersWrite[l + 1] = b
        /\ \A i \in 1 .. l : d.buffersWrite[i] = w[i]
    BY <1>1, <1>4, <2>3
  <2>5. /\ \A i \in 1 .. l : w[i] # b /\ w[i] \in Buffers
        /\ c.bufferWriting # b
    <3>1. b # Null
      BY <1>1, CopyConstants
    <3>2. \A i \in 1 .. l : w[i] \in Buffers
      BY <2>3, ElementOfSeq
    <3> QED BY <1>1, <1>2, <3>1, <3>2, Zenon DEF OnePlace, Apart
  <2>6. /\ d.length[b] = n /\ \A i \in 1 .. l : d.length[w[i]] = c.length[w[i]] /\ c.length[w[i]] \in Nat
        /\ c.bufferWriting # Null => d.length[c.bufferWriting] = c.length[c.bufferWriting]
    <3>1. c.length \in [Buffers -> 0 .. BufferSize] /\ c.bufferWriting \in Buffers \cup {Null}
      BY <1>2 DEF Typed
    <3>2. d.length = [c.length EXCEPT ![b] = n] /\ b \in Buffers
      BY <1>1, <1>4
    <3>3. d.length[b] = n /\ \A y \in Buffers : y # b => d.length[y] = c.length[y]
      BY <3>1, <3>2
    <3>4. BufferSize \in Nat
      BY CopyConstants
    <3>5. \A y \in Buffers : c.length[y] \in Nat
      BY <3>1, <3>4
    <3> QED BY <2>5, <3>1, <3>3, <3>5, Zenon
  <2> DEFINE new == [i \in 1 .. (l + 1) + 1 |-> IF i <= l + 1 THEN off[i] ELSE off[l + 1] + n]
  <2>7. n \in Nat /\ off[l + 1] \in Nat /\ (\A i \in 1 .. l + 1 : off[i] \in Nat) /\ off[l + 1] = k
    <3>1. \A i \in 1 .. l + 1 : off[i] \in Nat
      OBVIOUS
    <3>2. l + 1 \in 1 .. l + 1
      BY <2>3
    <3>3. ~(off[l + 1] > k)
      BY <1>1, <2>2, <3>2
    <3>4. n \in Nat
      BY <1>7, CopyConstants
    <3>5. off[l + 1] \in Nat /\ off[l + 1] >= k /\ k \in Nat
      BY <2>2, <2>3, <3>1, <3>2
    <3>6. off[l + 1] = k
      BY <3>3, <3>5
    <3> QED BY <3>1, <3>4, <3>5, <3>6
  <2> HIDE DEF l, k
  <2>8. new \in [1 .. (l + 1) + 1 -> Nat]
    <3> SUFFICES ASSUME NEW i \in 1 .. (l + 1) + 1
                 PROVE  (IF i <= l + 1 THEN off[i] ELSE off[l + 1] + n) \in Nat
      OBVIOUS
    <3>1. l \in Nat
      BY <2>3
    <3>2. i <= l + 1 => i \in 1 .. l + 1
      BY <3>1
    <3>3. off[l + 1] + n \in Nat
      BY <2>7
    <3> QED BY <2>7, <3>2, <3>3
  <2>9. (\A i \in 1 .. l + 1 : new[i] = off[i]) /\ new[(l + 1) + 1] = k + n
    BY <2>3, <2>7
  <2> HIDE DEF new
  <2>10. new[1] = Len(o) + (IF d.bufferWriting = Null THEN 0 ELSE d.length[d.bufferWriting])
    <3>1. new[1] = off[1]
      BY <2>3, <2>9
    <3>2. (IF d.bufferWriting = Null THEN 0 ELSE d.length[d.bufferWriting])
             = (IF c.bufferWriting = Null THEN 0 ELSE c.length[c.bufferWriting])
      BY <1>4, <2>6
    <3> QED BY <2>2, <3>1, <3>2, Zenon
  <2>11. ASSUME NEW i \in 1 .. l + 1
         PROVE  /\ d.length[d.buffersWrite[i]] >= 1 /\ new[i + 1] = new[i] + d.length[d.buffersWrite[i]]
                /\ Holds(d, d.buffersWrite[i], d.length[d.buffersWrite[i]], new[i])
    <3>1. CASE i \in 1 .. l
      <4>1. d.buffersWrite[i] = w[i] /\ d.length[w[i]] = c.length[w[i]] /\ c.length[w[i]] \in Nat
        BY <2>4, <2>6, <3>1
      <4>2. i + 1 \in 1 .. l + 1 /\ new[i + 1] = off[i + 1] /\ new[i] = off[i]
        BY <2>3, <2>9, <3>1
      <4>3. /\ c.length[w[i]] >= 1 /\ off[i + 1] = off[i] + c.length[w[i]]
            /\ Holds(c, w[i], c.length[w[i]], off[i])
        BY <2>2, <3>1, Zenon
      <4>4. off[i + 1] <= k /\ off[i + 1] \in Nat /\ off[i] \in Nat
        <5>1. ~(off[i + 1] > k) /\ off[i + 1] \in Nat /\ off[i] \in Nat
          BY <1>1, <2>2, <2>7, <4>2
        <5>2. k \in Nat /\ \A u \in Nat : ~(u > k) => u <= k
          BY <2>3
        <5> QED BY <5>1, <5>2, Zenon
      <4>5. ASSUME NEW j \in 1 .. c.length[w[i]] PROVE d.mem[w[i]][j] = d.kept[off[i] + j]
        <5> DEFINE a == off[i] + j
        <5>1. a \in 1 .. k /\ a <= k
          <6> DEFINE u == off[i]
                     v == c.length[w[i]]
          <6>1. u \in Nat /\ v \in Nat /\ j \in 1 .. v /\ u + v <= k
            BY <4>1, <4>3, <4>4
          <6>2. k \in Nat
            BY <2>3
          <6> HIDE DEF u, v
          <6>3. u + j \in 1 .. k /\ u + j <= k
            BY <6>1, <6>2
          <6> QED BY <6>3 DEF u
        <5>2. c.mem[w[i]][j] = c.kept[a]
          BY <4>3, <5>1 DEF Holds, k
        <5> HIDE DEF a
        <5>3. d.kept[a] = c.kept[a] /\ d.mem = c.mem
          BY <1>4, <1>8, <5>1 DEF k
        <5> QED BY <5>2, <5>3 DEF a
      <4>6. Holds(d, w[i], c.length[w[i]], off[i])
        BY <4>5 DEF Holds
      <4> QED BY <4>1, <4>2, <4>3, <4>6, Zenon
    <3>2. CASE i = l + 1
      <4>1. d.buffersWrite[i] = b /\ d.length[b] = n /\ n >= 1
        BY <1>7, <2>4, <2>6, <3>2
      <4>2. i \in 1 .. l + 1 /\ new[i] = k /\ new[i + 1] = k + n
        BY <2>3, <2>7, <2>9, <3>2
      <4>3. ASSUME NEW j \in 1 .. n, k + j <= Len(d.kept) PROVE d.mem[b][j] = d.kept[k + j]
        <5>1. j \in 1 .. f
          BY <1>1, <1>8, <2>3, <2>7, <4>3 DEF k
        <5>2. d.kept[k + j] = x[j] /\ x[j] = c.mem[b][j]
          BY <1>7, <1>8, <5>1 DEF k
        <5> QED BY <1>4, <5>2
      <4>4. Holds(d, b, n, k)
        BY <4>3 DEF Holds
      <4> QED BY <4>1, <4>2, <4>4, Zenon
    <3> QED BY <2>3, <3>1, <3>2
  <2>12. ASSUME NEW i \in 1 .. (l + 1) + 1
         PROVE  new[i] <= Len(d.kept) + BufferSize /\ (new[i] > Len(d.kept) => d.readError)
    <3>1. CASE i \in 1 .. l + 1
      <4>1. new[i] = off[i] /\ off[i] \in Nat /\ off[i] <= k + BufferSize /\ ~(off[i] > k)
        BY <1>1, <2>2, <2>7, <2>9, <3>1
      <4>2. f \in Nat /\ k \in Nat /\ Len(d.kept) = k + f /\ BufferSize \in Nat
        BY <1>1, <1>8, <2>3, CopyConstants DEF k
      <4>3. \A u \in Nat : u <= k + BufferSize /\ ~(u > k) => u <= (k + f) + BufferSize /\ ~(u > k + f)
        BY <4>2
      <4> QED BY <4>1, <4>2, <4>3
    <3>2. CASE i = (l + 1) + 1
      <4>1. new[i] = k + n /\ n <= BufferSize /\ Len(d.kept) = k + f
        BY <1>7, <1>8, <2>9, <3>2 DEF k
      <4>2. new[i] > Len(d.kept) => n > f
        BY <1>1, <2>3, <2>7, <4>1
      <4>3. n > f => d.readError
        <5>1. n > f => units = Width - 1
          BY <1>7
        <5>2. f # Width - 1
          BY <1>3, CopyConstants
        <5> QED BY <1>4, <5>1, <5>2
      <4>4. k + n <= (k + f) + BufferSize
        BY <1>1, <2>3, <2>7, <4>1, CopyConstants
      <4> QED BY <4>1, <4>2, <4>3, <4>4
    <3> QED BY <2>3, <3>1, <3>2
  <2>13. new[(l + 1) + 1] >= Len(d.kept)
    BY <1>1, <1>7, <1>8, <2>3, <2>7, <2>9 DEF k
  <2>14. Follows(d, o, new)
    BY <2>4, <2>10, <2>11, <2>12, <2>13 DEF Follows
  <2> QED BY <2>4, <2>8, <2>14 DEF Flow
<1> QED BY <1>2, <1>4, <1>5, <1>6, <1>9, <1>10, <1>11, Zenon DEF Sound

\* The f units that came, in the memory of the buffer b, and what was told of their number.
Came(c, b, units, code, f) ==
    /\ units = f \/ (units = Width - 1 /\ f = 0 /\ code = "error")
    /\ \A i \in 1 .. f : c.mem[b][i] = c.given - f + i

\* onRead closes the copy: it ends with something left to write.
LEMMA ClosedOnReadSound ==
    ASSUME NEW c, NEW q \in Asks, NEW t, NEW o, NEW f \in 0 .. q.size, Sound(c, <<q>>, t, o, f), c.running,
           NEW units \in 1 .. Width - 1, NEW code \in {"success", "ended", "error"},
           Came(c, q.buffer, units, code, f),
           NEW n, n = Copy!Least(units, BufferSize),
           NEW d, Object(d), Typed(d), Told(c, q.buffer, units, code, "close", n, d)
    PROVE  Sound(d, <<>>, t, o, 0) /\ ~d.running
<1> DEFINE b == q.buffer
           x == IF units = n THEN SubSeq(c.mem[b], 1, n) ELSE <<>>
<1>0. /\ units = f \/ (units = Width - 1 /\ f = 0 /\ code = "error")
      /\ \A i \in 1 .. f : c.mem[b][i] = c.given - f + i
  BY DEF Came
<1>1. /\ b \in Buffers /\ q.size \in 1 .. BufferSize
      /\ ~c.readError /\ f \in Nat /\ c.sizeRead \in Nat /\ c.sizeTotal \in Nat /\ c.given \in Nat
      /\ c.given <= CopyLength /\ f <= c.given
      /\ c.sizeRead = c.given - f /\ c.sizeRead + q.size <= c.sizeTotal
  BY Reading
<1>2. Typed(c) /\ OnTheirWay(c, <<q>>, t, o) /\ o \in Seq(0 .. CopyLength) /\ c.ended = <<>>
  BY <1>1 DEF Sound
<1>3. units > 0 /\ units \in 0 .. Width - 1 /\ f \in 0 .. BufferSize
  BY <1>1, CopyConstants
<1>4. /\ ~d.running /\ d.closed /\ d.ended = Append(c.ended, c.readError \/ c.writeError)
      /\ d.kept = c.kept \o x /\ d.mem = c.mem
      /\ d.sizeRead = (c.sizeRead + units) % Width /\ d.sizeWritten = c.sizeWritten
      /\ d.sizeTotal = IF code = "ended" /\ c.sizeTotal = Unlimited THEN d.sizeRead ELSE c.sizeTotal
  BY <1>3, Zenon DEF Told
<1>5. /\ x \in Seq(0 .. CopyLength) /\ Len(x) = f
      /\ \A i \in 1 .. f : x[i] = (c.given - f) + i
  <2> DEFINE g == c.given - f
  <2>1. \A i \in 1 .. f : c.mem[b][i] = g + i
    BY <1>0
  <2>2. units = f \/ (units = Width - 1 /\ f = 0)
    BY <1>0
  <2> HIDE DEF g, b, x
  <2>3. x \in Seq(0 .. CopyLength) /\ Len(x) = f /\ \A i \in 1 .. f : x[i] = g + i
    BY <1>1, <1>2, <1>3, <2>1, <2>2, PartKept DEF x
  <2> QED BY <2>3, Zenon DEF g
<1> HIDE DEF x, b
<1>6. KeptAlso(c, x, f, c.kept \o x)
  <2>1. \A i \in 1 .. f : x[i] = c.given - f + i
    BY <1>5
  <2> QED BY <1>1, <1>5, <2>1, KeptMore
<1>7. OnTheirWay(d, <<>>, t, o)
  <2>1. /\ Len(c.kept) \in Nat /\ Len(d.kept) = Len(c.kept) + f
        /\ \A i \in 1 .. Len(c.kept) : d.kept[i] = c.kept[i]
    BY <1>4, <1>6, Zenon DEF KeptAlso
  <2> QED BY <1>1, <1>2, <1>4, <2>1, TargetKeeps
<1>8. d.ended = <<FALSE>> => d.sizeWritten # d.sizeTotal
  <2> SUFFICES ASSUME d.ended = <<FALSE>> PROVE d.sizeWritten # d.sizeTotal
    OBVIOUS
  <2>1. ~c.writeError
    <3> DEFINE v == c.readError \/ c.writeError
    <3>1. d.ended = Append(<<>>, v)
      BY <1>2, <1>4
    <3> HIDE DEF v
    <3>2. v = FALSE
      BY <3>1, EndedFalse
    <3> QED BY <3>2 DEF v
  <2>2. d.sizeWritten \in Nat /\ d.sizeWritten <= c.given - f
    <3>1. /\ Len(o) \in Nat /\ Len(c.kept) \in Nat /\ Len(c.kept) <= c.given - f
          /\ Len(o) <= Len(c.kept) /\ c.sizeWritten = Len(o)
      BY <1>1, <2>1, Numbers
    <3> QED BY <1>1, <1>4, <3>1
  <2>3. d.sizeTotal > c.given - f
    <3>1. CASE code = "ended" /\ c.sizeTotal = Unlimited
      <4>1. units = f /\ c.sizeRead + units = c.given
        BY <1>0, <1>1, <3>1
      <4>2. c.given % Width = c.given
        <5>1. c.given < Width /\ Width \in Nat /\ Width > 0
          BY <1>1, CopyConstants
        <5> QED BY <1>1, <5>1, ModFacts
      <4>3. d.sizeTotal = c.given
        BY <1>4, <3>1, <4>1, <4>2
      <4> QED BY <1>1, <1>3, <4>1, <4>3
    <3>2. CASE ~(code = "ended" /\ c.sizeTotal = Unlimited)
      <4>1. d.sizeTotal = c.sizeTotal
        BY <1>4, <3>2
      <4> QED BY <1>1, <4>1
    <3> QED BY <3>1, <3>2
  <2> QED BY <1>1, <2>2, <2>3
<1>9. EndSays(d, t, o)
  <2>1. Len(d.ended) = 1
    BY <1>2, <1>4, EndedFalse
  <2> QED BY <1>4, <1>8, <2>1, Zenon DEF EndSays
<1> QED BY <1>2, <1>4, <1>7, <1>9, Zenon DEF Sound

\* However onRead takes what was read.
LEMMA ToldSound ==
    ASSUME NEW c, NEW q \in Asks, NEW t, NEW o, NEW f \in 0 .. q.size, Sound(c, <<q>>, t, o, f), c.running,
           NEW units \in 0 .. Width - 1, NEW code \in {"success", "ended", "error"}, NEW does,
           Came(c, q.buffer, units, code, f),
           NEW n, n = Copy!Least(units, BufferSize),
           NEW d, Object(d), Typed(d), Told(c, q.buffer, units, code, does, n, d)
    PROVE  Sound(d, <<>>, t, o, 0)
<1>1. CASE units > 0 /\ does = "close"
  <2>1. units \in 1 .. Width - 1 /\ Told(c, q.buffer, units, code, "close", n, d)
    BY <1>1
  <2> QED BY <2>1, ClosedOnReadSound
<1>2. CASE units > 0 /\ does # "drop" /\ does # "close"
  <2>1. units \in 1 .. Width - 1
    BY <1>2
  <2>2. /\ units = f \/ (units = Width - 1 /\ f = 0 /\ code = "error")
        /\ \A i \in 1 .. f : c.mem[q.buffer][i] = c.given - f + i
    BY DEF Came
  <2> QED BY <1>2, <2>1, <2>2, KeptSound
<1>3. CASE ~(units > 0 /\ does # "drop") /\ ~(units > 0 /\ does = "close")
  <2>1. units = f \/ (units = Width - 1 /\ code = "error")
    BY DEF Came
  <2> QED BY <1>3, <2>1, DroppedSound
<1> QED BY <1>1, <1>2, <1>3

\* What a read of n units may be answered.
LEMMA AnswerFacts ==
    ASSUME NEW c, Typed(c), NEW n \in 1 .. BufferSize, NEW a \in Copy!Answers(c, n)
    PROVE  /\ a.size \in 0 .. Width - 1 /\ a.code \in {"success", "ended", "error"}
           /\ Copy!Got(a) \in 0 .. n /\ c.given + Copy!Got(a) <= CopyLength
           /\ a.size = Copy!Got(a) \/ (a.size = Width - 1 /\ Copy!Got(a) = 0 /\ a.code = "error")
<1> DEFINE left == CopyLength - c.given
<1>1. /\ c.given \in Nat /\ left \in Nat /\ c.given + left = CopyLength
      /\ n \in Nat /\ Width - 1 \in Nat /\ Width - 1 > CopyLength /\ Width - 1 > 0
      /\ CopyLength \in Nat /\ left <= CopyLength
  <2>1. c.given \in 0 .. CopyLength
    BY DEF Typed
  <2> QED BY <2>1, CopyConstants
<1>2. \/ a \in [size : 1 .. Copy!Least(n, left), code : {"success", "ended"}]
      \/ a = [size |-> 0, code |-> "ended"] \/ a = [size |-> 0, code |-> "error"]
      \/ a = [size |-> Width - 1, code |-> "error"]
  BY Zenon DEF Copy!Answers
<1> HIDE DEF left
<1>3. CASE a \in [size : 1 .. Copy!Least(n, left), code : {"success", "ended"}]
  <2>1. a.size \in 1 .. Copy!Least(n, left) /\ a.code \in {"success", "ended"}
    BY <1>3
  <2>2. Copy!Least(n, left) \in Nat /\ Copy!Least(n, left) <= n /\ Copy!Least(n, left) <= left
    BY <1>1, LeastFacts
  <2>3. a.size \in Nat /\ a.size <= n /\ a.size <= left
    BY <1>1, <2>1, <2>2
  <2>4. Copy!Got(a) = a.size
    BY <1>1, <2>3 DEF Copy!Got
  <2>5. a.size \in 0 .. n /\ c.given + a.size <= CopyLength /\ a.size \in 0 .. Width - 1
    BY <1>1, <2>3
  <2> QED BY <2>1, <2>4, <2>5
<1>4. CASE a = [size |-> 0, code |-> "ended"] \/ a = [size |-> 0, code |-> "error"]
  <2>1. a.size = 0 /\ a.code \in {"ended", "error"}
    BY <1>4
  <2>2. Copy!Got(a) = 0
    BY <1>1, <2>1 DEF Copy!Got
  <2> QED BY <1>1, <2>1, <2>2
<1>5. CASE a = [size |-> Width - 1, code |-> "error"]
  <2>1. a.size = Width - 1 /\ a.code = "error"
    BY <1>5
  <2>2. Copy!Got(a) = 0
    BY <2>1 DEF Copy!Got
  <2> QED BY <1>1, <2>1, <2>2
<1> QED BY <1>2, <1>3, <1>4, <1>5

\* What a read was answered, or told to onReadStream() without a read.
LEMMA OnReadSound ==
    ASSUME NEW c, NEW q \in Asks, NEW t, NEW o, NEW f \in 0 .. q.size, Sound(c, <<q>>, t, o, f), c.running,
           NEW units \in 0 .. Width - 1, NEW code \in {"success", "ended", "error"}, NEW does,
           Came(c, q.buffer, units, code, f),
           NEW d, d = Copy!OnRead(c, units, code, does)
    PROVE  /\ Sound(d, <<>>, t, o, 0) /\ d.hollow = c.hollow
           /\ (code = "error" => d.readError) /\ (code = "ended" => d.readEnded)
<1> DEFINE n == Copy!Least(units, BufferSize)
<1>1. Object(c) /\ Typed(c) /\ q.buffer \in Buffers /\ c.bufferReading = q.buffer
  <2>1. f \in Nat
    BY CopyConstants DEF Asks
  <2> QED BY <2>1, Reading DEF Sound
<1>2. Object(d) /\ Typed(d) /\ Told(c, q.buffer, units, code, does, n, d)
  BY <1>1, OnReadGives
<1> HIDE DEF n
<1>3. n = Copy!Least(units, BufferSize)
  BY DEF n
<1>4. Sound(d, <<>>, t, o, 0)
  BY <1>2, <1>3, ToldSound
<1> QED BY <1>2, <1>4, Zenon DEF Told

\* The source answers the read on its way.
LEMMA ReadSound ==
    ASSUME NEW c, NEW q \in Asks, NEW t, NEW o, Sound(c, <<q>>, t, o, 0), c.running,
           NEW a \in Copy!Answers(c, q.size), NEW does,
           NEW d, d = Copy!OnRead(Copy!Fill(c, q.buffer, Copy!Got(a)), a.size, a.code, does)
    PROVE  /\ Sound(d, <<>>, t, o, 0) /\ d.hollow = c.hollow
           /\ (a.code = "error" => d.readError) /\ (a.code = "ended" => d.readEnded)
<1> DEFINE f == Copy!Got(a)
           g == Copy!Fill(c, q.buffer, f)
<1>1. Typed(c) /\ q.size \in 1 .. BufferSize
  BY DEF Sound, Asks
<1>2. /\ a.size \in 0 .. Width - 1 /\ a.code \in {"success", "ended", "error"}
      /\ f \in 0 .. q.size /\ c.given + f <= CopyLength
      /\ a.size = f \/ (a.size = Width - 1 /\ f = 0 /\ a.code = "error")
  BY <1>1, AnswerFacts
<1>3. d = Copy!OnRead(g, a.size, a.code, does)
  OBVIOUS
<1> HIDE DEF f
<1>4. /\ Sound(g, <<q>>, t, o, f) /\ g.hollow = c.hollow /\ g.running
      /\ \A i \in 1 .. f : g.mem[q.buffer][i] = g.given - f + i
  BY <1>2, FillSound
<1> HIDE DEF g
<1>5. Came(g, q.buffer, a.size, a.code, f)
  BY <1>2, <1>4, Zenon DEF Came
<1>6. Sound(d, <<>>, t, o, 0) /\ d.hollow = g.hollow /\ (a.code = "error" => d.readError)
      /\ (a.code = "ended" => d.readEnded)
  BY <1>2, <1>3, <1>4, <1>5, OnReadSound
<1> QED BY <1>4, <1>6

-----------------------------------------------------------------------------
\* The object with another hollow.
Hollowed(d, v, e) ==
    /\ e.buffersRead = d.buffersRead /\ e.bufferReading = d.bufferReading
    /\ e.buffersWrite = d.buffersWrite /\ e.bufferWriting = d.bufferWriting
    /\ e.sizeRead = d.sizeRead /\ e.sizeWritten = d.sizeWritten /\ e.sizeTotal = d.sizeTotal
    /\ e.readError = d.readError /\ e.readEnded = d.readEnded /\ e.writeError = d.writeError
    /\ e.running = d.running /\ e.mem = d.mem /\ e.length = d.length /\ e.given = d.given
    /\ e.kept = d.kept /\ e.ended = d.ended /\ e.closed = d.closed /\ e.hollow = v

LEMMA FieldsHollowed ==
    ASSUME NEW d, Object(d), NEW v, NEW e, e = [d EXCEPT !.hollow = v]
    PROVE  Object(e) /\ Hollowed(d, v, e)
BY DEF Object, Hollowed

\* An answered read may leave nothing to write.
LEMMA HollowedSound ==
    ASSUME NEW d, NEW s, NEW t, NEW o, NEW f, Sound(d, s, t, o, f),
           NEW v, d.hollow => v, NEW e, Object(e), Hollowed(d, v, e)
    PROVE  Sound(e, s, t, o, f)
<1>1. Typed(e) /\ o \in Seq(0 .. CopyLength)
  BY Zenon DEF Sound, Typed, Hollowed
<1>2. OnTheirWay(e, s, t, o)
  <2>1. OnTheirWay(d, s, t, o)
    BY Zenon DEF Sound
  <2>2. \A b, n, k : Holds(d, b, n, k) => Holds(e, b, n, k)
    BY Zenon DEF Holds, Hollowed
  <2>3. e.kept = d.kept /\ e.readError = d.readError
    BY Zenon DEF Hollowed
  <2> QED BY <2>1, <2>2, <2>3, Zenon DEF OnTheirWay
<1>3. e.running => OnePlace(e) /\ Asked(e, s, t) /\ KeptRises(e, e.given - f) /\ SizesSay(e, o, f)
                   /\ e.ended = <<>>
  <2>1. d.running => OnePlace(d) /\ Asked(d, s, t) /\ KeptRises(d, d.given - f) /\ SizesSay(d, o, f)
                     /\ d.ended = <<>>
    BY Zenon DEF Sound
  <2>2. OnePlace(d) => OnePlace(e)
    BY Zenon DEF OnePlace, Hollowed
  <2>3. Asked(d, s, t) => Asked(e, s, t)
    BY Zenon DEF Asked, Hollowed
  <2>4. KeptRises(d, d.given - f) => KeptRises(e, e.given - f)
    BY Zenon DEF KeptRises, Hollowed
  <2>5. SizesSay(d, o, f) => SizesSay(e, o, f)
    BY Zenon DEF SizesSay, Hollowed
  <2>6. e.running = d.running /\ e.ended = d.ended
    BY Zenon DEF Hollowed
  <2> QED BY <2>1, <2>2, <2>3, <2>4, <2>5, <2>6, Zenon
<1>4. e.running /\ ~e.writeError => Flow(e, o)
  <2>1. d.running /\ ~d.writeError => Flow(d, o)
    BY Zenon DEF Sound
  <2>2. Flow(d, o) => Flow(e, o)
    <3>1. \A b, n, k : Holds(d, b, n, k) => Holds(e, b, n, k)
      BY Zenon DEF Holds, Hollowed
    <3>2. /\ e.kept = d.kept /\ e.readError = d.readError /\ e.buffersWrite = d.buffersWrite
          /\ e.length = d.length /\ e.bufferWriting = d.bufferWriting
      BY Zenon DEF Hollowed
    <3>3. \A off : Follows(d, o, off) => Follows(e, o, off)
      BY <3>1, <3>2, Zenon DEF Follows
    <3> QED BY <3>2, <3>3, Zenon DEF Flow
  <2> QED BY <2>1, <2>2, Zenon DEF Hollowed
<1>5. ~e.running => EndSays(e, t, o)
  BY Zenon DEF Sound, EndSays, Hollowed
<1> QED BY <1>1, <1>2, <1>3, <1>4, <1>5, Zenon DEF Sound

\* Why nothing is being read after enqueue() tried to.
ReadTried(c) ==
    c.running /\ c.bufferReading = Null /\ ~c.readError /\ ~c.hollow =>
        c.readEnded \/ c.sizeRead = c.sizeTotal \/ c.buffersRead = <<>> \/ c.buffersWrite # <<>>

\* The first half of enqueue().
LEMMA ReadStageSound ==
    ASSUME NEW c, NEW s, NEW t, NEW o, Sound(c, s, t, o, 0), c.running, s \in Seq(Asks),
           NEW r \in Copy!ReadStage(c)
    PROVE  Sound(r.copy, s \o r.asked, t, o, 0) /\ ReadTried(r.copy)
<1>1. CASE ~Copy!CanRead(c)
  <2>1. r = [copy |-> c, asked |-> <<>>]
    BY <1>1 DEF Copy!ReadStage
  <2>2. r.copy = c /\ s \o r.asked = s
    BY <2>1
  <2>3. ReadTried(c)
    <3>1. ~c.readError => c.sizeRead <= c.sizeTotal
      BY DEF Sound, SizesSay
    <3>2. c.sizeRead \in Nat /\ c.sizeTotal \in Nat
      BY CopyConstants DEF Sound, Typed
    <3>3. c.readError \/ c.readEnded \/ ~(c.sizeRead < c.sizeTotal) \/ c.bufferReading # Null \/ c.buffersRead = <<>>
      BY <1>1 DEF Copy!CanRead, Null
    <3>4. c.sizeRead <= c.sizeTotal /\ ~(c.sizeRead < c.sizeTotal) => c.sizeRead = c.sizeTotal
      BY <3>2
    <3> QED BY <3>1, <3>3, <3>4, Zenon DEF ReadTried
  <2> QED BY <2>2, <2>3
<1>2. CASE Copy!CanRead(c)
  <2> DEFINE b == Copy!Take(c)
             n == Copy!ReadSize(c)
             q == [buffer |-> b.bufferReading, size |-> n]
  <2>1. \/ r = [copy |-> b, asked |-> <<q>>]
        \/ r = [copy |-> Copy!Refused(b), asked |-> <<>>]
        \/ \E a \in Copy!Answers(b, n), does \in Copy!Deeds :
              r = [copy |-> Copy!AnsweredAtOnce(b, a, does), asked |-> <<>>]
    BY <1>2 DEF Copy!ReadStage
  <2> HIDE DEF b, n
  <2>2. s = <<>>
    <3>1. c.bufferReading = Null
      BY <1>2 DEF Copy!CanRead, Null
    <3> QED BY <3>1, Zenon DEF Sound, Asked
  <2>3. /\ b.running /\ b.bufferReading \in Buffers /\ n \in 1 .. BufferSize /\ b.hollow = c.hollow
        /\ Sound(b, <<q>>, t, o, 0)
    <3>1. Sound(c, <<>>, t, o, 0)
      BY <2>2
    <3> QED BY <1>2, <3>1, TakeSound DEF b, n
  <2>4. q \in Asks /\ q.buffer = b.bufferReading /\ q.size = n
    BY <2>3 DEF Asks
  <2>5. CASE r = [copy |-> b, asked |-> <<q>>]
    <3>1. r.copy = b /\ s \o r.asked = <<q>>
      BY <2>2, <2>5
    <3>2. b.bufferReading # Null
      BY <2>3, CopyConstants
    <3> QED BY <2>3, <3>1, <3>2 DEF ReadTried
  <2> HIDE DEF q
  <2>6. CASE r = [copy |-> Copy!Refused(b), asked |-> <<>>]
    <3> DEFINE d == Copy!OnRead(b, 0, "error", "keep")
    <3>1. r.copy = d /\ s \o r.asked = <<>>
      BY <2>2, <2>6 DEF Copy!Refused
    <3> HIDE DEF d
    <3>2. Came(b, q.buffer, 0, "error", 0)
      BY DEF Came
    <3>3. 0 \in 0 .. q.size /\ 0 \in 0 .. Width - 1
      BY <2>3, <2>4, CopyConstants
    <3>4. Sound(d, <<>>, t, o, 0) /\ d.readError
      BY <2>3, <2>4, <3>2, <3>3, OnReadSound DEF d
    <3> QED BY <3>1, <3>4 DEF ReadTried
  <2>7. ASSUME NEW a \in Copy!Answers(b, n), NEW does,
               r = [copy |-> Copy!AnsweredAtOnce(b, a, does), asked |-> <<>>]
        PROVE  Sound(r.copy, s \o r.asked, t, o, 0) /\ ReadTried(r.copy)
    <3> DEFINE d == Copy!OnRead(Copy!Fill(b, q.buffer, Copy!Got(a)), a.size, a.code, does)
               v == d.hollow \/ (a.code = "success" /\ d.buffersWrite = <<>>)
               e == [d EXCEPT !.hollow = v]
    <3>1. r.copy = e /\ s \o r.asked = <<>>
      <4>1. r.copy = Copy!AnsweredAtOnce(b, a, does) /\ s \o r.asked = <<>>
        BY <2>2, <2>7
      <4> QED BY <2>4, <4>1, Zenon DEF Copy!AnsweredAtOnce
    <3> HIDE DEF d
    <3>2. Sound(d, <<>>, t, o, 0) /\ (a.code = "error" => d.readError) /\ (a.code = "ended" => d.readEnded)
      BY <2>3, <2>4, ReadSound DEF d
    <3>3. a.code \in {"success", "ended", "error"}
      BY <2>3, AnswerFacts DEF Sound
    <3>4. (d.hollow => v) /\ v \in BOOLEAN
      OBVIOUS
    <3>5. a.code = "success" /\ ~v => d.buffersWrite # <<>>
      OBVIOUS
    <3>6. Object(d)
      BY <3>2 DEF Sound
    <3> HIDE DEF v
    <3>7. Object(e) /\ Hollowed(d, v, e)
      BY <3>6, FieldsHollowed
    <3> HIDE DEF e
    <3>8. Sound(e, <<>>, t, o, 0)
      BY <3>2, <3>4, <3>7, HollowedSound
    <3>9. ReadTried(e)
      BY <3>2, <3>3, <3>5, <3>7, Zenon DEF ReadTried, Hollowed
    <3> QED BY <3>1, <3>8, <3>9
  <2> QED BY <2>1, <2>5, <2>6, <2>7
<1> QED BY <1>1, <1>2

\* Why nothing is being written after enqueue() tried to: what its first half says still holds.
WriteTried(c) ==
    c.running /\ c.bufferWriting = Null => c.writeError \/ (c.buffersWrite = <<>> /\ ReadTried(c))

\* The second half of enqueue().
LEMMA WriteStageSound ==
    ASSUME NEW c, NEW s, NEW t, NEW o, Sound(c, s, t, o, 0), ReadTried(c), t \in Seq(Asks),
           NEW w \in Copy!WriteStage(c)
    PROVE  Sound(w.copy, s, t \o w.asked, o, 0) /\ WriteTried(w.copy)
<1>1. CASE ~Copy!CanWrite(c)
  <2>1. w = [copy |-> c, asked |-> <<>>]
    BY <1>1 DEF Copy!WriteStage
  <2>2. w.copy = c /\ t \o w.asked = t
    BY <2>1
  <2>3. c.writeError \/ c.bufferWriting # Null \/ c.buffersWrite = <<>>
    BY <1>1 DEF Copy!CanWrite, Null
  <2> QED BY <2>2, <2>3 DEF WriteTried
<1>2. CASE Copy!CanWrite(c)
  <2> DEFINE b == Head(c.buffersWrite)
             d == [c EXCEPT !.bufferWriting = b, !.buffersWrite = Tail(@)]
             q == [buffer |-> b, size |-> c.length[b]]
  <2>1. Object(c) /\ Typed(c) /\ c.buffersWrite # <<>> /\ c.bufferWriting = Null
    BY <1>2 DEF Sound, Copy!CanWrite, Null
  <2>2. Object(d) /\ Sent(c, b, Tail(c.buffersWrite), d)
    <3>1. d = [c EXCEPT !.bufferWriting = b, !.buffersWrite = Tail(c.buffersWrite)]
      OBVIOUS
    <3> HIDE DEF d
    <3> QED BY <2>1, <3>1, FieldsSent
  <2>3. CASE ~c.running
    <3>1. w = [copy |-> d, asked |-> <<>>]
      BY <1>2, <2>3 DEF Copy!WriteStage
    <3>2. w.copy = d /\ t \o w.asked = t
      BY <3>1
    <3>3. b \in Buffers /\ Tail(c.buffersWrite) \in Seq(Buffers)
      <4>1. c.buffersWrite \in Seq(Buffers)
        BY <2>1 DEF Typed
      <4> QED BY <2>1, <4>1, HeadAndTail
    <3> HIDE DEF d, b
    <3>4. Typed(d)
      BY <2>1, <2>2, <3>3 DEF Typed, Sent
    <3>5. OnTheirWay(d, s, t, o)
      <4>1. OnTheirWay(c, s, t, o) /\ d.kept = c.kept /\ d.readError = c.readError
        BY <2>2 DEF Sound, Sent
      <4>2. \A x, n, k : Holds(c, x, n, k) => Holds(d, x, n, k)
        BY <2>2, Zenon DEF Holds, Sent
      <4> QED BY <4>1, <4>2, Zenon DEF OnTheirWay
    <3>6. EndSays(d, t, o) /\ ~d.running
      <4>1. EndSays(c, t, o)
        BY <2>3 DEF Sound
      <4> QED BY <2>2, <2>3, <4>1, Zenon DEF EndSays, Sent
    <3>7. o \in Seq(0 .. CopyLength)
      BY DEF Sound
    <3>8. Sound(d, s, t, o, 0)
      BY <2>2, <3>4, <3>5, <3>6, <3>7, Zenon DEF Sound
    <3> QED BY <3>2, <3>6, <3>8 DEF WriteTried
  <2>4. CASE c.running
    <3>1. \/ w = [copy |-> d, asked |-> <<q>>]
          \/ \E does \in Copy!Deeds \ {"drop"} : w = [copy |-> Copy!OnWrite(d, 0, "error", does), asked |-> <<>>]
      BY <1>2, <2>4 DEF Copy!WriteStage
    <3>2. t = <<>>
      BY <2>1, <2>4, Zenon DEF Sound, Asked
    <3> HIDE DEF d
    <3>3. d.running /\ b \in Buffers /\ c.length[b] \in 1 .. BufferSize /\ d.bufferWriting = b /\ Sound(d, s, <<q>>, o, 0)
      <4>1. Sound(c, s, <<>>, o, 0)
        BY <3>2
      <4> QED BY <1>2, <2>2, <2>4, <4>1, SendSound
    <3> HIDE DEF b
    <3>4. q \in Asks /\ q.size \in 1 .. BufferSize
      BY <3>3 DEF Asks
    <3>5. CASE w = [copy |-> d, asked |-> <<q>>]
      <4>1. w.copy = d /\ t \o w.asked = <<q>>
        BY <3>2, <3>5
      <4>2. d.bufferWriting # Null
        BY <3>3, CopyConstants
      <4> QED BY <3>3, <4>1, <4>2 DEF WriteTried
    <3> HIDE DEF q
    <3>6. ASSUME NEW does, w = [copy |-> Copy!OnWrite(d, 0, "error", does), asked |-> <<>>]
          PROVE  Sound(w.copy, s, t \o w.asked, o, 0) /\ WriteTried(w.copy)
      <4> DEFINE e == Copy!OnWrite(d, 0, "error", does)
      <4>1. w.copy = e /\ t \o w.asked = <<>>
        BY <3>2, <3>6
      <4> HIDE DEF e
      <4>2. o \o SubSeq(d.mem[q.buffer], 1, 0) = o
        <5>1. o \in Seq(0 .. CopyLength)
          BY DEF Sound
        <5>2. SubSeq(d.mem[q.buffer], 1, 0) = <<>>
          OBVIOUS
        <5> QED BY <5>1, <5>2
      <4>3. 0 \in 0 .. q.size
        BY <3>4, CopyConstants
      <4>4. Sound(e, s, <<>>, o \o SubSeq(d.mem[q.buffer], 1, 0), 0) /\ (~e.running \/ e.writeError)
        BY <3>3, <3>4, <4>3, WriteSound DEF e
      <4>5. Sound(e, s, <<>>, o, 0)
        BY <4>2, <4>4
      <4> QED BY <4>1, <4>4, <4>5 DEF WriteTried
    <3> QED BY <3>1, <3>5, <3>6
  <2>5. c.running \/ ~c.running
    OBVIOUS
  <2> QED BY <2>3, <2>4, <2>5
<1> QED BY <1>1, <1>2

\* The end of enqueue(): a copy with nothing on its way closes.
LEMMA EndStageSound ==
    ASSUME NEW c, NEW s, NEW t, NEW o, Sound(c, s, t, o, 0), WriteTried(c)
    PROVE  Sound(Copy!EndStage(c), s, t, o, 0)
<1> DEFINE d == Copy!Close(c)
<1>1. CASE ~(c.bufferReading = Null /\ c.bufferWriting = Null)
  BY <1>1 DEF Copy!EndStage, Null
<1>2. CASE ~c.running
  <2>1. Copy!EndStage(c) = c
    BY <1>2 DEF Copy!EndStage, Copy!Close
  <2> QED BY <2>1
<1>3. CASE c.bufferReading = Null /\ c.bufferWriting = Null /\ c.running
  <2>1. Copy!EndStage(c) = d
    BY <1>3 DEF Copy!EndStage, Null
  <2>2. Object(c) /\ Typed(c)
    BY DEF Sound
  <2>3. Object(d) /\ Typed(d) /\ Closes(c, d)
    BY <1>3, <2>2, CloseGives
  <2> HIDE DEF d
  <2>4. \/ c.readError \/ c.writeError \/ d.closed \/ d.hollow
        \/ t = <<>> /\ o = c.kept /\ (c.readEnded \/ c.sizeRead = c.sizeTotal)
    <3> SUFFICES ASSUME ~c.readError, ~c.writeError, ~d.hollow
                 PROVE  t = <<>> /\ o = c.kept /\ (c.readEnded \/ c.sizeRead = c.sizeTotal)
      OBVIOUS
    <3>1. c.buffersWrite = <<>> /\ ReadTried(c)
      BY <1>3 DEF WriteTried
    <3>2. ~c.hollow
      BY <2>3 DEF Closes
    <3>3. t = <<>>
      BY <1>3, Zenon DEF Sound, Asked
    <3>4. c.buffersRead # <<>>
      <4>1. Len(c.buffersRead) + Len(c.buffersWrite) + 0 + 0 = BufferCount
        BY <1>3, Zenon DEF Sound, OnePlace, Apart
      <4>2. Len(<<>>) = 0 /\ BufferCount >= 1
        BY CopyConstants
      <4>3. c.buffersRead = <<>> => BufferCount = 0
        BY <3>1, <4>1, <4>2
      <4> QED BY <4>2, <4>3
    <3>5. c.readEnded \/ c.sizeRead = c.sizeTotal
      BY <1>3, <3>1, <3>2, <3>4, Zenon DEF ReadTried
    <3>6. o = c.kept
      <4>1. o \in Seq(0 .. CopyLength) /\ c.kept \in Seq(0 .. CopyLength)
        BY DEF Sound, Typed
      <4>2. Len(o) \in Nat /\ Len(c.kept) \in Nat /\ Len(o) <= Len(c.kept)
        BY <1>3, Numbers
      <4>3. Len(o) >= Len(c.kept)
        <5>1. PICK off \in [1 .. Len(c.buffersWrite) + 1 -> Nat] : Follows(c, o, off)
          BY <1>3 DEF Sound, Flow
        <5>2. off[1] = Len(o) + 0 /\ off[Len(c.buffersWrite) + 1] >= Len(c.kept)
          BY <1>3, <5>1, Zenon DEF Follows
        <5>3. Len(c.buffersWrite) + 1 = 1
          BY <3>1
        <5> QED BY <4>2, <5>2, <5>3
      <4>4. \A i \in 1 .. Len(o) : o[i] = c.kept[i]
        <5>1. \A i \in 1 .. Len(o) : i <= Len(c.kept) => o[i] = c.kept[i]
          BY DEF Sound, OnTheirWay
        <5> QED BY <4>2, <5>1
      <4>5. Len(o) = Len(c.kept)
        BY <4>2, <4>3
      <4> QED BY <4>1, <4>4, <4>5, SeqEqual
    <3> QED BY <3>3, <3>5, <3>6
  <2>5. Sound(d, s, t, o, 0)
    BY <1>3, <2>3, <2>4, CloseSound
  <2> QED BY <2>1, <2>5
<1> QED BY <1>1, <1>2, <1>3

\* enqueue() of an object that is sound leaves it so.
LEMMA EnqueueSound ==
    ASSUME NEW c, NEW s, s \in Seq(Asks), NEW t, t \in Seq(Asks), NEW o, o = out',
           Sound(c, s, t, o, 0), Copy!Enqueue(c, s, t)
    PROVE  CopyIInv'
<1>1. CASE ~c.running
  <2>1. copy' = c /\ atSource' = s /\ atTarget' = t
    BY <1>1 DEF Copy!Enqueue
  <2> QED BY <2>1 DEF CopyIInv
<1>2. CASE c.running
  <2>0. PICK r \in Copy!ReadStage(c) : \E w \in Copy!WriteStage(r.copy) :
            copy' = Copy!EndStage(w.copy) /\ atSource' = s \o r.asked /\ atTarget' = t \o w.asked
    BY <1>2 DEF Copy!Enqueue
  <2>1. PICK w \in Copy!WriteStage(r.copy) :
            copy' = Copy!EndStage(w.copy) /\ atSource' = s \o r.asked /\ atTarget' = t \o w.asked
    BY <2>0
  <2>2. Sound(r.copy, s \o r.asked, t, o, 0) /\ ReadTried(r.copy)
    BY <1>2, ReadStageSound
  <2>3. Sound(w.copy, s \o r.asked, t \o w.asked, o, 0) /\ WriteTried(w.copy)
    BY <2>2, WriteStageSound
  <2>4. Sound(Copy!EndStage(w.copy), s \o r.asked, t \o w.asked, o, 0)
    BY <2>3, EndStageSound
  <2> QED BY <2>1, <2>4 DEF CopyIInv
<1> QED BY <1>1, <1>2

-----------------------------------------------------------------------------
\* A new object.
LEMMA CopyInitial == Copy!Init => CopyIInv
<1> SUFFICES ASSUME Copy!Init PROVE CopyIInv
  OBVIOUS
<1>1. PICK total \in Totals :
          copy = [buffersRead |-> [i \in Buffers |-> i], bufferReading |-> Null,
                  buffersWrite |-> <<>>, bufferWriting |-> Null,
                  sizeRead |-> 0, sizeWritten |-> 0, sizeTotal |-> total,
                  readError |-> FALSE, readEnded |-> FALSE, writeError |-> FALSE,
                  started |-> FALSE, running |-> TRUE,
                  mem |-> [b \in Buffers |-> [i \in 1 .. BufferSize |-> 0]],
                  length |-> [b \in Buffers |-> 0],
                  given |-> 0, kept |-> <<>>, ended |-> <<>>, closed |-> FALSE, hollow |-> FALSE]
  BY DEF Copy!Init, Null, Buffers
<1>2. atSource = <<>> /\ atTarget = <<>> /\ out = <<>>
  BY DEF Copy!Init
<1> DEFINE r == [i \in Buffers |-> i]
<1>3. /\ copy.buffersRead = r /\ copy.bufferReading = Null /\ copy.buffersWrite = <<>> /\ copy.bufferWriting = Null
      /\ copy.sizeRead = 0 /\ copy.sizeWritten = 0 /\ copy.sizeTotal = total
      /\ ~copy.readError /\ ~copy.writeError /\ copy.running
      /\ copy.mem = [b \in Buffers |-> [i \in 1 .. BufferSize |-> 0]] /\ copy.length = [b \in Buffers |-> 0]
      /\ copy.given = 0 /\ copy.kept = <<>> /\ copy.ended = <<>>
  BY <1>1, Zenon
<1>4. Object(copy)
  BY <1>1 DEF Object
<1>5. /\ BufferCount \in Nat /\ BufferSize \in Nat /\ CopyLength \in Nat /\ Width - 1 \in Nat
      /\ Width \in Nat /\ CopyLength < Width - 1 /\ Unlimited = Width - 1
      /\ total \in (1 .. CopyLength) \cup {Unlimited} /\ Buffers = 1 .. BufferCount /\ Null \notin Buffers
  BY CopyConstants
<1>6. /\ r \in Seq(Buffers) /\ Len(r) = BufferCount /\ \A i \in 1 .. BufferCount : r[i] = i
      /\ \A i \in 1 .. BufferCount : r[i] # Null
  BY <1>5
<1> HIDE DEF r
<1>7. Typed(copy)
  <2>1. copy.mem \in [Buffers -> [1 .. BufferSize -> 0 .. CopyLength]] /\ copy.length \in [Buffers -> 0 .. BufferSize]
    BY <1>3, <1>5
  <2>2. copy.sizeTotal \in 0 .. Width - 1 /\ copy.sizeRead \in 0 .. Width - 1 /\ copy.sizeWritten \in 0 .. Width - 1
    BY <1>3, <1>5
  <2>3. copy.given \in 0 .. CopyLength
    BY <1>3, <1>5
  <2>4. copy.kept \in Seq(0 .. CopyLength) /\ copy.ended \in Seq(BOOLEAN) /\ copy.buffersWrite \in Seq(Buffers)
    BY <1>3
  <2> QED BY <1>3, <1>6, <2>1, <2>2, <2>3, <2>4, Zenon DEF Typed
<1>8. OnTheirWay(copy, atSource, atTarget, out)
  BY <1>2, <1>3 DEF OnTheirWay
<1>9. OnePlace(copy)
  <2>1. Len(r) + Len(<<>>) + (IF Null = Null THEN 0 ELSE 1) + (IF Null = Null THEN 0 ELSE 1) = BufferCount
    BY <1>5, <1>6
  <2>2. \A i, j \in 1 .. Len(r) : r[i] = r[j] => i = j
    BY <1>6
  <2>3. 1 .. Len(<<>>) = {}
    OBVIOUS
  <2> QED BY <1>3, <1>6, <2>1, <2>2, <2>3 DEF OnePlace, Apart
<1>10. Asked(copy, atSource, atTarget)
  BY <1>2, <1>3 DEF Asked
<1>11. KeptRises(copy, copy.given - 0)
  BY <1>3 DEF KeptRises
<1>12. SizesSay(copy, out, 0)
  BY <1>2, <1>3, <1>5 DEF SizesSay
<1>13. Flow(copy, out)
  <2> DEFINE off == [i \in 1 .. Len(copy.buffersWrite) + 1 |-> 0]
  <2>1. Len(copy.buffersWrite) = 0 /\ Len(out) = 0 /\ Len(copy.kept) = 0
    BY <1>2, <1>3
  <2>2. off \in [1 .. Len(copy.buffersWrite) + 1 -> Nat]
    OBVIOUS
  <2>3. Follows(copy, out, off)
    BY <1>3, <1>5, <2>1 DEF Follows
  <2> QED BY <2>2, <2>3 DEF Flow
<1>14. out \in Seq(0 .. CopyLength)
  BY <1>2
<1> QED BY <1>3, <1>4, <1>7, <1>8, <1>9, <1>10, <1>11, <1>12, <1>13, <1>14 DEF CopyIInv, Sound

\* The requests are sequences of one request or none.
LEMMA RequestsTyped ==
    ASSUME NEW c, NEW s, NEW t, NEW o, OnTheirWay(c, s, t, o)
    PROVE  /\ s \in Seq(Asks) /\ t \in Seq(Asks)
           /\ s # <<>> => Head(s) \in Asks /\ s = <<Head(s)>> /\ Tail(s) = <<>>
           /\ t # <<>> => Head(t) \in Asks /\ t = <<Head(t)>> /\ Tail(t) = <<>>
<1>1. \A q \in Asks : LET u == <<q>> IN u \in Seq(Asks) /\ Head(u) = q /\ Tail(u) = <<>>
  OBVIOUS
<1>2. <<>> \in Seq(Asks)
  OBVIOUS
<1>3. s # <<>> => \E q \in Asks : s = <<q>>
  BY Zenon DEF OnTheirWay
<1>4. t # <<>> => \E q \in Asks : t = <<q>>
  BY Zenon DEF OnTheirWay
<1> QED BY <1>1, <1>2, <1>3, <1>4, Zenon

LEMMA FieldsStarted ==
    ASSUME NEW d, Object(d), NEW e, e = [d EXCEPT !.started = TRUE]
    PROVE  Object(e) /\ Hollowed(d, d.hollow, e)
BY DEF Object, Hollowed

\* The program starts the copy.
LEMMA StartSound == ASSUME CopyIInv, Copy!Start PROVE CopyIInv'
<1> DEFINE c == copy
           e == [copy EXCEPT !.started = TRUE]
<1>1. Copy!Enqueue(e, atSource, atTarget) /\ out' = out
  BY DEF Copy!Start
<1>2. Sound(c, atSource, atTarget, out, 0)
  BY DEF CopyIInv
<1>3. Object(e) /\ Hollowed(c, c.hollow, e)
  <2>1. Object(c)
    BY <1>2 DEF Sound
  <2> QED BY <2>1, FieldsStarted
<1> HIDE DEF c, e
<1>4. Sound(e, atSource, atTarget, out, 0)
  BY <1>2, <1>3, HollowedSound
<1>5. atSource \in Seq(Asks) /\ atTarget \in Seq(Asks)
  BY <1>2, RequestsTyped DEF Sound
<1> QED BY <1>1, <1>4, <1>5, EnqueueSound

\* The program closes it.
LEMMA CloseCopySound == ASSUME CopyIInv, Copy!CloseCopy PROVE CopyIInv'
<1>1. /\ copy.running /\ copy' = Copy!CloseByProgram(copy)
      /\ atSource' = atSource /\ atTarget' = atTarget /\ out' = out
  BY DEF Copy!CloseCopy
<1>2. Sound(copy, atSource, atTarget, out, 0)
  BY DEF CopyIInv
<1>3. Sound(Copy!CloseByProgram(copy), atSource, atTarget, out, 0)
  BY <1>1, <1>2, ClosedByProgramSound
<1> QED BY <1>1, <1>3 DEF CopyIInv

\* A read is answered after the copy was closed: it is forgotten.
LEMMA ForgottenSound ==
    ASSUME NEW c, NEW s, NEW t, NEW o, NEW f, Sound(c, s, t, o, f), ~c.running
    PROVE  Sound(c, <<>>, t, o, 0)
<1>1. OnTheirWay(c, <<>>, t, o)
  BY Zenon DEF Sound, OnTheirWay
<1> QED BY <1>1, Zenon DEF Sound

\* A write is answered after the copy was closed.
LEMMA LateWriteSound ==
    ASSUME NEW c, NEW s, NEW q \in Asks, NEW o, Sound(c, s, <<q>>, o, 0), ~c.running, NEW n \in 0 .. q.size,
           NEW p, p = o \o SubSeq(c.mem[q.buffer], 1, n)
    PROVE  Sound(c, s, <<>>, p, 0)
<1>1. Typed(c) /\ o \in Seq(0 .. CopyLength) /\ OnTheirWay(c, s, <<q>>, o) /\ EndSays(c, <<q>>, o)
  BY DEF Sound
<1>2. /\ p \in Seq(0 .. CopyLength) /\ (\A i \in 1 .. Len(p) : i <= Len(c.kept) => p[i] = c.kept[i])
      /\ Len(p) > Len(c.kept) => c.readError
  BY <1>1, WrittenMore, Zenon
<1>3. OnTheirWay(c, s, <<>>, p)
  BY <1>1, <1>2, Zenon DEF OnTheirWay
<1>4. EndSays(c, <<>>, p)
  <2>1. <<q>> # <<>>
    OBVIOUS
  <2> QED BY <1>1, <2>1, Zenon DEF EndSays
<1> QED BY <1>1, <1>2, <1>3, <1>4, Zenon DEF Sound

\* onReadStream()
LEMMA OnReadStreamSound == ASSUME CopyIInv, Copy!OnReadStream PROVE CopyIInv'
<1> DEFINE q == Head(atSource)
<1>1. atSource # <<>> /\ out' = out
  BY DEF Copy!OnReadStream
<1>2. Sound(copy, atSource, atTarget, out, 0)
  BY DEF CopyIInv
<1>3. q \in Asks /\ atSource = <<q>> /\ Tail(atSource) = <<>> /\ atTarget \in Seq(Asks) /\ <<>> \in Seq(Asks)
  BY <1>1, <1>2, RequestsTyped DEF Sound
<1>4. PICK a \in Copy!Answers(copy, q.size), does \in Copy!Deeds :
          LET c == Copy!Fill(copy, q.buffer, Copy!Got(a)) IN
          Copy!Enqueue(IF c.running THEN Copy!OnRead(c, a.size, a.code, does) ELSE c, Tail(atSource), atTarget)
  BY DEF Copy!OnReadStream
<1> DEFINE c == Copy!Fill(copy, q.buffer, Copy!Got(a))
           d == Copy!OnRead(c, a.size, a.code, does)
<1>5. Copy!Enqueue(IF c.running THEN d ELSE c, <<>>, atTarget)
  BY <1>3, <1>4
<1> HIDE DEF q
<1>6. Sound(copy, <<q>>, atTarget, out, 0)
  BY <1>2, <1>3
<1>7. Sound(c, <<q>>, atTarget, out, Copy!Got(a)) /\ c.running = copy.running
  <2>1. Typed(copy) /\ q.size \in 1 .. BufferSize
    BY <1>2, <1>3 DEF Sound, Asks
  <2>2. Copy!Got(a) \in 0 .. q.size /\ copy.given + Copy!Got(a) <= CopyLength
    BY <2>1, AnswerFacts
  <2> QED BY <1>3, <1>6, <2>2, FillSound
<1>8. CASE copy.running
  <2>1. Copy!Enqueue(d, <<>>, atTarget)
    BY <1>5, <1>7, <1>8
  <2>2. Sound(d, <<>>, atTarget, out, 0)
    BY <1>3, <1>6, <1>8, ReadSound
  <2> HIDE DEF d
  <2> QED BY <1>1, <1>3, <2>1, <2>2, EnqueueSound
<1>9. CASE ~copy.running
  <2>1. Copy!Enqueue(c, <<>>, atTarget)
    BY <1>5, <1>7, <1>9
  <2> HIDE DEF c
  <2>2. Sound(c, <<>>, atTarget, out, 0)
    BY <1>7, <1>9, ForgottenSound
  <2> QED BY <1>1, <1>3, <2>1, <2>2, EnqueueSound
<1> QED BY <1>8, <1>9

\* onWriteStream()
LEMMA OnWriteStreamSound == ASSUME CopyIInv, Copy!OnWriteStream PROVE CopyIInv'
<1> DEFINE q == Head(atTarget)
<1>1. atTarget # <<>>
  BY DEF Copy!OnWriteStream
<1>2. Sound(copy, atSource, atTarget, out, 0)
  BY DEF CopyIInv
<1>3. q \in Asks /\ atTarget = <<q>> /\ Tail(atTarget) = <<>> /\ atSource \in Seq(Asks) /\ <<>> \in Seq(Asks)
  BY <1>1, <1>2, RequestsTyped DEF Sound
<1>4. PICK code \in {"success", "error"}, does \in Copy!Deeds \ {"drop"} :
      \E n \in IF code = "success" THEN {q.size} ELSE 0 .. q.size - 1 :
          /\ out' = out \o SubSeq(copy.mem[q.buffer], 1, n)
          /\ Copy!Enqueue(IF copy.running THEN Copy!OnWrite(copy, n, code, does) ELSE copy,
                          atSource, Tail(atTarget))
  BY DEF Copy!OnWriteStream
<1>5. PICK n \in IF code = "success" THEN {q.size} ELSE 0 .. q.size - 1 :
          /\ out' = out \o SubSeq(copy.mem[q.buffer], 1, n)
          /\ Copy!Enqueue(IF copy.running THEN Copy!OnWrite(copy, n, code, does) ELSE copy,
                          atSource, Tail(atTarget))
  BY <1>4
<1> HIDE DEF q
<1>6. n \in 0 .. q.size /\ (code = "success" => n = q.size)
  <2>1. q.size \in Nat
    BY <1>3, CopyConstants DEF Asks
  <2> QED BY <2>1
<1>7. Sound(copy, atSource, <<q>>, out, 0)
  BY <1>2, <1>3
<1>8. CASE copy.running
  <2> DEFINE d == Copy!OnWrite(copy, n, code, does)
  <2>1. Copy!Enqueue(d, atSource, <<>>)
    BY <1>3, <1>5, <1>8
  <2>2. Sound(d, atSource, <<>>, out', 0)
    BY <1>3, <1>5, <1>6, <1>7, <1>8, WriteSound
  <2> HIDE DEF d
  <2> QED BY <1>3, <2>1, <2>2, EnqueueSound
<1>9. CASE ~copy.running
  <2>1. Copy!Enqueue(copy, atSource, <<>>)
    BY <1>3, <1>5, <1>9
  <2>2. Sound(copy, atSource, <<>>, out', 0)
    BY <1>3, <1>5, <1>6, <1>7, <1>9, LateWriteSound
  <2> QED BY <1>3, <2>1, <2>2, EnqueueSound
<1> QED BY <1>8, <1>9

-----------------------------------------------------------------------------
LEMMA CopyStutters == ASSUME CopyIInv, UNCHANGED Copy!vars PROVE CopyIInv'
<1>1. copy' = copy /\ atSource' = atSource /\ atTarget' = atTarget /\ out' = out
  BY DEF Copy!vars
<1> QED BY <1>1 DEF CopyIInv

LEMMA CopyStep == ASSUME CopyIInv, Copy!Next PROVE CopyIInv'
BY StartSound, CloseCopySound, OnReadStreamSound, OnWriteStreamSound DEF Copy!Next

\* What the invariant shows: the types,
LEMMA CopyTyped == ASSUME CopyIInv PROVE Copy!TypeOK
<1>1. Typed(copy) /\ out \in Seq(0 .. CopyLength) /\ OnTheirWay(copy, atSource, atTarget, out)
  BY DEF CopyIInv, Sound
<1>2. atSource \in Seq(Asks) /\ atTarget \in Seq(Asks)
  BY <1>1, RequestsTyped
<1>3. copy.mem \in [Buffers -> Seq(0 .. CopyLength)]
  <2>1. copy.mem \in [Buffers -> [1 .. BufferSize -> 0 .. CopyLength]]
    BY <1>1 DEF Typed
  <2>2. \A m \in [1 .. BufferSize -> 0 .. CopyLength] : m \in Seq(0 .. CopyLength)
    BY CopyConstants
  <2> QED BY <2>1, <2>2
<1> QED BY <1>1, <1>2, <1>3 DEF Copy!TypeOK, Typed, Asks, Buffers, Null

Distinct(s) == \A i, j \in 1 .. Len(s) : s[i] = s[j] => i = j
Without(s, v) == \A i \in 1 .. Len(s) : s[i] # v

\* Two sequences of different values, after each other.
LEMMA JoinedDistinct ==
    ASSUME NEW s \in Seq(Buffers), NEW t \in Seq(Buffers), Distinct(s), Distinct(t),
           \A i \in 1 .. Len(t) : Without(s, t[i])
    PROVE  /\ s \o t \in Seq(Buffers) /\ Len(s \o t) = Len(s) + Len(t) /\ Distinct(s \o t)
           /\ \A v : Without(s, v) /\ Without(t, v) => Without(s \o t, v)
<1> DEFINE n == Len(s)
           m == Len(t)
           u == s \o t
<1>1. u \in Seq(Buffers) /\ Len(u) = n + m
      /\ \A i \in 1 .. n + m : u[i] = IF i <= n THEN s[i] ELSE t[i - n]
  BY ConcatProperties
<1>2. n \in Nat /\ m \in Nat
  OBVIOUS
<1>3. /\ \A i, j \in 1 .. n : s[i] = s[j] => i = j
      /\ \A i, j \in 1 .. m : t[i] = t[j] => i = j
      /\ \A i \in 1 .. n, j \in 1 .. m : s[i] # t[j]
  BY DEF Distinct, Without
<1> HIDE DEF n, m, u
<1>4. \A i \in 1 .. n + m : \/ i \in 1 .. n /\ u[i] = s[i]
                            \/ ~(i \in 1 .. n) /\ i - n \in 1 .. m /\ u[i] = t[i - n]
  BY <1>1, <1>2
<1>5. ASSUME NEW i \in 1 .. n + m, NEW j \in 1 .. n + m, u[i] = u[j] PROVE i = j
  <2>1. CASE i \in 1 .. n /\ j \in 1 .. n
    <3>1. s[i] = s[j]
      BY <1>4, <1>5, <2>1
    <3> QED BY <1>3, <2>1, <3>1, Zenon
  <2>2. CASE ~(i \in 1 .. n) /\ ~(j \in 1 .. n)
    <3>1. i - n \in 1 .. m /\ j - n \in 1 .. m /\ t[i - n] = t[j - n]
      BY <1>4, <1>5, <2>2
    <3>2. i - n = j - n
      BY <1>3, <3>1, Zenon
    <3> QED BY <1>2, <3>2
  <2>3. CASE i \in 1 .. n /\ ~(j \in 1 .. n)
    <3>1. j - n \in 1 .. m /\ s[i] = t[j - n]
      BY <1>4, <1>5, <2>3
    <3> QED BY <1>3, <2>3, <3>1, Zenon
  <2>4. CASE ~(i \in 1 .. n) /\ j \in 1 .. n
    <3>1. i - n \in 1 .. m /\ s[j] = t[i - n]
      BY <1>4, <1>5, <2>4
    <3> QED BY <1>3, <2>4, <3>1, Zenon
  <2> QED BY <2>1, <2>2, <2>3, <2>4
<1>6. Distinct(u)
  BY <1>1, <1>5 DEF Distinct
<1>7. ASSUME NEW v, Without(s, v), Without(t, v) PROVE Without(u, v)
  <2>1. (\A i \in 1 .. n : s[i] # v) /\ (\A i \in 1 .. m : t[i] # v)
    BY <1>7 DEF Without, n, m
  <2>2. \A i \in 1 .. n + m : u[i] # v
    BY <1>4, <2>1, Zenon
  <2> QED BY <1>1, <2>2 DEF Without
<1> QED BY <1>1, <1>6, <1>7, Zenon DEF u, n, m

\* that no buffer is lost or in two places,
LEMMA CopyBuffers == ASSUME CopyIInv PROVE Copy!BuffersKept
<1> SUFFICES ASSUME copy.running PROVE Copy!BuffersKept
  BY DEF Copy!BuffersKept
<1> DEFINE r == copy.buffersRead
           w == copy.buffersWrite
           x == copy.bufferReading
           y == copy.bufferWriting
           X == Copy!Held(x)
           Y == Copy!Held(y)
<1>1. /\ r \in Seq(Buffers) /\ w \in Seq(Buffers) /\ x \in Buffers \cup {Null} /\ y \in Buffers \cup {Null}
      /\ Apart(r, w, x, y) /\ Asked(copy, atSource, atTarget)
  BY DEF CopyIInv, Sound, Typed, OnePlace
<1>2. /\ x = Null => X = <<>>
      /\ x # Null => X = <<x>>
      /\ y = Null => Y = <<>>
      /\ y # Null => Y = <<y>>
  BY DEF Copy!Held, Null
<1>3. Copy!Places = ((r \o w) \o X) \o Y
  BY DEF Copy!Places
<1> HIDE DEF r, w, x, y, X, Y
<1>4. /\ X \in Seq(Buffers) /\ Len(X) = (IF x = Null THEN 0 ELSE 1) /\ \A i \in 1 .. Len(X) : X[i] = x /\ x # Null
      /\ Y \in Seq(Buffers) /\ Len(Y) = (IF y = Null THEN 0 ELSE 1) /\ \A i \in 1 .. Len(Y) : Y[i] = y /\ y # Null
      /\ Len(X) <= 1 /\ Len(Y) <= 1 /\ Len(X) \in Nat /\ Len(Y) \in Nat
  <2>1. \A z \in Buffers \cup {Null} : \A Z :
            (z = Null => Z = <<>>) /\ (z # Null => Z = <<z>>) =>
                /\ Z \in Seq(Buffers) /\ Len(Z) = (IF z = Null THEN 0 ELSE 1) /\ \A i \in 1 .. Len(Z) : Z[i] = z /\ z # Null
                /\ Len(Z) <= 1 /\ Len(Z) \in Nat
    <3> SUFFICES ASSUME NEW z \in Buffers \cup {Null}, NEW Z, z = Null => Z = <<>>, z # Null => Z = <<z>>
                 PROVE  /\ Z \in Seq(Buffers) /\ Len(Z) = (IF z = Null THEN 0 ELSE 1)
                        /\ \A i \in 1 .. Len(Z) : Z[i] = z /\ z # Null
                        /\ Len(Z) <= 1 /\ Len(Z) \in Nat
      BY Zenon
    <3>1. CASE z = Null
      BY <3>1
    <3>2. CASE z # Null
      <4>1. z \in Buffers /\ Z = <<z>>
        BY <3>2
      <4>2. <<z>> \in Seq(Buffers) /\ Len(<<z>>) = 1 /\ <<z>>[1] = z
        BY <4>1
      <4>3. \A i \in 1 .. 1 : i = 1
        OBVIOUS
      <4>4. \A i \in 1 .. Len(Z) : Z[i] = z
        BY <4>1, <4>2, <4>3
      <4> QED BY <3>2, <4>1, <4>2, <4>4
    <3> QED BY <3>1, <3>2
  <2> QED BY <1>1, <1>2, <2>1, Zenon
<1>5. /\ Distinct(r) /\ Distinct(w) /\ Without(r, x) /\ Without(r, y) /\ Without(w, x) /\ Without(w, y)
      /\ \A i \in 1 .. Len(w) : Without(r, w[i])
      /\ x # Null => x # y
  BY <1>1, Zenon DEF Apart, Distinct, Without
<1>6. Len(r) + Len(w) + Len(X) + Len(Y) = BufferCount
  BY <1>1, <1>4, Zenon DEF Apart
<1> DEFINE u == r \o w
           v == u \o X
           p == v \o Y
<1> HIDE DEF u, v, p
<1>7. /\ u \in Seq(Buffers) /\ Len(u) = Len(r) + Len(w) /\ Distinct(u)
      /\ Without(u, x) /\ Without(u, y)
  BY <1>1, <1>5, JoinedDistinct DEF u
<1>8. v \in Seq(Buffers) /\ Len(v) = Len(u) + Len(X) /\ Distinct(v) /\ Without(v, y)
  <2>1. Distinct(X) /\ (\A i \in 1 .. Len(X) : Without(u, X[i])) /\ Without(X, y)
    <3>1. \A i, j \in 1 .. Len(X) : i = j
      BY <1>4
    <3>2. \A i \in 1 .. Len(X) : X[i] # y
      BY <1>4, <1>5
    <3> QED BY <1>4, <1>7, <3>1, <3>2, Zenon DEF Distinct, Without
  <2> QED BY <1>4, <1>7, <2>1, JoinedDistinct DEF v
<1>9. p \in Seq(Buffers) /\ Len(p) = Len(v) + Len(Y) /\ Distinct(p)
  <2>1. Distinct(Y) /\ (\A i \in 1 .. Len(Y) : Without(v, Y[i]))
    <3>1. \A i, j \in 1 .. Len(Y) : i = j
      BY <1>4
    <3> QED BY <1>4, <1>8, <3>1, Zenon DEF Distinct, Without
  <2> QED BY <1>4, <1>8, <2>1, JoinedDistinct DEF p
<1>10. Copy!Places = p
  BY <1>3, Zenon DEF p, v, u
<1>11. Len(Copy!Places) = BufferCount
  <2>1. Len(p) = Len(r) + Len(w) + Len(X) + Len(Y)
    BY <1>7, <1>8, <1>9
  <2> QED BY <1>6, <1>10, <2>1
<1>12. Copy!IsInjective(Copy!Places)
  <2>1. DOMAIN p = 1 .. Len(p)
    BY <1>9
  <2>2. \A i, j \in DOMAIN p : p[i] = p[j] => i = j
    BY <1>9, <2>1, Zenon DEF Distinct
  <2> QED BY <1>10, <2>2, Zenon DEF Copy!IsInjective
<1>13. [i \in DOMAIN atSource |-> atSource[i].buffer] = X
  <2>1. CASE x = Null
    <3>1. atSource = <<>>
      BY <1>1, <2>1, Zenon DEF Asked, x
    <3> QED BY <1>2, <2>1, <3>1
  <2>2. CASE x # Null
    <3>1. \E n \in 1 .. BufferSize : atSource = <<[buffer |-> x, size |-> n]>>
      BY <1>1, <2>2, Zenon DEF Asked, x
    <3> QED BY <1>2, <2>2, <3>1
  <2> QED BY <2>1, <2>2
<1>14. [i \in DOMAIN atTarget |-> atTarget[i].buffer] = Y
  <2>1. CASE y = Null
    <3>1. atTarget = <<>>
      BY <1>1, <2>1, Zenon DEF Asked, y
    <3> QED BY <1>2, <2>1, <3>1
  <2>2. CASE y # Null
    <3>1. atTarget = <<[buffer |-> y, size |-> copy.length[y]]>>
      BY <1>1, <2>2, Zenon DEF Asked, y
    <3> QED BY <1>2, <2>2, <3>1
  <2> QED BY <2>1, <2>2
<1>15. X = Copy!Held(copy.bufferReading) /\ Y = Copy!Held(copy.bufferWriting)
  BY Zenon DEF X, Y, x, y
<1>16. /\ [i \in DOMAIN atSource |-> atSource[i].buffer] = Copy!Held(copy.bufferReading)
       /\ [i \in DOMAIN atTarget |-> atTarget[i].buffer] = Copy!Held(copy.bufferWriting)
  BY <1>13, <1>14, <1>15
<1> QED BY <1>11, <1>12, <1>16, Zenon DEF Copy!BuffersKept

\* that the target was written what was read,
LEMMA CopyWritten == ASSUME CopyIInv PROVE Copy!WrittenWasRead
<1>1. /\ out \in Seq(0 .. CopyLength) /\ copy.kept \in Seq(0 .. CopyLength)
      /\ OnTheirWay(copy, atSource, atTarget, out)
  BY DEF CopyIInv, Sound, Typed
<1>2. /\ \A i \in 1 .. Len(out) : i <= Len(copy.kept) => out[i] = copy.kept[i]
      /\ Len(out) > Len(copy.kept) => copy.readError
  BY <1>1, Zenon DEF OnTheirWay
<1>3. DOMAIN out = 1 .. Len(out) /\ DOMAIN copy.kept = 1 .. Len(copy.kept)
  BY <1>1
<1>4. \A i \in DOMAIN out \cap DOMAIN copy.kept : out[i] = copy.kept[i]
  BY <1>1, <1>2, <1>3
<1> QED BY <1>2, <1>4, Zenon DEF Copy!WrittenWasRead

\* and what the end of the copy means.
LEMMA CopyEnded == ASSUME CopyIInv PROVE Copy!CompletedIsAll /\ Copy!EndMeansDone
<1>1. CASE copy.running
  <2>1. copy.ended = <<>>
    BY <1>1 DEF CopyIInv, Sound
  <2>2. Len(copy.ended) <= 1 /\ copy.ended # <<FALSE>>
    BY <2>1
  <2> QED BY <2>2 DEF Copy!CompletedIsAll, Copy!EndMeansDone
<1>2. CASE ~copy.running
  <2>1. EndSays(copy, atTarget, out)
    BY <1>2 DEF CopyIInv, Sound
  <2>2. Len(copy.ended) <= 1
    BY <2>1 DEF EndSays
  <2> QED BY <2>1, <2>2, Zenon DEF EndSays, Copy!CompletedIsAll, Copy!EndMeansDone
<1> QED BY <1>1, <1>2

LEMMA CopyShown == CopyIInv => Copy!Inv /\ Copy!EndMeansDone
BY CopyTyped, CopyBuffers, CopyWritten, CopyEnded DEF Copy!Inv

-----------------------------------------------------------------------------
\* The variables of the copy change in its own steps only.
LEMMA CopyActs ==
    /\ StreamsInit => Copy!Init
    /\ [StreamsNext]_streams => [Copy!Next]_(Copy!vars)
<1>1. StreamsInit => Copy!Init
  BY DEF StreamsInit
<1>2. UNCHANGED copyVars => UNCHANGED Copy!vars
  BY DEF copyVars, Copy!vars
<1>3. StreamsNext => Copy!Next \/ UNCHANGED copyVars
  BY DEF StreamsNext
<1>4. UNCHANGED streams => UNCHANGED copyVars
  BY DEF streams
<1> QED BY <1>1, <1>2, <1>3, <1>4

LEMMA CopyNext == CopyIInv /\ [Copy!Next]_(Copy!vars) => CopyIInv'
BY CopyStep, CopyStutters

\* The inductive invariant of the copy, for any number and size of buffers, any width of a
\* size, and a source of any length (AsyncCopy).
THEOREM CopyInvariance == StreamsSpec => []CopyIInv
BY CopyActs, CopyInitial, CopyNext, PTL DEF StreamsSpec

\* While a copy runs no buffer is lost or in two places; what the target was written is what
\* the source gave and the program let pass, in order; and a copy that told no error and wrote
\* as much as it was to copy wrote all of it.
THEOREM CopyInOrder == StreamsSpec => []CopyInv
<1>1. CopyIInv => CopyInv
  BY CopyShown DEF CopyInv
<1> QED BY <1>1, CopyInvariance, PTL

\* A copy that ends by itself without an error, and that no read answered inside enqueue()
\* ended early, wrote all that was kept and read all there was to read.
THEOREM CopyDone == StreamsSpec => []EndMeansDone
<1>1. CopyIInv => EndMeansDone
  BY CopyShown DEF EndMeansDone
<1> QED BY <1>1, CopyInvariance, PTL
=============================================================================
