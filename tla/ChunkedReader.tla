--------------------------- MODULE ChunkedReader ---------------------------
(***************************************************************************)
(* ContentReader_Chunked takes the chunks of an HTTP body apart, in the    *)
(* pieces the connection gives, and in place: what is decoded of a piece is*)
(* written over its beginning (filterRead).                                *)
(*                                                                         *)
(* A digit is its value, and all other bytes are CR, LF or Other; the data *)
(* of a chunk may be any.  Base and Digits are 16 hexadecimal digits of    *)
(* m_sizeCurrentChunk's 64 bits made small.                                *)
(***************************************************************************)
EXTENDS Integers, Sequences, SequencesExt

CONSTANTS
    CR, LF, Other,
    Base, Digits,
    Chunks,         \* the chunks a body may have: [zeros, data, ext]
    Trailers,       \* the fields its trailer may have
    MaxChunks,      \* bound: of a body
    Rests           \* what may follow it on the connection

Byte == {CR, LF, Other} \cup 0 .. Base - 1

\* The assumption on the constants.
ConstantsAssumption ==
    /\ Base \in Nat \ {0, 1} /\ Digits \in Nat \ {0} /\ MaxChunks \in Nat
    /\ {CR, LF, Other} \cap Nat = {}
    /\ \A c \in Chunks : c.data \in Seq(Byte) /\ Len(c.data) \in 1 .. Base - 1 /\ c.zeros \in Nat

VARIABLES
    body,       \* what was sent: the data, its bytes with what follows, and the byte that is wrong
    pos,        \* the bytes read
    piece,      \* where the piece being read began
    state,      \* m_state: the name of what comes next
    size,       \* m_sizeCurrentChunk
    read,       \* m_sizeCurrentChunkRead
    field,      \* m_sizeTrailerField
    output,     \* of the piece, decoded
    given,      \* of the pieces before
    outcome     \* "open", "completed" (setCompleted) or "error" (setError)

vars == <<body, pos, piece, state, size, read, field, output, given, outcome>>

-----------------------------------------------------------------------------
(* What is sent                                                            *)

Zeros(n) == [i \in 1 .. n |-> 0]
Line(bytes) == bytes \o <<CR, LF>>

\* The grammar in the comment of the class.
Encoded(c) == Line(Zeros(c.zeros) \o <<Len(c.data)>> \o c.ext) \o Line(c.data)
LastChunk == Line(<<0>>)

AsSent(chunks, trailer) ==
    FlattenSeq([i \in DOMAIN chunks |-> Encoded(chunks[i])]) \o LastChunk
    \o FlattenSeq([i \in DOMAIN trailer |-> Line(trailer[i])]) \o Line(<<>>)

Data(chunks) == FlattenSeq([i \in DOMAIN chunks |-> chunks[i].data])

\* A reader that was made for a body.
Begin ==
    /\ pos = 0 /\ piece = 0 /\ state = "size" /\ size = 0 /\ read = 0 /\ field = 0
    /\ output = <<>> /\ given = <<>> /\ outcome = "open"

\* One byte of the body may be wrong: wrong is its place, or 0.
Init ==
    /\ \E chunks \in BoundedSeq(Chunks, MaxChunks), trailer \in BoundedSeq(Trailers, 1), rest \in Rests :
          LET sent == AsSent(chunks, trailer) IN
          \E wrong \in 0 .. Len(sent) :
             body = [data |-> Data(chunks), length |-> Len(sent), wrong |-> wrong,
                     bytes |-> [i \in DOMAIN sent |-> IF i = wrong THEN Other ELSE sent[i]] \o rest]
    /\ Begin

-----------------------------------------------------------------------------
(* filterRead(), a byte at a time                                          *)

Ch == body.bytes[pos + 1]
Reading == outcome = "open" /\ pos < Len(body.bytes)

\* The next state, with the byte taken.
Take(from, to) == state = from /\ state' = to /\ pos' = pos + 1

\* An end of the size is not taken yet.
SizeEnds ==
    /\ state = "size" /\ Ch \notin 0 .. Base - 1 /\ state' = "ext"
    /\ UNCHANGED <<body, pos, piece, size, read, field, output, given, outcome>>

SizeDigit ==
    /\ Take("size", "size") /\ Ch \in 0 .. Base - 1
    /\ size' = (size * Base + Ch) % Base^Digits
    /\ UNCHANGED <<body, piece, read, field, output, given, outcome>>

Ext ==
    /\ Take("ext", IF Ch = CR THEN "sizeLF" ELSE "ext")
    /\ UNCHANGED <<body, piece, size, read, field, output, given, outcome>>

SizeLF ==
    /\ Ch = LF /\ Take("sizeLF", IF size > 0 THEN "data" ELSE "trailer")
    /\ field' = IF size > 0 THEN field ELSE 0
    /\ UNCHANGED <<body, piece, size, read, output, given, outcome>>

\* Faulty variant: a piece begins to count anew.
ChunkData_PerPiece ==
    /\ read < size /\ Take("data", "data")
    /\ read' = (IF pos = piece THEN 0 ELSE read) + 1 /\ output' = Append(output, Ch)
    /\ UNCHANGED <<body, piece, size, field, given, outcome>>

ChunkData ==
    /\ read < size /\ Take("data", "data")
    /\ read' = read + 1 /\ output' = Append(output, Ch)
    /\ UNCHANGED <<body, piece, size, field, given, outcome>>

ChunkCR ==
    /\ read = size /\ Ch = CR /\ Take("data", "dataLF")
    /\ UNCHANGED <<body, piece, size, read, field, output, given, outcome>>

ChunkLF ==
    /\ Ch = LF /\ Take("dataLF", "size")
    /\ size' = 0 /\ read' = 0
    /\ UNCHANGED <<body, piece, field, output, given, outcome>>

Trailer ==
    /\ Take("trailer", IF Ch = CR THEN "trailerLF" ELSE "trailer")
    /\ field' = IF Ch = CR THEN field ELSE field + 1
    /\ UNCHANGED <<body, piece, size, read, output, given, outcome>>

TrailerLF ==
    /\ Ch = LF
    /\ IF field > 0
       THEN Take("trailerLF", "trailer") /\ field' = 0 /\ UNCHANGED <<output, given, outcome>>
       ELSE /\ Take("trailerLF", "end") /\ given' = given \o output /\ output' = <<>>
            /\ outcome' = "completed" /\ UNCHANGED field
    /\ UNCHANGED <<body, piece, size, read>>

\* A line that is not ended as it must be; what the piece held is dropped.
Malformed ==
    \/ state \in {"sizeLF", "dataLF", "trailerLF"} /\ Ch # LF
    \/ state = "data" /\ read = size /\ Ch # CR

Error ==
    /\ Malformed /\ state' = "end" /\ outcome' = "error" /\ output' = <<>>
    /\ UNCHANGED <<body, pos, piece, size, read, field, given>>

\* The piece ends, and what was decoded of it is given to the reader.
EndPiece ==
    /\ outcome = "open" /\ pos > piece /\ piece' = pos
    /\ given' = given \o output /\ output' = <<>>
    /\ UNCHANGED <<body, pos, state, size, read, field, outcome>>

ReadByte ==
    \/ SizeEnds \/ SizeDigit \/ Ext \/ SizeLF \/ ChunkData \/ ChunkCR \/ ChunkLF
    \/ Trailer \/ TrailerLF \/ Error

Next == (Reading /\ ReadByte) \/ EndPiece

Spec == Init /\ [][Next]_vars

-----------------------------------------------------------------------------
TypeOK ==
    /\ 0 <= piece /\ piece <= pos /\ pos <= Len(body.bytes)
    /\ state \in {"size", "ext", "sizeLF", "data", "dataLF", "trailer", "trailerLF", "end"}
    /\ size \in 0 .. Base^Digits - 1 /\ read \in 0 .. size /\ field \in Nat
    /\ output \in Seq(Byte) /\ given \in Seq(Byte) /\ outcome \in {"open", "completed", "error"}

\* However the body is cut, what is decoded up to the byte that is wrong is its data, in
\* order, whatever bytes the data has, and with the last line all of it.
DecodedIsData ==
    body.wrong = 0 \/ pos < body.wrong =>
        /\ IsPrefix(given \o output, body.data)
        /\ outcome = "completed" => given = body.data

\* A body that is as it must be completes at its end, neither before nor after: what follows
\* it on the connection is left to the next request.
CompletesAtEnd ==
    body.wrong = 0 => outcome # "error" /\ (outcome = "completed" <=> pos = body.length)

\* An error is only found at the wrong byte or after it.
ErrorAfterWrong == outcome = "error" => body.wrong # 0 /\ pos + 1 >= body.wrong

\* The four together: the reader gives the data of the chunks, completes where the body ends,
\* and refuses none that is as it must be.
Inv == TypeOK /\ DecodedIsData /\ CompletesAtEnd /\ ErrorAfterWrong
=============================================================================
