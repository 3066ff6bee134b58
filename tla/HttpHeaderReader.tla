------------------------- MODULE HttpHeaderReader -------------------------
(***************************************************************************)
(* HttpHeaderReader finds the empty line that ends a request's header in   *)
(* data that comes in pieces of any size: m_last keeps the last three bytes*)
(* of the pieces before.  Bytes are CR, LF or any other.                   *)
(***************************************************************************)
EXTENDS Integers, Sequences, SequencesExt, FiniteSetsExt

CONSTANTS
    CR, LF, Zero, Other,
    Length      \* bound: of the input

\* The assumption on the constants.
ConstantsAssumption == Cardinality({CR, LF, Zero, Other}) = 4 /\ Length \in Nat

Bytes == {CR, LF, Other}

VARIABLES
    input,  \* all that the connection receives
    added,  \* the bytes of it that were added
    last,   \* m_last
    piece,  \* where the last piece began
    end     \* where the body begins by posBody, or 0

vars == <<input, added, last, piece, end>>

\* A shorter input is read like the prefix of a longer one.
Init ==
    /\ input \in [1 .. Length -> Bytes]
    /\ added = 0 /\ last = <<Zero, Zero, Zero>> /\ piece = 0 /\ end = 0

EmptyLine == <<CR, LF, CR, LF>>

-----------------------------------------------------------------------------
\* Where an empty line ends that is in the piece as a whole.
InPiece(buf) == {i + 3 : i \in {j \in 1 .. Len(buf) - 3 : SubSeq(buf, j, j + 3) = EmptyLine}}

\* Where one ends that began in the pieces before.
Across(buf) ==
    {n \in 1 .. 3 : n <= Len(buf) /\ SubSeq(last, n, 3) \o SubSeq(buf, 1, n) = EmptyLine}

\* posBody, or 0.  Each test that succeeds replaces what those before it found.
PosBody(buf) == IF InPiece(buf) # {} THEN Min(InPiece(buf)) ELSE IF Across(buf) # {} THEN Max(Across(buf)) ELSE 0

\* Faulty variant: a short piece replaces what is kept.
Kept_Short(buf) == SubSeq(<<Zero, Zero, Zero>> \o buf, Len(buf) + 1, Len(buf) + 3)

\* What m_last is after a piece without an end.
Kept(buf) == SubSeq(last \o buf, Len(buf) + 1, Len(buf) + 3)

Add(buf) ==
    /\ added' = added + Len(buf) /\ piece' = added
    /\ end' = IF PosBody(buf) = 0 THEN 0 ELSE added + PosBody(buf)
    /\ last' = IF PosBody(buf) = 0 THEN Kept(buf) ELSE <<Zero, Zero, Zero>>
    /\ UNCHANGED input

Next == end = 0 /\ \E n \in 1 .. Length - added : Add(SubSeq(input, added + 1, added + n))

Spec == Init /\ [][Next]_vars

-----------------------------------------------------------------------------
TypeOK ==
    /\ input \in [1 .. Length -> Bytes] /\ {added, piece, end} \subseteq 0 .. Length
    /\ last \in [1 .. 3 -> Bytes \cup {Zero}]

Ends == {i \in 4 .. added : SubSeq(input, i - 3, i) = EmptyLine}

\* No header is missed, however it is cut: add() goes on only while there is no empty line.
NeverMissed == end = 0 => Ends = {}

\* What is found is an empty line, and the first one.  Only when the first was cut and the
\* same piece holds another is a later one taken: then a piece of the body is read as header.
FirstFound ==
    end # 0 =>
        /\ end \in Ends /\ end > piece
        /\ end = Min(Ends) \/ Min(Ends) \in piece + 1 .. piece + 3

\* The three together: the first empty line is found, however the header was cut.
Inv == TypeOK /\ NeverMissed /\ FirstFound
=============================================================================
