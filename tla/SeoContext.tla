------------------------------ MODULE SeoContext -----------------------------
(***************************************************************************)
(* prepareSeoContext: the excerpts of a long text that a prompt can hold.  *)
(* A text is the lengths of its sections, and an excerpt is the range of   *)
(* characters it is cut from; the words are left out.                      *)
(***************************************************************************)
EXTENDS Integers, Sequences, SequencesExt

CONSTANTS
    Documents,      \* the texts looked at: sequences of sections
    Limits          \* values of maxChars

MaxSections == 16
MarkerLength == 32      \* the line that tells of an omission
OutlineTitle == 21      \* the title of the outline
OutlineEnd == 2         \* the blank line below it
(* The least limit that leaves every section two characters. Every caller  *)
(* takes the default, 12000.                                               *)
LeastLimit == 1308

(* The text is trimmed and the parts that are blank are left out: what is  *)
(* left of a text begins with a section that is not empty, and so do all.  *)
Section == {section \in [head : Nat, body : Nat] : section.head + section.body > 0}
ConstantsAssumption ==
    /\ \A text \in Documents : text \in Seq(Section)
    /\ Limits \subseteq Nat /\ \A limit \in Limits : limit >= LeastLimit

(* The sum of the first n elements of a sequence.                          *)
SumOf(f, n) ==
    LET sum[k \in 0..Len(f)] == IF k = 0 THEN 0 ELSE sum[k - 1] + f[k] IN sum[n]
Least(a, b) == IF a < b THEN a ELSE b
Greater(a, b) == IF a < b THEN b ELSE a

VARIABLES doc, maxChars, result
vars == <<doc, maxChars, result>>

(* A section begins with its heading. The first may have none, and one     *)
(* whose line is only the signs has none in the outline: its head is 0.    *)
SectionLength(s) == doc[s].head + doc[s].body
Lengths    == [s \in 1..Len(doc) |-> SectionLength(s)]
From(s)    == SumOf(Lengths, s - 1)
TextLength == SumOf(Lengths, Len(doc))

(* slice(from, to) of a string that begins at start, and slice(-size): a   *)
(* negative index counts from the end, and minus zero is zero.             *)
Index(length, i) == IF i < 0 THEN Greater(0, length + i) ELSE Least(length, i)
Slice(start, length, from, to) ==
    [from |-> start + Index(length, from),
     to   |-> start + Greater(Index(length, from), Index(length, to))]
LastOf(start, length, size) == Slice(start, length, -size, length)
Chars(piece) == piece.to - piece.from

Headings == {s \in 1..Len(doc) : doc[s].head > 0}
(* Headings joined by line ends, cut to a fifth.                           *)
Joined ==
    SumOf([s \in 1..Len(doc) |-> IF s \in Headings THEN doc[s].head + 1 ELSE 0], Len(doc)) - 1
OutlineUncut ==     \* mutant: the outline is not cut
    IF Headings = {} THEN 0 ELSE OutlineTitle + OutlineEnd + Joined
Outline ==
    IF Headings = {} THEN 0
    ELSE OutlineTitle + OutlineEnd + Least(Joined, maxChars \div 5)

(* Math.round(i * (n - 1) / 15), for i from 0.                             *)
Sampled(i) ==
    1 + (2 * (i - 1) * (Len(doc) - 1) + (MaxSections - 1)) \div (2 * (MaxSections - 1))
Selected == IF Len(doc) > MaxSections THEN [i \in 1..MaxSections |-> Sampled(i)]
            ELSE [i \in 1..Len(doc) |-> i]

Excerpt(s, budget) ==
    IF SectionLength(s) <= budget THEN <<Slice(From(s), SectionLength(s), 0, SectionLength(s))>>
    ELSE <<Slice(From(s), SectionLength(s), 0, (budget + 1) \div 2),
           LastOf(From(s), SectionLength(s), budget \div 2)>>

(* Between any two pieces there is a marker.                               *)
Cut(pieces) == [pieces |-> pieces, truncated |-> TRUE]
Sections ==
    LET n == Len(Selected)
        budget == (maxChars - Outline - MarkerLength * (2 * n - 1)) \div n
    IN  Cut(FlattenSeq([i \in 1..n |-> Excerpt(Selected[i], budget)]))

Middle(size) == (TextLength - size) \div 2
Unstructured ==
    LET size == (maxChars - Outline - MarkerLength * 2) \div 3 IN
    Cut(<<Slice(0, TextLength, 0, size), Slice(0, TextLength, Middle(size), Middle(size) + size),
          LastOf(0, TextLength, size)>>)

Whole == [pieces |-> <<Slice(0, TextLength, 0, TextLength)>>, truncated |-> FALSE]
PrepareSeoContext ==
    IF TextLength <= maxChars THEN Whole
    ELSE IF Len(Selected) > 1 THEN Sections ELSE Unstructured

-----------------------------------------------------------------------------
Pending == [pieces |-> <<>>, truncated |-> FALSE]
Init == doc \in Documents /\ maxChars \in Limits /\ result = Pending
Prepare ==
    /\ result = Pending /\ result' = PrepareSeoContext
    /\ UNCHANGED <<doc, maxChars>>
Next == Prepare
Spec == Init /\ [][Next]_vars

Done == result # Pending
Pieces == result.pieces
CharsOf(pieces) == [i \in 1..Len(pieces) |-> Chars(pieces[i])]
Shown == SumOf(CharsOf(Pieces), Len(Pieces))
ContextLength ==
    (IF result.truncated THEN Outline ELSE 0)
    + Shown
    + MarkerLength * (Len(Pieces) - 1)

-----------------------------------------------------------------------------
(* Properties.                                                             *)

(* The context with its outline and its markers fits the limit, whatever   *)
(* the number of sections and the length of each and of its heading.       *)
ContextFits == Done => ContextLength <= maxChars

(* Pieces come in the order of the text and no character comes twice: the  *)
(* sample has no section twice and no two cuts of a section overlap.       *)
PiecesInOrder ==
    \A i, j \in 1..Len(Pieces) : i < j => Pieces[i].to <= Pieces[j].from

(* The first characters and the last ones are always shown, and something  *)
(* is missing exactly when the result says that it was truncated. Nothing  *)
(* is said of a blank text, of which trim leaves no character.             *)
EndsShown ==
    Done /\ doc # <<>> =>
        /\ Pieces[1].from = 0 /\ Chars(Pieces[1]) > 0
        /\ Pieces[Len(Pieces)].to = TextLength /\ Chars(Pieces[Len(Pieces)]) > 0
        /\ result.truncated <=> Shown < TextLength

(* The context fits the limit, is in order, and shows both ends.           *)
ExcerptsCorrect == ContextFits /\ PiecesInOrder /\ EndsShown
=============================================================================
