---------------------------- MODULE ContentProofs -----------------------------
(* Theorems about PagesContent, for every set of pages and texts, about    *)
(* UniqueNames, for every table, every set of names and every number of    *)
(* requests, about SeoContext, for every text and every limit that leaves  *)
(* a section its two characters, and about ContentSearch, for every table  *)
(* of editor states of any form, every query and every size of a page.     *)
EXTENDS ContentTables, Sequences, WellFoundedInduction, TLAPS

USE ConstantsAssumption

-----------------------------------------------------------------------------
(* Facts about the data.                                                   *)

Stored == Content \cup {Nothing}
Held   == UNION {[S -> Stored] : S \in SUBSET Pages}

LEMMA ContentFacts ==
    ASSUME NEW c \in Content
    PROVE  /\ c # Nothing /\ TextOf(c) = c.text /\ c.form \in Forms /\ c.text \in Texts
           /\ IsBuilderDocument(c) \/ c.form = "raw"
  BY DEF Content, Nothing, TextOf, IsBuilderDocument, Forms

(* What is wrapped was no document, and keeps its text.                    *)
LEMMA WrapFacts ==
    ASSUME NEW c \in Stored, ~Skipped(c)
    PROVE  Wrap(c) \in Content /\ TextOf(Wrap(c)) = TextOf(c) /\ IsBuilderDocument(Wrap(c))
<1>1. c \in Content /\ ~IsBuilderDocument(c)
  BY DEF Skipped, Stored
<1>2. Wrap(c) = [form |-> "single", large |-> c.large, text |-> c.text]
  BY <1>1 DEF Wrap
<1>3. c.large \in BOOLEAN /\ c.text \in Texts
  BY <1>1 DEF Content
<1> HIDE DEF Skipped
<1>4. Wrap(c) \in Content /\ Wrap(c).text = c.text /\ Wrap(c).form = "single"
  BY <1>2, <1>3 DEF Content, Forms
<1>5. QED
  BY <1>1, <1>4, ContentFacts DEF IsBuilderDocument

LEMMA UnwrapFacts ==
    ASSUME NEW c \in Stored
    PROVE  Unwrap(c) \in Stored /\ TextOf(Unwrap(c)) = TextOf(c)
<1>1. CASE IsBuilderDocument(c) /\ c.form = "single"
  <2>1. c \in Content
    BY <1>1 DEF IsBuilderDocument, Stored
  <2>2. [c EXCEPT !.form = "raw"] \in Content /\ [c EXCEPT !.form = "raw"].text = c.text
    BY <2>1 DEF Content, Forms
  <2>3. QED
    BY <1>1, <2>1, <2>2, ContentFacts DEF Unwrap, Stored
<1>2. CASE ~(IsBuilderDocument(c) /\ c.form = "single")
  BY <1>2 DEF Unwrap
<1>3. QED
  BY <1>1, <1>2

LEMMA HeldFacts ==
    ASSUME NEW rows \in Held
    PROVE  /\ DOMAIN rows \subseteq Pages /\ \A p \in DOMAIN rows : rows[p] \in Stored
           /\ \A p : Without(rows, p) \in Held
<1>1. PICK S \in SUBSET Pages : rows \in [S -> Stored]
  BY DEF Held
<1>2. ASSUME NEW p PROVE Without(rows, p) \in Held
  <2>1. Without(rows, p) \in [S \ {p} -> Stored]
    BY <1>1 DEF Without
  <2>2. QED
    BY <2>1 DEF Held
<1>3. QED
  BY <1>1, <1>2

LEMMA RunFacts ==
    ASSUME TypeOK
    PROVE  /\ run.at \in {"idle", "altered", "revert", "up", "down"}
           /\ run.at \in {"up", "down"} =>
                /\ run.rows \in Held
                /\ \A p : [run EXCEPT !.rows = Without(@, p)]
                            = [at |-> run.at, rows |-> Without(run.rows, p)]
<1>1. CASE run \in Holding
  <2>1. PICK a \in {"up", "down"}, rows \in Held : run = [at |-> a, rows |-> rows]
    BY <1>1 DEF Holding, Held, Stored
  <2>2. QED
    BY <2>1
<1>2. CASE run \in Reading \cup {Idle}
  BY <1>2 DEF Reading, Idle
<1>3. QED
  BY <1>1, <1>2 DEF TypeOK

-----------------------------------------------------------------------------
(* Type correctness.                                                       *)

LEMMA InitType == Init => TypeOK
<1> SUFFICES ASSUME Init PROVE TypeOK
  OBVIOUS
<1>1. [form: {"raw"}, text: Texts, large: {FALSE}] \subseteq Content
  BY DEF Content, Forms
<1>2. content \in [Pages -> Content \cup {Nothing}]
  <2>1. content \in [Pages -> [form: {"raw"}, text: Texts, large: {FALSE}] \cup {Nothing}]
    BY DEF Init
  <2>2. QED
    BY <1>1, <2>1
<1>3. \A p \in Pages : TextOf(content[p]) \in Texts \cup {"empty"}
  BY <1>2, ContentFacts DEF TextOf
<1>4. latest \in [Pages -> Texts \cup {"empty"}]
  <2>1. latest = [p \in Pages |-> TextOf(content[p])]
    BY DEF Init
  <2>2. QED
    BY <1>3, <2>1
<1>5. 0 \in 0..MaxEdits /\ 0 \in 0..MaxRuns
  OBVIOUS
<1>6. QED
  BY <1>2, <1>4, <1>5 DEF Init, TypeOK

(* A run that holds rows goes on holding what is left of them.             *)
LEMMA HoldingFacts ==
    ASSUME NEW a \in {"up", "down"}, NEW rows \in Held
    PROVE  [at |-> a, rows |-> rows] \in Holding
  BY DEF Holding, Held, Stored

LEMMA StepType == TypeOK /\ [Next]_vars => TypeOK'
<1> SUFFICES ASSUME TypeOK, [Next]_vars PROVE TypeOK'
  OBVIOUS
<1>0. content \in [Pages -> Stored] /\ content \in Held
  BY DEF TypeOK, Stored, Held
<1>1. ASSUME NEW p \in Pages, NEW c \in Content, Edit(p, c) PROVE TypeOK'
  <2>1. edits' \in 0..MaxEdits
    BY <1>1 DEF TypeOK, Edit
  <2>2. content' \in [Pages -> Content \cup {Nothing}]
    BY <1>1 DEF TypeOK, Edit
  <2>3. latest' \in [Pages -> Texts \cup {"empty"}]
    BY <1>1, ContentFacts DEF TypeOK, Edit
  <2>4. clobbered' \subseteq Pages /\ unwrapped' \subseteq Pages
    BY <1>1 DEF TypeOK, Edit
  <2>5. QED
    BY <1>1, <2>1, <2>2, <2>3, <2>4 DEF TypeOK, Edit
<1>2. CASE Alter
  <2>1. runs' \in 0..MaxRuns
    BY <1>2 DEF TypeOK, Alter
  <2>2. run' \in Reading
    BY <1>2 DEF Alter, Reading
  <2>3. QED
    BY <1>2, <2>1, <2>2 DEF TypeOK, Alter
<1>3. CASE Select
  <2>1. run' \in Holding
    BY <1>3, <1>0, HoldingFacts DEF Select
  <2>2. QED
    BY <1>3, <2>1 DEF TypeOK, Select
<1>4. ASSUME NEW p \in Pages, UpRow(p) PROVE TypeOK'
  <2>1. run.rows \in Held /\ run.rows[p] \in Stored
    BY <1>4, RunFacts, HeldFacts DEF UpRow
  <2>2. run' = [at |-> "up", rows |-> Without(run.rows, p)]
    BY <1>4, RunFacts DEF UpRow
  <2>3. run' \in Holding
    BY <2>1, <2>2, HeldFacts, HoldingFacts
  <2>4. content' \in [Pages -> Content \cup {Nothing}]
    BY <1>4, <2>1, WrapFacts DEF TypeOK, UpRow
  <2>5. QED
    BY <1>4, <2>3, <2>4 DEF TypeOK, UpRow
<1>5. CASE Record
  BY <1>5 DEF TypeOK, Record
<1>6. CASE Revert
  <2>1. run' \in Holding
    BY <1>6, <1>0, HoldingFacts DEF Revert
  <2>2. runs' \in 0..MaxRuns
    BY <1>6 DEF TypeOK, Revert
  <2>3. QED
    BY <1>6, <2>1, <2>2 DEF TypeOK, Revert
<1>7. ASSUME NEW p \in Pages, DownRow(p) PROVE TypeOK'
  <2>1. run.rows \in Held /\ run.rows[p] \in Stored
    BY <1>7, RunFacts, HeldFacts DEF DownRow
  <2>2. run' = [at |-> "down", rows |-> Without(run.rows, p)]
    BY <1>7, RunFacts DEF DownRow
  <2>3. run' \in Holding
    BY <2>1, <2>2, HeldFacts, HoldingFacts
  <2>4. content' \in [Pages -> Content \cup {Nothing}]
    BY <1>7, <2>1, UnwrapFacts DEF TypeOK, DownRow, Stored
  <2>5. QED
    BY <1>7, <2>3, <2>4 DEF TypeOK, DownRow
<1>8. CASE Narrow
  <2>1. [at |-> "revert"] \in Reading
    BY DEF Reading
  <2>2. run' \in Reading \cup Holding \cup {Idle} /\ wide' \in BOOLEAN
    BY <1>8, <2>1 DEF Narrow, TypeOK
  <2>3. QED
    BY <1>8, <2>2 DEF TypeOK, Narrow
<1>9. CASE Unrecord
  BY <1>9 DEF TypeOK, Unrecord
<1>10. CASE Crash
  <2>1. content' \in [Pages -> Content \cup {Nothing}]
    BY <1>10 DEF TypeOK, Crash
  <2>2. QED
    BY <1>10, <2>1 DEF TypeOK, Crash
<1>11. CASE UNCHANGED vars
  BY <1>11 DEF TypeOK, vars
<1>12. QED
  BY <1>1, <1>2, <1>3, <1>4, <1>5, <1>6, <1>7, <1>8, <1>9, <1>10, <1>11 DEF Next

(* Type correctness: whatever order the runs, the crashes and the editors  *)
(* take, the column holds documents and the run holds rows.                *)
THEOREM TypeCorrect == Spec => []TypeOK
<1>1. QED
  BY InitType, StepType, PTL DEF Spec

-----------------------------------------------------------------------------
(* The texts are kept. A run writes what it read earlier, so its rows must *)
(* still hold the text saved last, but where an editor has saved since; a  *)
(* revert that dies restores the rows it has locked, so what they held     *)
(* when its transaction began must be that text, too.                      *)

RowsAreKept ==
    run.at \in {"up", "down"} =>
        \A p \in Pending \ clobbered : TextOf(run.rows[p]) = latest[p]
RowsAreBefore ==
    run.at = "down" => \A p \in DOMAIN run.rows : run.rows[p] = before[p]
RollbackIsKept ==
    run.at = "down" => \A p \in Locked \ clobbered : TextOf(before[p]) = latest[p]
KeptInv == TextKept /\ RowsAreKept /\ RowsAreBefore /\ RollbackIsKept

LEMMA InitKept == Init => KeptInv
<1> SUFFICES ASSUME Init PROVE KeptInv
  OBVIOUS
<1>1. TextKept
  BY DEF Init, TextKept
<1>2. run.at = "idle"
  BY DEF Init, Idle
<1>3. QED
  BY <1>1, <1>2 DEF KeptInv, RowsAreKept, RowsAreBefore, RollbackIsKept

(* A step that leaves the texts as they are and holds no rows.             *)
LEMMA QuietKept ==
    ASSUME KeptInv, run'.at \notin {"up", "down"}, UNCHANGED <<content, latest, clobbered>>
    PROVE  KeptInv'
  BY DEF KeptInv, TextKept, RowsAreKept, RowsAreBefore, RollbackIsKept

(* A step that writes, of one page p, what keeps the text of its row, and  *)
(* lets the row go.                                                        *)
LEMMA RowKept ==
    ASSUME TypeOK, KeptInv, NEW p \in DOMAIN run.rows, p \in Pages, NEW c,
           run.at \in {"up", "down"},
           p \in Pending => TextOf(c) = TextOf(run.rows[p]),
           content' = IF p \in Pending THEN [content EXCEPT ![p] = c] ELSE content,
           run' = [at |-> run.at, rows |-> Without(run.rows, p)],
           UNCHANGED <<before, latest, clobbered>>
    PROVE  TextKept' /\ RowsAreKept' /\ RowsAreBefore'
<1>1. TextKept'
  <2> SUFFICES ASSUME NEW q \in Pages, q \notin clobbered
               PROVE  TextOf(content'[q]) = latest[q]
    BY DEF TextKept
  <2>1. CASE p \in Pending /\ q = p
    BY <2>1 DEF TypeOK, KeptInv, RowsAreKept
  <2>2. CASE ~(p \in Pending /\ q = p)
    <3>1. content'[q] = content[q]
      BY <2>2 DEF TypeOK
    <3>2. QED
      BY <3>1 DEF KeptInv, TextKept
  <2>3. QED
    BY <2>1, <2>2
<1>2. /\ run'.at = run.at /\ DOMAIN run'.rows = DOMAIN run.rows \ {p}
      /\ \A q \in DOMAIN run'.rows : run'.rows[q] = run.rows[q]
  BY DEF Without
<1>3. Pending' \subseteq Pending
  BY <1>2 DEF Pending
<1>4. RowsAreKept'
  <2> SUFFICES ASSUME NEW q \in Pending', q \notin clobbered
               PROVE  TextOf(run'.rows[q]) = latest[q]
    BY DEF RowsAreKept
  <2>1. q \in DOMAIN run'.rows
    BY DEF Pending
  <2>2. QED
    BY <1>2, <1>3, <2>1 DEF KeptInv, RowsAreKept
<1>5. RowsAreBefore'
  BY <1>2 DEF KeptInv, RowsAreBefore
<1>6. QED
  BY <1>1, <1>4, <1>5

LEMMA StepKept == TypeOK /\ KeptInv /\ [Next]_vars => KeptInv'
<1> SUFFICES ASSUME TypeOK, KeptInv, [Next]_vars PROVE KeptInv'
  OBVIOUS
<1>1. ASSUME NEW p \in Pages, NEW c \in Content, Edit(p, c) PROVE KeptInv'
  <2>1. TextOf(c) = c.text
    BY ContentFacts
  <2>2. TextKept'
    <3> SUFFICES ASSUME NEW q \in Pages, q \notin clobbered
                 PROVE  TextOf(content'[q]) = latest'[q]
      BY <1>1 DEF TextKept, Edit
    <3>1. CASE q = p
      BY <1>1, <2>1, <3>1 DEF Edit, TypeOK
    <3>2. CASE q # p
      <4>1. content'[q] = content[q] /\ latest'[q] = latest[q]
        BY <1>1, <3>2 DEF Edit, TypeOK
      <4>2. QED
        BY <4>1 DEF KeptInv, TextKept
    <3>3. QED
      BY <3>1, <3>2
  <2>3. /\ Pending' = Pending /\ Locked' = Locked
        /\ clobbered \subseteq clobbered' /\ run' = run /\ before' = before
        /\ \A q \in Pages \ {p} : latest'[q] = latest[q]
    BY <1>1 DEF Edit, Pending, Locked, TypeOK
  <2>4. RowsAreKept'
    <3> SUFFICES ASSUME run.at \in {"up", "down"}, NEW q \in Pending, q \notin clobbered'
                 PROVE  TextOf(run.rows[q]) = latest'[q]
      BY <2>3 DEF RowsAreKept
    <3>1. q \in Pages
      BY RunFacts, HeldFacts DEF Pending
    <3>2. q # p
      BY <1>1 DEF Edit
    <3>3. QED
      BY <2>3, <3>1, <3>2 DEF KeptInv, RowsAreKept
  <2>5. RowsAreBefore'
    BY <2>3 DEF KeptInv, RowsAreBefore
  <2>6. RollbackIsKept'
    <3> SUFFICES ASSUME run.at = "down", NEW q \in Locked, q \notin clobbered'
                 PROVE  TextOf(before[q]) = latest'[q]
      BY <2>3 DEF RollbackIsKept
    <3>1. q \in Pages /\ q # p
      BY <1>1 DEF Edit, Locked
    <3>2. QED
      BY <2>3, <3>1 DEF KeptInv, RollbackIsKept
  <2>7. QED
    BY <2>2, <2>4, <2>5, <2>6 DEF KeptInv
<1>2. CASE Alter
  BY <1>2, QuietKept DEF Alter
<1>3. CASE Select
  <2>1. run'.at = "up" /\ run'.rows = content
    BY <1>3 DEF Select
  <2>2. TextKept'
    BY <1>3 DEF Select, KeptInv, TextKept
  <2>3. RowsAreKept'
    BY <1>3, <2>1 DEF Select, KeptInv, TextKept, RowsAreKept, Pending, TypeOK
  <2>4. QED
    BY <2>1, <2>2, <2>3 DEF KeptInv, RowsAreBefore, RollbackIsKept
<1>4. ASSUME NEW p \in Pages, UpRow(p) PROVE KeptInv'
  <2>1. run.rows[p] \in Stored /\ p \in DOMAIN run.rows /\ run.at = "up"
    BY <1>4, RunFacts, HeldFacts DEF UpRow
  <2>2. p \in Pending <=> ~Skipped(run.rows[p])
    BY <2>1 DEF Pending
  <2>3. run' = [at |-> run.at, rows |-> Without(run.rows, p)]
    BY <1>4, RunFacts DEF UpRow
  <2>4. p \in Pending => TextOf(Wrap(run.rows[p])) = TextOf(run.rows[p])
    BY <2>1, <2>2, WrapFacts
  <2>5. content' = IF p \in Pending THEN [content EXCEPT ![p] = Wrap(run.rows[p])] ELSE content
    BY <1>4, <2>2 DEF UpRow
  <2>6. TextKept' /\ RowsAreKept' /\ RowsAreBefore'
    <3>1. UNCHANGED <<before, latest, clobbered>>
      BY <1>4 DEF UpRow
    <3>2. QED
      BY <2>1, <2>3, <2>4, <2>5, <3>1, RowKept
  <2>7. run'.at = "up"
    BY <2>1, <2>3
  <2>8. QED
    BY <2>6, <2>7 DEF KeptInv, RollbackIsKept
<1>5. CASE Record
  BY <1>5, QuietKept DEF Record, Idle
<1>6. CASE Revert
  <2>1. run'.at = "down" /\ run'.rows = content /\ before' = content
    BY <1>6 DEF Revert
  <2>2. TextKept'
    BY <1>6 DEF Revert, KeptInv, TextKept
  <2>3. RowsAreKept'
    BY <1>6, <2>1 DEF Revert, KeptInv, TextKept, RowsAreKept, Pending, TypeOK
  <2>4. RowsAreBefore'
    BY <2>1 DEF RowsAreBefore
  <2>5. Locked' = {}
    BY <2>1 DEF Locked, TypeOK
  <2>6. QED
    BY <2>2, <2>3, <2>4, <2>5 DEF KeptInv, RollbackIsKept
<1>7. ASSUME NEW p \in Pages, DownRow(p) PROVE KeptInv'
  <2>1. run.rows[p] \in Stored /\ p \in DOMAIN run.rows /\ run.at = "down"
    BY <1>7, RunFacts, HeldFacts DEF DownRow
  <2>2. p \in Pending <=> Unwrap(run.rows[p]) # run.rows[p]
    BY <2>1 DEF Pending
  <2>3. run' = [at |-> run.at, rows |-> Without(run.rows, p)]
    BY <1>7, RunFacts DEF DownRow
  <2>4. TextOf(Unwrap(run.rows[p])) = TextOf(run.rows[p])
    BY <2>1, UnwrapFacts
  <2>5. content' = IF p \in Pending THEN [content EXCEPT ![p] = Unwrap(run.rows[p])] ELSE content
    BY <1>7, <2>2 DEF DownRow
  <2>6. TextKept' /\ RowsAreKept' /\ RowsAreBefore'
    <3>1. UNCHANGED <<before, latest, clobbered>>
      BY <1>7 DEF DownRow
    <3>2. QED
      BY <2>1, <2>3, <2>4, <2>5, <3>1, RowKept
  <2>7. RollbackIsKept'
    <3> SUFFICES ASSUME NEW q \in Locked', q \notin clobbered
                 PROVE  TextOf(before[q]) = latest[q]
      BY <1>7 DEF RollbackIsKept, DownRow
    <3>1. q \in Pages /\ Unwrap(before[q]) # before[q] /\ (q = p \/ q \notin DOMAIN run.rows)
      BY <1>7, <2>3 DEF Locked, Without, DownRow
    <3>2. CASE q = p
      <4>1. run.rows[p] = before[p]
        BY <2>1 DEF KeptInv, RowsAreBefore
      <4>2. p \in Pending
        BY <2>2, <3>1, <3>2, <4>1
      <4>3. QED
        BY <2>1, <3>2, <4>1, <4>2 DEF KeptInv, RowsAreKept
    <3>3. CASE q \notin DOMAIN run.rows
      BY <2>1, <3>1, <3>3 DEF KeptInv, RollbackIsKept, Locked
    <3>4. QED
      BY <3>1, <3>2, <3>3
  <2>8. QED
    BY <2>6, <2>7 DEF KeptInv
<1>8. CASE Narrow
  BY <1>8, QuietKept DEF Narrow, Idle
<1>9. CASE Unrecord
  BY <1>9, QuietKept DEF Unrecord, Idle
<1>10. CASE Crash
  <2>1. run'.at = "idle"
    BY <1>10 DEF Crash, Idle
  <2>2. TextKept'
    <3> SUFFICES ASSUME NEW q \in Pages, q \notin clobbered
                 PROVE  TextOf(content'[q]) = latest[q]
      BY <1>10 DEF TextKept, Crash
    <3>1. content'[q] = IF run.at = "down" /\ q \in Locked THEN before[q] ELSE content[q]
      BY <1>10 DEF Crash
    <3>2. QED
      BY <3>1 DEF KeptInv, TextKept, RollbackIsKept
  <2>3. QED
    BY <2>1, <2>2 DEF KeptInv, RowsAreKept, RowsAreBefore, RollbackIsKept
<1>11. CASE UNCHANGED vars
  BY <1>11 DEF vars, KeptInv, TextKept, RowsAreKept, RowsAreBefore, RollbackIsKept, Pending, Locked
<1>12. QED
  BY <1>1, <1>2, <1>3, <1>4, <1>5, <1>6, <1>7, <1>8, <1>9, <1>10, <1>11 DEF Next

(* No run, revert or crash loses the text that was saved last, unless it   *)
(* was saved while a run held the row it had read before.                  *)
THEOREM TextIsKept == Spec => []TextKept
<1>1. Spec => [](TypeOK /\ KeptInv)
  BY InitType, StepType, InitKept, StepKept, PTL DEF Spec
<1>2. KeptInv => TextKept
  BY DEF KeptInv
<1>3. QED
  BY <1>1, <1>2, PTL

-----------------------------------------------------------------------------
(* What is recorded is wrapped. While a run is under way, each page is     *)
(* still to be rewritten, or in the new form, or was saved in the old one. *)

WrappedOrPending ==
    run.at = "up" =>
        \A p \in Pages : \/ p \in Pending \/ content[p] = Nothing
                         \/ IsBuilderDocument(content[p]) \/ p \in unwrapped

LEMMA StepWrapped == TypeOK /\ WrappedOrPending /\ [Next]_vars => WrappedOrPending'
<1> SUFFICES ASSUME TypeOK, WrappedOrPending, [Next]_vars, run'.at = "up", NEW q \in Pages
             PROVE  \/ q \in Pending' \/ content'[q] = Nothing
                    \/ IsBuilderDocument(content'[q]) \/ q \in unwrapped'
  BY Zenon DEF WrappedOrPending
<1>1. ASSUME NEW p \in Pages, NEW c \in Content, Edit(p, c)
      PROVE  \/ q \in Pending' \/ content'[q] = Nothing
             \/ IsBuilderDocument(content'[q]) \/ q \in unwrapped'
  <2>1. Pending' = Pending /\ run'.at = run.at
    BY <1>1 DEF Edit, Pending
  <2>2. CASE q = p
    <3>1. content'[q] = c
      BY <1>1, <2>2 DEF Edit, TypeOK
    <3>2. c.form = "raw" => q \in unwrapped'
      BY <1>1, <2>2 DEF Edit
    <3>3. QED
      BY <3>1, <3>2, ContentFacts
  <2>3. CASE q # p
    <3>1. content'[q] = content[q] /\ (q \in unwrapped => q \in unwrapped')
      BY <1>1, <2>3 DEF Edit, TypeOK
    <3>2. QED
      BY <2>1, <3>1 DEF WrappedOrPending
  <2>4. QED
    BY <2>2, <2>3
<1>2. CASE Select
  <2>1. run'.rows = content /\ content' = content
    BY <1>2 DEF Select
  <2>2. QED
    BY <2>1 DEF Pending, Skipped, TypeOK
<1>3. ASSUME NEW p \in Pages, UpRow(p)
      PROVE  \/ q \in Pending' \/ content'[q] = Nothing
             \/ IsBuilderDocument(content'[q]) \/ q \in unwrapped'
  <2>1. run.rows[p] \in Stored /\ run.at = "up"
    BY <1>3, RunFacts, HeldFacts DEF UpRow
  <2>2. run' = [at |-> "up", rows |-> Without(run.rows, p)]
    BY <1>3, RunFacts DEF UpRow
  <2>3. q # p /\ q \in Pending => q \in Pending'
    BY <2>1, <2>2 DEF Pending, Without
  <2>4. CASE q = p /\ ~Skipped(run.rows[p])
    <3>1. content'[q] = Wrap(run.rows[p])
      BY <1>3, <2>4 DEF UpRow, TypeOK
    <3>2. QED
      BY <2>1, <2>4, <3>1, WrapFacts
  <2>5. CASE ~(q = p /\ ~Skipped(run.rows[p]))
    <3>1. content'[q] = content[q] /\ unwrapped' = unwrapped
      BY <1>3, <2>5 DEF UpRow, TypeOK
    <3>2. q \in Pending => q \in Pending'
      BY <2>1, <2>3, <2>5 DEF Pending
    <3>3. QED
      BY <2>1, <3>1, <3>2 DEF WrappedOrPending
  <2>6. QED
    BY <2>4, <2>5
<1>4. CASE UNCHANGED vars
  BY <1>4 DEF vars, WrappedOrPending, Pending
<1>5. ~Alter /\ ~Record /\ ~Revert /\ ~Narrow /\ ~Unrecord /\ ~Crash
  BY DEF Alter, Record, Revert, Narrow, Unrecord, Crash, Idle
<1>6. ASSUME NEW p \in Pages PROVE ~DownRow(p)
  BY RunFacts DEF DownRow
<1>7. QED
  BY <1>1, <1>2, <1>3, <1>4, <1>5, <1>6 DEF Next

(* A run is recorded only when no page is left in the old form, but those  *)
(* that were saved in it after the run had read them.                      *)
THEOREM RecordedAreWrapped == Spec => RecordedIsWrapped
<1>1. Init => WrappedOrPending
  <2>1. Init => run.at # "up"
    BY DEF Init, Idle
  <2>2. QED
    BY <2>1 DEF WrappedOrPending
<1>2. Spec => [](TypeOK /\ WrappedOrPending)
  BY <1>1, InitType, StepType, StepWrapped, PTL DEF Spec
<1>3. ASSUME TypeOK, WrappedOrPending, Next, ~recorded /\ recorded', NEW p \in Pages
      PROVE  content[p] = Nothing \/ IsBuilderDocument(content[p]) \/ p \in unwrapped
  <2>1. Record
    <3>1. \A q \in Pages, c \in Content : ~Edit(q, c)
      BY <1>3 DEF Edit
    <3>2. \A q \in Pages : ~UpRow(q) /\ ~DownRow(q)
      BY <1>3 DEF UpRow, DownRow
    <3>3. ~Alter /\ ~Select /\ ~Revert /\ ~Narrow /\ ~Unrecord /\ ~Crash
      BY <1>3 DEF Alter, Select, Revert, Narrow, Unrecord, Crash
    <3>4. QED
      BY <1>3, <3>1, <3>2, <3>3 DEF Next
  <2>2. run.at = "up" /\ Pending = {}
    BY <2>1 DEF Record, Pending
  <2>3. QED
    BY <1>3, <2>2 DEF WrappedOrPending
<1>4. TypeOK /\ WrappedOrPending /\ [Next]_vars =>
        [~recorded /\ recorded' => \A p \in Pages :
            content[p] = Nothing \/ IsBuilderDocument(content[p]) \/ p \in unwrapped]_vars
  BY <1>3 DEF vars
<1>5. QED
  BY <1>2, <1>4, PTL DEF Spec, RecordedIsWrapped

-----------------------------------------------------------------------------
(* UniqueNames: the shape of rows and requests.                            *)

LEMMA NameFacts ==
    /\ Slug \in [Names -> Names] /\ Unique!Empty \in Names
    /\ \A n \in Names : Slug[Slug[n]] = Slug[n]
    /\ Unique!Omitted \notin Names /\ Unique!New \notin Rows /\ MaxRequests \in Nat
    /\ Entities \subseteq {"post", "topic", "page", "category"}
  BY NamesAssumption DEF Unique!ConstantsAssumption

LEMMA NoRowFacts ==
    ASSUME NEW title, NEW slug, NEW deleted
    PROVE  [title |-> title, slug |-> slug, deleted |-> deleted] # Unique!NoRow
<1>1. "slug" \in DOMAIN [title |-> title, slug |-> slug, deleted |-> deleted]
  OBVIOUS
<1>2. "slug" \notin DOMAIN Unique!NoRow
  BY DEF Unique!NoRow
<1>3. QED
  BY <1>1, <1>2

LEMMA UsedFacts ==
    ASSUME Unique!TypeOK, NEW i \in Unique!Used
    PROVE  /\ i \in Rows /\ table[i] \in Unique!Row
           /\ table[i].title \in Names /\ table[i].slug \in Names
           /\ table[i].deleted \in BOOLEAN
  BY DEF Unique!Used, Unique!TypeOK, Unique!Row

LEMMA BodyFacts ==
    ASSUME NEW body \in Unique!Body
    PROVE  /\ body = [id |-> body.id, title |-> body.title, slug |-> body.slug]
           /\ body.id \in Rows \cup {Unique!New}
           /\ body.title \in Names \cup {Unique!Omitted}
           /\ body.slug \in Names \cup {Unique!Omitted}
  BY DEF Unique!Body

LEMMA OpenFacts ==
    ASSUME Unique!TypeOK, NEW r \in Requests, req[r].at = "open"
    PROVE  /\ req[r] = [at |-> "open", body |-> req[r].body, unchecked |-> req[r].unchecked,
                        overtaken |-> req[r].overtaken]
           /\ req[r].body \in Unique!Body /\ req[r].unchecked \subseteq {"title", "slug"}
           /\ req[r].overtaken \in BOOLEAN
           /\ req[r] \in [at: {"open"}, body: Unique!Body, unchecked: SUBSET {"title", "slug"},
                          overtaken: BOOLEAN]
  BY DEF Unique!TypeOK, Unique!Request, Unique!Idle

LEMMA RestFacts == Unique!Idle.at = "idle" /\ Unique!Idle \in Unique!Request \cup {Unique!Idle}
  BY DEF Unique!Idle

-----------------------------------------------------------------------------
(* The steps, one by one: what each makes of the request and of the row.   *)

LEMMA ComeStep ==
    ASSUME Unique!TypeOK, NEW r \in Requests, NEW body \in Unique!Body, Unique!Come(r, body)
    PROVE  \E sent \in Unique!Body, unchecked \in SUBSET {"title", "slug"} :
              /\ req' = [req EXCEPT ![r] = [at |-> "open", body |-> sent,
                                           overtaken |-> FALSE, unchecked |-> unchecked]]
              /\ sent.id = body.id /\ sent.title = body.title
              /\ sent.slug # Unique!Omitted => Slug[sent.slug] = sent.slug
              /\ \A c \in {"title", "slug"} :
                    Unique!Value(sent, c) # Unique!Omitted /\ (c = "title" => Unique!TitleChecked)
                        => c \in unchecked
<1> DEFINE sent == [body EXCEPT !.slug = IF @ = Unique!Omitted THEN @ ELSE Slug[@]]
           unchecked == {c \in {"title", "slug"} : Unique!Value(sent, c) # Unique!Omitted
                                                   /\ (c = "title" => Unique!TitleChecked)}
<1>1. /\ sent = [id |-> body.id, title |-> body.title,
                 slug |-> IF body.slug = Unique!Omitted THEN body.slug ELSE Slug[body.slug]]
      /\ sent \in Unique!Body
  BY BodyFacts, NameFacts DEF Unique!Body
<1>2. sent.slug # Unique!Omitted => Slug[sent.slug] = sent.slug
  BY <1>1, BodyFacts, NameFacts
<1>3. req' = [req EXCEPT ![r] = [at |-> "open", body |-> sent, overtaken |-> FALSE,
                                 unchecked |-> unchecked]]
  BY DEF Unique!Come
<1>4. unchecked \in SUBSET {"title", "slug"}
  OBVIOUS
<1>5. \A c \in {"title", "slug"} :
        Unique!Value(sent, c) # Unique!Omitted /\ (c = "title" => Unique!TitleChecked)
            => c \in unchecked
  OBVIOUS
<1>6. sent.id = body.id /\ sent.title = body.title
  BY <1>1
<1> HIDE DEF sent, unchecked
<1>7. QED
  BY <1>1, <1>2, <1>3, <1>4, <1>5, <1>6

LEMMA CheckStep ==
    ASSUME Unique!TypeOK, NEW r \in Requests, NEW column \in {"title", "slug"},
           Unique!Check(r, column)
    PROVE  /\ req[r].at = "open"
           /\ \/ req' = [req EXCEPT ![r] = Unique!Idle]
              \/ /\ req' = [req EXCEPT ![r] = [at |-> "open", body |-> req[r].body,
                                                unchecked |-> req[r].unchecked \ {column},
                                                overtaken |-> req[r].overtaken]]
                 /\ \/ Unique!Holders(column, Unique!Value(req[r].body, column)) = {}
                    \/ req[r].body.id \in Unique!Holders(column, Unique!Value(req[r].body, column))
<1> DEFINE body == req[r].body  held == Unique!Holders(column, Unique!Value(body, column))
<1>1. req[r].at = "open"
  BY DEF Unique!Check
<1>2. PICK found \in (IF held = {} THEN {{}} ELSE {{i} : i \in held}) :
        req' = [req EXCEPT ![r] = IF Unique!NotExist(body, found)
                                  THEN [req[r] EXCEPT !.unchecked = req[r].unchecked \ {column}]
                                  ELSE Unique!Idle]
  BY DEF Unique!Check
<1>3. CASE ~Unique!NotExist(body, found)
  BY <1>1, <1>2, <1>3
<1>4. CASE Unique!NotExist(body, found)
  <2>1. [req[r] EXCEPT !.unchecked = req[r].unchecked \ {column}]
        = [at |-> "open", body |-> body, unchecked |-> req[r].unchecked \ {column},
           overtaken |-> req[r].overtaken]
    <3>1. PICK b, u, o : req[r] = [at |-> "open", body |-> b, unchecked |-> u, overtaken |-> o]
      BY <1>1, OpenFacts
    <3>2. QED
      BY <3>1
  <2>2. held = {} \/ body.id \in held
    BY <1>2, <1>4 DEF Unique!NotExist
  <2>3. req' = [req EXCEPT ![r] = [at |-> "open", body |-> body,
                                   unchecked |-> req[r].unchecked \ {column},
                                   overtaken |-> req[r].overtaken]]
    BY <1>2, <1>4, <2>1
  <2>4. QED
    BY <1>1, <2>2, <2>3
<1>5. QED
  BY <1>3, <1>4

(* What requests know. A name that a request has validated is held by no   *)
(* row, or by its own row, as long as nothing is written meanwhile; and a  *)
(* slug that came with a body is one already.                              *)
Validated(r, column) ==
    /\ req[r].at = "open" /\ ~req[r].overtaken /\ column \notin req[r].unchecked
    /\ Unique!Value(req[r].body, column) # Unique!Omitted
    /\ column = "title" => Unique!TitleChecked
HeldByOwn(r, column) ==
    LET held == Unique!Holders(column, Unique!Value(req[r].body, column))
    IN  held = {} \/ req[r].body.id \in held
ChecksHold == \A r \in Requests, c \in {"title", "slug"} : Validated(r, c) => HeldByOwn(r, c)

BodyHolds(body) ==
    /\ body.id = Unique!New => body.title # Unique!Omitted
    /\ body.slug # Unique!Omitted => Slug[body.slug] = body.slug
BodiesHold == \A r \in Requests : req[r].at = "open" => BodyHolds(req[r].body)

IndexesHold ==
    Unique!Indexed => \A i, j \in Unique!Used : i # j =>
        table[i].title # table[j].title /\ table[i].slug # table[j].slug

NamesInv == Unique!NamesExplained /\ ChecksHold /\ BodiesHold /\ IndexesHold

(* The row that a request writes.                                          *)
LEMMA RowFacts ==
    ASSUME Unique!TypeOK, BodiesHold, NEW r \in Requests, NEW i \in Rows, Unique!Save(r, i),
           NEW row, row = Unique!Merged(table[i], req[r].body)
    PROVE  /\ req[r].at = "open" /\ req[r].unchecked = {} /\ req[r].body \in Unique!Body
           /\ BodyHolds(req[r].body)
           /\ \/ req[r].body.id = Unique!New /\ table[i] = Unique!NoRow
              \/ req[r].body.id = i /\ i \in Unique!Used
           /\ row \in Unique!Row /\ row # Unique!NoRow
           /\ row.title = IF req[r].body.title = Unique!Omitted THEN table[i].title
                          ELSE req[r].body.title
           /\ ~Unique!Derived(req[r].body) => row.slug = req[r].body.slug
<1> DEFINE body == req[r].body
<1>1. /\ req[r].at = "open" /\ req[r].unchecked = {}
      /\ \/ body.id = Unique!New /\ table[i] = Unique!NoRow
         \/ body.id = i /\ i \in Unique!Used
  BY DEF Unique!Save, Unique!Used
<1>2. body \in Unique!Body /\ BodyHolds(body)
  BY <1>1, OpenFacts DEF BodiesHold
<1> DEFINE title == IF body.title = Unique!Omitted THEN table[i].title ELSE body.title
           made  == Unique!CreateSlug(body)
           slug  == IF made = Unique!Omitted THEN table[i].slug ELSE made
           deleted == table[i] # Unique!NoRow /\ table[i].deleted
<1>3. row = [title |-> title, slug |-> slug, deleted |-> deleted]
  BY DEF Unique!Merged
<1>4. title \in Names
  BY <1>1, <1>2, BodyFacts, UsedFacts DEF BodyHolds
<1>5. made \in Names \cup {Unique!Omitted} /\ (body.title # Unique!Omitted => made \in Names)
  BY <1>2, BodyFacts, NameFacts DEF Unique!CreateSlug
<1>6. slug \in Names
  BY <1>1, <1>2, <1>5, UsedFacts, NameFacts DEF BodyHolds
<1>7. deleted \in BOOLEAN
  BY UsedFacts DEF Unique!Used
<1>8. ~Unique!Derived(body) => slug = body.slug
  BY <1>2, NameFacts DEF Unique!Derived, Unique!CreateSlug, BodyHolds
<1> HIDE DEF title, made, slug, deleted
<1>9. row \in Unique!Row /\ row # Unique!NoRow /\ row.title = title /\ row.slug = slug
  BY <1>3, <1>4, <1>6, <1>7, NoRowFacts DEF Unique!Row
<1>10. QED
  BY <1>1, <1>2, <1>8, <1>9 DEF title

LEMMA WriteStep ==
    ASSUME Unique!TypeOK, NEW r \in Requests, NEW i \in Rows, Unique!Save(r, i),
           NEW row, row = Unique!Merged(table[i], req[r].body), Unique!Fits(i, row)
    PROVE  /\ table' = [table EXCEPT ![i] = row] /\ UNCHANGED <<entity, requests>>
           /\ late \subseteq late' /\ late' \subseteq late \cup {i}
           /\ derived \subseteq derived' /\ derived' \subseteq derived \cup {i}
           /\ req[r].overtaken => i \in late'
           /\ Unique!Derived(req[r].body) => i \in derived'
           /\ req' \in [Requests -> Unique!Request \cup {Unique!Idle}]
           /\ req'[r].at = "idle"
           /\ \A q \in Requests \ {r} :
                 IF req[q].at = "open"
                 THEN req'[q].at = "open" /\ req'[q].body = req[q].body /\ req'[q].overtaken
                 ELSE req'[q] = req[q]
<1>1. /\ table' = [table EXCEPT ![i] = row] /\ UNCHANGED <<entity, requests>>
      /\ late' = IF req[r].overtaken THEN late \cup {i} ELSE late
      /\ derived' = IF Unique!Derived(req[r].body) THEN derived \cup {i} ELSE derived
      /\ req' = Unique!Overtake(r, Unique!Idle)
  BY DEF Unique!Save
<1>2. req' = [q \in Requests |-> IF q = r THEN Unique!Idle
                ELSE IF req[q].at = "open" THEN [req[q] EXCEPT !.overtaken = TRUE] ELSE req[q]]
  BY <1>1 DEF Unique!Overtake
<1>3. ASSUME NEW q \in Requests \ {r}, req[q].at = "open"
      PROVE  /\ req'[q] \in Unique!Request
             /\ req'[q].at = "open" /\ req'[q].body = req[q].body /\ req'[q].overtaken
  <2>1. req[q] \in [at: {"open"}, body: Unique!Body, unchecked: SUBSET {"title", "slug"},
                    overtaken: BOOLEAN]
    BY <1>3, OpenFacts
  <2>2. req'[q] = [req[q] EXCEPT !.overtaken = TRUE]
    BY <1>2, <1>3
  <2>3. QED
    BY <2>1, <2>2 DEF Unique!Request
<1>4. ASSUME NEW q \in Requests \ {r}, req[q].at # "open"
      PROVE  req'[q] = req[q] /\ req'[q] \in Unique!Request \cup {Unique!Idle}
  BY <1>2, <1>4 DEF Unique!TypeOK
<1>5. req'[r] = Unique!Idle
  BY <1>2
<1>6. req' \in [Requests -> Unique!Request \cup {Unique!Idle}]
  <2>1. \A q \in Requests : req'[q] \in Unique!Request \cup {Unique!Idle}
    BY <1>3, <1>4, <1>5
  <2>2. QED
    BY <1>2, <2>1
<1>7. QED
  BY <1>1, <1>3, <1>4, <1>5, <1>6, RestFacts

LEMMA RefusedStep ==
    ASSUME Unique!TypeOK, NEW r \in Requests, NEW i \in Rows, Unique!Save(r, i),
           ~Unique!Fits(i, Unique!Merged(table[i], req[r].body))
    PROVE  /\ UNCHANGED <<entity, table, requests, late, derived>>
           /\ req' = [req EXCEPT ![r] = [at |-> "failed", body |-> req[r].body,
                                        overtaken |-> req[r].overtaken]]
  BY DEF Unique!Save

LEMMA DeleteStep ==
    ASSUME Unique!TypeOK, NEW i \in Rows, Unique!SoftDelete(i)
    PROVE  /\ UNCHANGED <<entity, req, requests, late, derived>>
           /\ table' \in [Rows -> Unique!Row \cup {Unique!NoRow}]
           /\ Unique!Used' = Unique!Used
           /\ \A j \in Unique!Used : /\ table'[j].title = table[j].title
                                     /\ table'[j].slug = table[j].slug
<1>1. i \in Unique!Used /\ table[i] \in Unique!Row
  BY UsedFacts DEF Unique!SoftDelete
<1>2. table' = [table EXCEPT ![i] = [table[i] EXCEPT !.deleted = TRUE]]
  BY DEF Unique!SoftDelete
<1>3. table'[i] = [table[i] EXCEPT !.deleted = TRUE] /\ \A j \in Rows \ {i} : table'[j] = table[j]
  BY <1>2 DEF Unique!TypeOK
<1>4. /\ table'[i] \in Unique!Row
      /\ table'[i].title = table[i].title /\ table'[i].slug = table[i].slug
  BY <1>1, <1>3 DEF Unique!Row
<1>5. Unique!Used' = Unique!Used
  <2>1. \A row \in Unique!Row : row # Unique!NoRow
    BY NoRowFacts DEF Unique!Row
  <2>2. QED
    BY <1>1, <1>3, <1>4, <2>1 DEF Unique!Used
<1>6. table' \in [Rows -> Unique!Row \cup {Unique!NoRow}]
  BY <1>2, <1>3, <1>4 DEF Unique!TypeOK
<1>7. QED
  BY <1>3, <1>4, <1>5, <1>6 DEF Unique!SoftDelete, Unique!Used

(* What TLC's Next says, action by action.                                 *)
LEMMA NameSteps ==
    ASSUME [Unique!Next]_Unique!vars
    PROVE  \/ \E i \in Rows : Unique!SoftDelete(i)
           \/ \E r \in Requests, body \in Unique!Body : Unique!Acceptable(body) /\ Unique!Come(r, body)
           \/ \E r \in Requests, column \in {"title", "slug"} : Unique!Check(r, column)
           \/ \E r \in Requests, i \in Rows : Unique!Save(r, i)
           \/ UNCHANGED Unique!vars
  BY DEF Unique!Next

LEMMA NameType ==
    ASSUME Unique!TypeOK, BodiesHold, [Unique!Next]_Unique!vars
    PROVE  Unique!TypeOK'
<1>1. ASSUME NEW i \in Rows, Unique!SoftDelete(i) PROVE Unique!TypeOK'
  BY <1>1, DeleteStep DEF Unique!TypeOK
<1>2. ASSUME NEW r \in Requests, NEW body \in Unique!Body, Unique!Come(r, body)
      PROVE  Unique!TypeOK'
  <2>1. PICK sent \in Unique!Body, unchecked \in SUBSET {"title", "slug"} :
            req' = [req EXCEPT ![r] = [at |-> "open", body |-> sent, overtaken |-> FALSE,
                                       unchecked |-> unchecked]]
    BY <1>2, ComeStep
  <2>2. [at |-> "open", body |-> sent, overtaken |-> FALSE, unchecked |-> unchecked]
        \in Unique!Request
    BY DEF Unique!Request
  <2>3. req' \in [Requests -> Unique!Request \cup {Unique!Idle}]
    BY <2>1, <2>2 DEF Unique!TypeOK
  <2>4. requests' \in 0..MaxRequests
    BY <1>2, NameFacts DEF Unique!Come, Unique!TypeOK
  <2>5. QED
    BY <1>2, <2>3, <2>4 DEF Unique!Come, Unique!TypeOK
<1>3. ASSUME NEW r \in Requests, NEW column \in {"title", "slug"}, Unique!Check(r, column)
      PROVE  Unique!TypeOK'
  <2>1. [at |-> "open", body |-> req[r].body, unchecked |-> req[r].unchecked \ {column},
         overtaken |-> req[r].overtaken] \in Unique!Request
    <3>1. /\ req[r].body \in Unique!Body /\ req[r].overtaken \in BOOLEAN
          /\ req[r].unchecked \ {column} \in SUBSET {"title", "slug"}
      BY <1>3, CheckStep, OpenFacts
    <3>2. QED
      BY <3>1 DEF Unique!Request
  <2>2. req' \in [Requests -> Unique!Request \cup {Unique!Idle}]
    BY <1>3, <2>1, CheckStep DEF Unique!TypeOK
  <2>3. QED
    BY <1>3, <2>2 DEF Unique!Check, Unique!TypeOK
<1>4. ASSUME NEW r \in Requests, NEW i \in Rows, Unique!Save(r, i) PROVE Unique!TypeOK'
  <2> DEFINE row == Unique!Merged(table[i], req[r].body)
  <2>1. req[r].at = "open" /\ req[r].body \in Unique!Body /\ row \in Unique!Row
    BY <1>4, RowFacts
  <2>2. CASE Unique!Fits(i, row)
    BY <1>4, <2>1, <2>2, WriteStep DEF Unique!TypeOK
  <2>3. CASE ~Unique!Fits(i, row)
    <3>1. [at |-> "failed", body |-> req[r].body, overtaken |-> req[r].overtaken] \in Unique!Request
      BY <2>1, OpenFacts DEF Unique!Request
    <3>2. QED
      BY <1>4, <2>3, <3>1, RefusedStep DEF Unique!TypeOK
  <2>4. QED
    BY <2>2, <2>3
<1>5. CASE UNCHANGED Unique!vars
  BY <1>5 DEF Unique!vars, Unique!TypeOK
<1>6. QED
  BY <1>1, <1>2, <1>3, <1>4, <1>5, NameSteps

(* A name that a request writes, checked and not overtaken, is held by     *)
(* another row only if its own row held it before.                         *)
LEMMA OwnBefore ==
    ASSUME Unique!TypeOK, ChecksHold, BodiesHold,
           NEW r \in Requests, NEW i \in Rows, Unique!Save(r, i), ~req[r].overtaken,
           NEW row, row = Unique!Merged(table[i], req[r].body),
           NEW j \in Unique!Used \ {i}
    PROVE  /\ ~Unique!Derived(req[r].body) /\ row.slug = table[j].slug
                => i \in Unique!Used /\ table[i].slug = table[j].slug
           /\ Unique!TitleChecked /\ row.title = table[j].title
                => i \in Unique!Used /\ table[i].title = table[j].title
<1> DEFINE body == req[r].body
<1>1. /\ req[r].at = "open" /\ req[r].unchecked = {} /\ BodyHolds(body)
      /\ body.id = Unique!New \/ (body.id = i /\ i \in Unique!Used)
      /\ Unique!New \notin Unique!Used
  BY RowFacts, NameFacts DEF Unique!Used
<1>2. ASSUME ~Unique!Derived(body), row.slug = table[j].slug
      PROVE  i \in Unique!Used /\ table[i].slug = table[j].slug
  <2>1. Validated(r, "slug") /\ row.slug = body.slug
    BY <1>1, <1>2, RowFacts DEF Validated, Unique!Value, Unique!Derived
  <2>2. HeldByOwn(r, "slug")
    BY <2>1 DEF ChecksHold
  <2>3. body.id \in Unique!Used /\ table[body.id].slug = body.slug
    BY <1>2, <2>1, <2>2 DEF HeldByOwn, Unique!Holders, Unique!Value, Unique!Column
  <2>4. QED
    BY <1>1, <1>2, <2>1, <2>3
<1>3. ASSUME Unique!TitleChecked, row.title = table[j].title
      PROVE  i \in Unique!Used /\ table[i].title = table[j].title
  <2>1. CASE body.title = Unique!Omitted
    BY <1>1, <1>3, <2>1, RowFacts DEF BodyHolds
  <2>2. CASE body.title # Unique!Omitted
    <3>1. Validated(r, "title") /\ row.title = body.title
      BY <1>1, <1>3, <2>2, RowFacts DEF Validated, Unique!Value
    <3>2. HeldByOwn(r, "title")
      BY <3>1 DEF ChecksHold
    <3>3. body.id \in Unique!Used /\ table[body.id].title = body.title
      BY <1>3, <3>1, <3>2 DEF HeldByOwn, Unique!Holders, Unique!Value, Unique!Column
    <3>4. QED
      BY <1>1, <1>3, <3>1, <3>3
  <2>3. QED
    BY <2>1, <2>2
<1>4. QED
  BY <1>2, <1>3

-----------------------------------------------------------------------------
(* The invariant, one part after the other.                                *)

LEMMA BodiesStep ==
    ASSUME Unique!TypeOK, BodiesHold, [Unique!Next]_Unique!vars
    PROVE  BodiesHold'
<1>1. ASSUME NEW i \in Rows, Unique!SoftDelete(i) PROVE BodiesHold'
  BY <1>1, DeleteStep DEF BodiesHold, BodyHolds
<1>2. ASSUME NEW r \in Requests, NEW body \in Unique!Body, Unique!Acceptable(body),
             Unique!Come(r, body)
      PROVE  BodiesHold'
  <2>1. PICK sent \in Unique!Body, unchecked \in SUBSET {"title", "slug"} :
            /\ req' = [req EXCEPT ![r] = [at |-> "open", body |-> sent, overtaken |-> FALSE,
                                         unchecked |-> unchecked]]
            /\ sent.id = body.id /\ sent.title = body.title
            /\ sent.slug # Unique!Omitted => Slug[sent.slug] = sent.slug
    BY <1>2, ComeStep
  <2>2. BodyHolds(sent)
    BY <1>2, <2>1 DEF BodyHolds, Unique!Acceptable
  <2>3. QED
    BY <2>1, <2>2 DEF BodiesHold, BodyHolds, Unique!TypeOK
<1>3. ASSUME NEW r \in Requests, NEW column \in {"title", "slug"}, Unique!Check(r, column)
      PROVE  BodiesHold'
  BY <1>3, CheckStep, RestFacts DEF BodiesHold, BodyHolds, Unique!TypeOK
<1>4. ASSUME NEW r \in Requests, NEW i \in Rows, Unique!Save(r, i) PROVE BodiesHold'
  <2> DEFINE row == Unique!Merged(table[i], req[r].body)
  <2>1. CASE Unique!Fits(i, row)
    BY <1>4, <2>1, WriteStep DEF BodiesHold, BodyHolds
  <2>2. CASE ~Unique!Fits(i, row)
    BY <1>4, <2>2, RefusedStep DEF BodiesHold, BodyHolds, Unique!TypeOK
  <2>3. QED
    BY <2>1, <2>2
<1>5. CASE UNCHANGED Unique!vars
  BY <1>5 DEF Unique!vars, BodiesHold, BodyHolds
<1>6. QED
  BY <1>1, <1>2, <1>3, <1>4, <1>5, NameSteps

LEMMA ChecksStep ==
    ASSUME Unique!TypeOK, ChecksHold, [Unique!Next]_Unique!vars
    PROVE  ChecksHold'
<1>0. SUFFICES ASSUME NEW q \in Requests, NEW c \in {"title", "slug"}, Validated(q, c)'
               PROVE  HeldByOwn(q, c)'
  BY DEF ChecksHold
<1>1. ASSUME UNCHANGED table, Validated(q, c), req'[q].body = req[q].body
      PROVE  HeldByOwn(q, c)'
  BY <1>1 DEF ChecksHold, HeldByOwn, Unique!Holders, Unique!Value, Unique!Column, Unique!Used
<1>2. ASSUME UNCHANGED <<entity, table>>, req'[q] = req[q] PROVE HeldByOwn(q, c)'
  BY <1>0, <1>1, <1>2 DEF Validated, Unique!Value, Unique!TitleChecked
<1>3. ASSUME NEW i \in Rows, Unique!SoftDelete(i) PROVE HeldByOwn(q, c)'
  <2>1. Validated(q, c)
    BY <1>0, <1>3, DeleteStep DEF Validated, Unique!Value, Unique!TitleChecked
  <2>2. HeldByOwn(q, c)
    BY <2>1 DEF ChecksHold
  <2>3. QED
    BY <1>3, <2>2, DeleteStep
    DEF HeldByOwn, Unique!Holders, Unique!Value, Unique!Column
<1>4. ASSUME NEW r \in Requests, NEW body \in Unique!Body, Unique!Come(r, body)
      PROVE  HeldByOwn(q, c)'
  <2>1. PICK sent \in Unique!Body, unchecked \in SUBSET {"title", "slug"} :
            /\ req' = [req EXCEPT ![r] = [at |-> "open", body |-> sent, overtaken |-> FALSE,
                                         unchecked |-> unchecked]]
            /\ \A d \in {"title", "slug"} :
                  Unique!Value(sent, d) # Unique!Omitted /\ (d = "title" => Unique!TitleChecked)
                      => d \in unchecked
    BY <1>4, ComeStep
  <2>2. UNCHANGED <<entity, table>>
    BY <1>4 DEF Unique!Come
  <2>3. q # r
    BY <1>0, <2>1, <2>2 DEF Validated, Unique!Value, Unique!TitleChecked, Unique!TypeOK
  <2>4. QED
    BY <1>2, <2>1, <2>2, <2>3 DEF Unique!TypeOK
<1>5. ASSUME NEW r \in Requests, NEW column \in {"title", "slug"}, Unique!Check(r, column)
      PROVE  HeldByOwn(q, c)'
  <2>1. UNCHANGED <<entity, table>>
    BY <1>5 DEF Unique!Check
  <2>2. CASE q # r
    BY <1>2, <1>5, <2>1, <2>2, CheckStep DEF Unique!TypeOK
  <2>3. CASE q = r
    <3>1. /\ req[r].at = "open"
          /\ req'[r] = [at |-> "open", body |-> req[r].body,
                        unchecked |-> req[r].unchecked \ {column},
                        overtaken |-> req[r].overtaken]
          /\ HeldByOwn(r, column)
      <4>1. req'[r] # Unique!Idle
        BY <1>0, <2>3, RestFacts DEF Validated
      <4>2. req' # [req EXCEPT ![r] = Unique!Idle]
        BY <4>1 DEF Unique!TypeOK
      <4>3. /\ req[r].at = "open"
            /\ req' = [req EXCEPT ![r] = [at |-> "open", body |-> req[r].body,
                                         unchecked |-> req[r].unchecked \ {column},
                                         overtaken |-> req[r].overtaken]]
        BY <1>5, <4>2, CheckStep
      <4>4. HeldByOwn(r, column)
        BY <1>5, <4>2, CheckStep DEF HeldByOwn
      <4>5. QED
        BY <4>3, <4>4 DEF Unique!TypeOK
    <3>2. CASE c = column
      BY <2>1, <2>3, <3>1, <3>2
      DEF HeldByOwn, Unique!Holders, Unique!Value, Unique!Column, Unique!Used
    <3>3. CASE c # column
      <4>1. Validated(q, c)
        BY <1>0, <2>1, <2>3, <3>1, <3>3 DEF Validated, Unique!Value, Unique!TitleChecked
      <4>2. QED
        BY <1>1, <2>1, <2>3, <3>1, <4>1
    <3>4. QED
      BY <3>2, <3>3
  <2>4. QED
    BY <2>2, <2>3
<1>6. ASSUME NEW r \in Requests, NEW i \in Rows, Unique!Save(r, i) PROVE HeldByOwn(q, c)'
  <2> DEFINE row == Unique!Merged(table[i], req[r].body)
  <2>1. CASE Unique!Fits(i, row)
    <3>1. req'[q].at = "open" => req'[q].overtaken
      BY <1>6, <2>1, WriteStep
    <3>2. QED
      BY <1>0, <3>1 DEF Validated
  <2>2. CASE ~Unique!Fits(i, row)
    <3>1. q # r
      BY <1>0, <1>6, <2>2, RefusedStep DEF Validated, Unique!TypeOK
    <3>2. QED
      BY <1>2, <1>6, <2>2, <3>1, RefusedStep DEF Unique!TypeOK
  <2>3. QED
    BY <2>1, <2>2
<1>7. CASE UNCHANGED Unique!vars
  BY <1>2, <1>7 DEF Unique!vars
<1>8. QED
  BY <1>3, <1>4, <1>5, <1>6, <1>7, NameSteps

(* Where there are indexes, no two rows share a name: each write must fit. *)
LEMMA IndexesStep ==
    ASSUME Unique!TypeOK, BodiesHold, IndexesHold, [Unique!Next]_Unique!vars
    PROVE  IndexesHold'
<1>1. ASSUME NEW i \in Rows, Unique!SoftDelete(i) PROVE IndexesHold'
  BY <1>1, DeleteStep DEF IndexesHold, Unique!Indexed
<1>2. CASE UNCHANGED <<entity, table>>
  BY <1>2 DEF IndexesHold, Unique!Indexed, Unique!Used
<1>3. ASSUME NEW r \in Requests, NEW i \in Rows, Unique!Save(r, i) PROVE IndexesHold'
  <2> DEFINE row == Unique!Merged(table[i], req[r].body)
  <2>1. CASE Unique!Fits(i, row)
    <3>1. /\ entity' = entity /\ table'[i] = row /\ Unique!Used' \subseteq Unique!Used \cup {i}
          /\ \A j \in Rows \ {i} : table'[j] = table[j]
      BY <1>3, <2>1, WriteStep DEF Unique!TypeOK, Unique!Used
    <3>2. Unique!Indexed => \A j \in Unique!Used \ {i} :
                table[j].title # row.title /\ table[j].slug # row.slug
      BY <2>1 DEF Unique!Fits
    <3> HIDE DEF row
    <3>3. QED
      BY <3>1, <3>2 DEF IndexesHold, Unique!Indexed, Unique!Used
  <2>2. QED
    BY <1>2, <1>3, <2>1, RefusedStep
<1>4. QED
  BY <1>1, <1>2, <1>3, NameSteps DEF Unique!Come, Unique!Check, Unique!vars

LEMMA SharedStep ==
    ASSUME Unique!TypeOK, NamesInv, [Unique!Next]_Unique!vars
    PROVE  Unique!SharedOnlyIfExposed'
<1>1. ASSUME NEW i \in Rows, Unique!SoftDelete(i) PROVE Unique!SharedOnlyIfExposed'
  BY <1>1, DeleteStep
  DEF NamesInv, Unique!NamesExplained, Unique!SharedOnlyIfExposed, Unique!TitleChecked
<1>2. CASE UNCHANGED <<entity, table, late, derived>>
  BY <1>2 DEF NamesInv, Unique!NamesExplained, Unique!SharedOnlyIfExposed, Unique!TitleChecked,
              Unique!Used
<1>3. ASSUME NEW r \in Requests, NEW i \in Rows, Unique!Save(r, i)
      PROVE  Unique!SharedOnlyIfExposed'
  <2> DEFINE row == Unique!Merged(table[i], req[r].body)
  <2>1. CASE Unique!Fits(i, row)
    <3>1. /\ entity' = entity /\ table'[i] = row /\ Unique!Used' \subseteq Unique!Used \cup {i}
          /\ \A j \in Rows \ {i} : table'[j] = table[j]
          /\ late \subseteq late' /\ derived \subseteq derived'
          /\ req[r].overtaken => i \in late'
          /\ Unique!Derived(req[r].body) => i \in derived'
      BY <1>3, <2>1, WriteStep DEF Unique!TypeOK, Unique!Used
    <3>2. ASSUME NEW j \in Unique!Used \ {i}, ~req[r].overtaken
          PROVE  /\ ~Unique!Derived(req[r].body) /\ row.slug = table[j].slug
                        => {i, j} \cap (late \cup derived) # {}
                 /\ Unique!TitleChecked /\ row.title = table[j].title => {i, j} \cap late # {}
      BY <1>3, <3>2, OwnBefore DEF NamesInv, Unique!NamesExplained, Unique!SharedOnlyIfExposed
    <3> HIDE DEF row
    <3>3. ASSUME NEW j \in Unique!Used \ {i}
          PROVE  /\ row.slug = table[j].slug => {i, j} \cap (late' \cup derived') # {}
                 /\ Unique!TitleChecked /\ row.title = table[j].title => {i, j} \cap late' # {}
      BY <3>1, <3>2
    <3>4. \A j, k \in Unique!Used : j # k =>
            /\ table[j].slug = table[k].slug => {j, k} \cap (late \cup derived) # {}
            /\ Unique!TitleChecked /\ table[j].title = table[k].title => {j, k} \cap late # {}
      BY DEF NamesInv, Unique!NamesExplained, Unique!SharedOnlyIfExposed
    <3>5. SUFFICES ASSUME NEW j \in Unique!Used', NEW k \in Unique!Used', j # k
                   PROVE  /\ table'[j].slug = table'[k].slug => {j, k} \cap (late' \cup derived') # {}
                          /\ Unique!TitleChecked /\ table'[j].title = table'[k].title
                                => {j, k} \cap late' # {}
      BY <3>1 DEF Unique!SharedOnlyIfExposed, Unique!TitleChecked
    <3>6. CASE j # i /\ k # i
      BY <3>1, <3>4, <3>5, <3>6 DEF Unique!Used
    <3>7. CASE j = i \/ k = i
      BY <3>1, <3>3, <3>5, <3>7 DEF Unique!Used
    <3>8. QED
      BY <3>6, <3>7
  <2>2. QED
    BY <1>2, <1>3, <2>1, RefusedStep
<1>4. QED
  BY <1>1, <1>2, <1>3, NameSteps DEF Unique!Come, Unique!Check, Unique!vars

LEMMA ErrorStep ==
    ASSUME Unique!TypeOK, NamesInv, [Unique!Next]_Unique!vars
    PROVE  Unique!ErrorOnlyIfExposed'
<1>0. SUFFICES ASSUME NEW q \in Requests, req'[q].at = "failed"
               PROVE  req'[q].overtaken \/ Unique!Derived(req'[q].body)
  BY DEF Unique!ErrorOnlyIfExposed, Unique!Derived
<1>1. ASSUME req'[q] = req[q] PROVE req'[q].overtaken \/ Unique!Derived(req'[q].body)
  BY <1>0, <1>1 DEF NamesInv, Unique!NamesExplained, Unique!ErrorOnlyIfExposed
<1>2. ASSUME NEW r \in Requests, NEW body \in Unique!Body, Unique!Come(r, body)
      PROVE  req'[q] = req[q]
  BY <1>0, <1>2, ComeStep DEF Unique!TypeOK
<1>3. ASSUME NEW r \in Requests, NEW column \in {"title", "slug"}, Unique!Check(r, column)
      PROVE  req'[q] = req[q]
  BY <1>0, <1>3, CheckStep, RestFacts DEF Unique!TypeOK
<1>4. ASSUME NEW r \in Requests, NEW i \in Rows, Unique!Save(r, i)
      PROVE  req'[q].overtaken \/ Unique!Derived(req'[q].body)
  <2> DEFINE row == Unique!Merged(table[i], req[r].body)
  <2>1. CASE Unique!Fits(i, row)
    BY <1>0, <1>1, <1>4, <2>1, WriteStep
  <2>2. CASE ~Unique!Fits(i, row)
    <3>1. CASE q # r
      BY <1>1, <1>4, <2>2, <3>1, RefusedStep DEF Unique!TypeOK
    <3>2. PICK j \in Unique!Used \ {i} :
            Unique!Indexed /\ (table[j].title = row.title \/ table[j].slug = row.slug)
      BY <2>2 DEF Unique!Fits
    <3>3. Unique!TitleChecked
      BY <3>2 DEF Unique!Indexed, Unique!TitleChecked
    <3>4. req[r].overtaken \/ Unique!Derived(req[r].body)
      BY <1>4, <3>2, <3>3, OwnBefore DEF NamesInv, IndexesHold
    <3>5. req'[r].overtaken = req[r].overtaken /\ req'[r].body = req[r].body
      BY <1>4, <2>2, RefusedStep DEF Unique!TypeOK
    <3>6. QED
      BY <3>1, <3>4, <3>5
  <2>3. QED
    BY <2>1, <2>2
<1>5. QED
  BY <1>1, <1>2, <1>3, <1>4, NameSteps, DeleteStep DEF Unique!vars

LEMMA NamesInductive == Unique!Spec => []NamesInv
<1>1. ASSUME Unique!Init PROVE NamesInv
  <2>1. Unique!Used = {} /\ \A r \in Requests : req[r] = Unique!Idle
    BY <1>1 DEF Unique!Init, Unique!Used
  <2>2. Unique!TypeOK
    BY <1>1, NameFacts DEF Unique!Init, Unique!TypeOK
  <2>3. QED
    BY <2>1, <2>2, RestFacts
    DEF NamesInv, Unique!NamesExplained, Unique!SharedOnlyIfExposed, Unique!ErrorOnlyIfExposed,
        ChecksHold, Validated, BodiesHold, IndexesHold
<1>2. ASSUME NamesInv, [Unique!Next]_Unique!vars PROVE NamesInv'
  BY <1>2, NameType, BodiesStep, ChecksStep, IndexesStep, SharedStep, ErrorStep
  DEF NamesInv, Unique!NamesExplained
<1>3. QED
  BY <1>1, <1>2, PTL DEF Unique!Spec

(* Of the requests that store titles and slugs, whatever their order: two  *)
(* rows share a name only when one of them was written after another       *)
(* request had written in between, or its slug was made of its title; and  *)
(* an index refuses a write only for one of these reasons.                 *)
THEOREM SharedNames == Unique!Spec => []NamesExplained
  BY NamesInductive, PTL DEF NamesInv, NamesExplained

(* A table with the two indexes never holds two rows of one title or slug; *)
(* and the title or slug that a request has validated is, as long as no    *)
(* other request has written since, held by no row but its own.            *)
THEOREM NamesIndexed == Unique!Spec => [](IndexesHold /\ ChecksHold)
  BY NamesInductive, PTL DEF NamesInv

HIDE ConstantsAssumption

-----------------------------------------------------------------------------
(* Functions that are computed step by step.                               *)

LEMMA LeastOf == ASSUME NEW S \in SUBSET Nat, S # {} PROVE \E m \in S : \A l \in S : m <= l
<1> DEFINE R == {ss \in Nat \X Nat : ss[1] < ss[2]}
<1>1. IsWellFoundedOn(R, Nat)
  BY NatLessThanWellFounded DEF OpToRel
<1>2. \A x, y \in Nat : <<y, x>> \notin R => x <= y
  OBVIOUS
<1> HIDE DEF R
<1>3. \E x \in S : \A y \in S : <<y, x>> \notin R
  BY <1>1, WFMin, Zenon
<1>4. QED
  BY <1>2, <1>3

(* Induction over the numbers from a to n, as a fact about a set.          *)
LEMMA AllFrom ==
    ASSUME NEW a \in Nat, NEW n \in Nat, a <= n, NEW S, a \in S,
           \A k \in a..n : k \in S /\ k < n => k + 1 \in S
    PROVE  \A k \in a..n : k \in S
<1> DEFINE T == {k \in a..n : k \notin S}
<1>1. SUFFICES ASSUME T # {} PROVE FALSE
  OBVIOUS
<1>2. T \in SUBSET Nat
  OBVIOUS
<1>3. PICK m \in T : \A l \in T : m <= l
  BY <1>1, <1>2, LeastOf
<1>4. m \in a..n /\ m \notin S /\ m # a
  BY <1>3
<1> DEFINE p == m - 1
<1>5. p \in a..n /\ p < n /\ p + 1 = m /\ p \in Nat /\ m \in Nat
  BY <1>4
<1> HIDE DEF p
<1>6. p \in S
  <2>1. p \notin T
    BY <1>3, <1>5
  <2>2. QED
    BY <1>5, <2>1
<1>7. p + 1 \in S
  BY <1>5, <1>6
<1>8. QED
  BY <1>4, <1>5, <1>7

Computes(g, V, a, n, base, step) ==
    /\ g \in [a..n -> V] /\ g[a] = base
    /\ \A k \in a..n : k # a => g[k] = step[<<g[k - 1], k>>]

LEMMA Computed ==
    ASSUME NEW V, NEW a \in Nat, NEW n \in Nat, a <= n, NEW base \in V,
           NEW step \in [V \X Nat -> V]
    PROVE  \E g : Computes(g, V, a, n, base, step)
<1> DEFINE S == {m \in Nat : \E g : Computes(g, V, a, m, base, step)}
<1>1. a \in S
  <2> DEFINE g == [k \in a..a |-> base]
  <2>1. Computes(g, V, a, a, base, step)
    BY DEF Computes
  <2>2. QED
    BY <2>1
<1>2. ASSUME NEW m \in a..n, m \in S, m < n PROVE m + 1 \in S
  <2>1. PICK g : Computes(g, V, a, m, base, step)
    BY <1>2
  <2> DEFINE v == step[<<g[m], m + 1>>]
             h == [k \in a..m + 1 |-> IF k = m + 1 THEN v ELSE g[k]]
  <2>2. v \in V /\ m + 1 \in Nat
    <3>1. g[m] \in V /\ m + 1 \in Nat
      BY <2>1 DEF Computes
    <3>2. QED
      BY <3>1
  <2>3. h \in [a..m + 1 -> V] /\ h[a] = base
    <3>1. \A k \in a..m + 1 : k # m + 1 => k \in a..m
      OBVIOUS
    <3> HIDE DEF v
    <3>2. QED
      BY <2>1, <2>2, <3>1 DEF Computes
  <2>4. ASSUME NEW k \in a..m + 1, k # a PROVE h[k] = step[<<h[k - 1], k>>]
    <3>1. k - 1 \in a..m /\ k - 1 \in a..m + 1 /\ k - 1 # m + 1
      BY <2>4
    <3>2. h[k - 1] = g[k - 1]
      BY <3>1
    <3>3. CASE k = m + 1
      <4>1. h[k] = v /\ k - 1 = m
        BY <3>3
      <4>2. QED
        BY <3>2, <3>3, <4>1
    <3>4. CASE k # m + 1
      <4>1. k \in a..m /\ h[k] = g[k]
        BY <3>4
      <4>2. QED
        BY <2>1, <2>4, <3>2, <4>1 DEF Computes
    <3>5. QED
      BY <3>3, <3>4
  <2>5. Computes(h, V, a, m + 1, base, step)
    <3> HIDE DEF h
    <3>1. QED
      BY <2>3, <2>4 DEF Computes
  <2>6. QED
    BY <2>2, <2>5
<1> HIDE DEF S
<1>3. n \in S
  <2>1. \A k \in a..n : k \in S
    BY <1>1, <1>2, AllFrom
  <2>2. QED
    BY <2>1
<1>4. QED
  BY <1>3 DEF S

-----------------------------------------------------------------------------
(* Sums.                                                                   *)

Runs(g, f) ==
    /\ g \in [0..Len(f) -> Nat] /\ g[0] = 0
    /\ \A k \in 1..Len(f) : g[k] = g[k - 1] + f[k]

LEMMA RunExists ==
    ASSUME NEW f \in Seq(Nat)
    PROVE  \E g : /\ g = [k \in 0..Len(f) |-> IF k = 0 THEN 0 ELSE g[k - 1] + f[k]]
                  /\ Runs(g, f)
<1> DEFINE n == Len(f)
           step == [x \in Nat \X Nat |-> IF x[2] \in 1..n THEN x[1] + f[x[2]] ELSE 0]
<1>1. n \in Nat /\ \A k \in 1..n : f[k] \in Nat
  OBVIOUS
<1>2. step \in [Nat \X Nat -> Nat]
  BY <1>1
<1>3. \A v, k \in Nat : k \in 1..n => step[<<v, k>>] = v + f[k]
  OBVIOUS
<1> HIDE DEF n, step
<1>4. PICK g : Computes(g, Nat, 0, n, 0, step)
  <2>1. 0 \in Nat /\ 0 <= n
    BY <1>1
  <2>2. QED
    BY <1>1, <1>2, <2>1, Computed, Zenon
<1>5. g \in [0..n -> Nat] /\ g[0] = 0
  BY <1>4 DEF Computes
<1>6. ASSUME NEW k \in 1..n PROVE g[k] = g[k - 1] + f[k]
  <2>1. k - 1 \in 0..n /\ k \in 0..n /\ k # 0 /\ k \in Nat
    BY <1>1
  <2>2. g[k - 1] \in Nat /\ g[k] = step[<<g[k - 1], k>>]
    BY <1>4, <1>5, <2>1 DEF Computes
  <2>3. QED
    BY <1>3, <2>1, <2>2
<1>7. \A k \in 0..n : g[k] = IF k = 0 THEN 0 ELSE g[k - 1] + f[k]
  BY <1>1, <1>5, <1>6
<1>8. g = [k \in 0..n |-> IF k = 0 THEN 0 ELSE g[k - 1] + f[k]]
  BY <1>5, <1>7
<1>9. Runs(g, f)
  BY <1>5, <1>6 DEF Runs, n
<1>10. QED
  BY <1>8, <1>9 DEF n

RunOf(f) ==
    CHOOSE g : g = [k \in 0..Len(f) |-> IF k = 0 THEN 0 ELSE g[k - 1] + f[k]]

LEMMA SumRun == ASSUME NEW f \in Seq(Nat) PROVE Runs(RunOf(f), f)
<1> DEFINE g == RunOf(f)   n == Len(f)
<1>1. g = [k \in 0..n |-> IF k = 0 THEN 0 ELSE g[k - 1] + f[k]]
  BY RunExists, Zenon DEF RunOf
<1>2. n \in Nat /\ \A k \in 1..n : f[k] \in Nat
  OBVIOUS
<1> HIDE DEF g, n
<1>3. g[0] = 0 /\ 0 \in 0..n
  BY <1>1, <1>2
<1>4. ASSUME NEW k \in 1..n PROVE g[k] = g[k - 1] + f[k]
  BY <1>1, <1>2
<1> DEFINE S == {k \in Nat : g[k] \in Nat}
<1>5. ASSUME NEW k \in 0..n, k \in S, k < n PROVE k + 1 \in S
  <2>1. k + 1 \in 1..n /\ (k + 1) - 1 = k
    BY <1>2, <1>5
  <2>2. g[k + 1] = g[k] + f[k + 1]
    BY <1>4, <2>1
  <2>3. QED
    BY <1>2, <1>5, <2>1, <2>2
<1>6. \A k \in 0..n : g[k] \in Nat
  <2>1. 0 \in S
    BY <1>3
  <2>2. 0 \in Nat /\ 0 <= n
    BY <1>2
  <2>3. \A k \in 0..n : k \in S /\ k < n => k + 1 \in S
    BY <1>5
  <2> HIDE DEF S
  <2>4. \A k \in 0..n : k \in S
    BY <1>2, <2>1, <2>2, <2>3, AllFrom, Zenon
  <2>5. QED
    BY <2>4 DEF S
<1>7. QED
  BY <1>1, <1>3, <1>4, <1>6 DEF Runs, n, g

(* What a sum runs through is determined.                                  *)
LEMMA RunUnique ==
    ASSUME NEW f \in Seq(Nat), NEW g, Runs(g, f)
    PROVE  \A k \in 0..Len(f) : g[k] = RunOf(f)[k]
<1> DEFINE n == Len(f)   h == RunOf(f)
           S == {k \in Nat : g[k] = h[k]}
<1>1. n \in Nat /\ Runs(h, f)
  BY SumRun
<1> HIDE DEF h
<1>2. 0 \in S
  BY <1>1 DEF Runs
<1>3. ASSUME NEW k \in 0..n, k \in S, k < n PROVE k + 1 \in S
  <2>1. k + 1 \in 1..n /\ (k + 1) - 1 = k
    BY <1>1, <1>3
  <2>2. g[k + 1] = g[k] + f[k + 1] /\ h[k + 1] = h[k] + f[k + 1]
    BY <1>1, <2>1 DEF Runs
  <2>3. QED
    BY <1>3, <2>1, <2>2
<1> HIDE DEF S, n
<1>4. \A k \in 0..n : k \in S
  BY <1>1, <1>2, <1>3, AllFrom
<1>5. QED
  BY <1>4 DEF S, n, h

LEMMA SumIsRun == ASSUME NEW f, NEW n PROVE Seo!SumOf(f, n) = RunOf(f)[n]
  BY DEF Seo!SumOf, RunOf

LEMMA SumFacts ==
    ASSUME NEW f \in Seq(Nat)
    PROVE  /\ Seo!SumOf(f, 0) = 0
           /\ \A k \in 0..Len(f) : Seo!SumOf(f, k) \in Nat
           /\ \A k \in 1..Len(f) : Seo!SumOf(f, k) = Seo!SumOf(f, k - 1) + f[k]
  BY SumRun, SumIsRun DEF Runs

(* A sum over a part is at most the sum over the whole.                    *)
LEMMA SumGrows ==
    ASSUME NEW f \in Seq(Nat), NEW i \in 0..Len(f), NEW j \in 0..Len(f), i <= j
    PROVE  Seo!SumOf(f, i) <= Seo!SumOf(f, j)
<1> DEFINE n == Len(f)
           S == {k \in Nat : Seo!SumOf(f, i) <= Seo!SumOf(f, k)}
<1>1. n \in Nat /\ i \in Nat /\ j \in Nat /\ j <= n /\ i <= n
  OBVIOUS
<1>2. \A k \in 0..n : Seo!SumOf(f, k) \in Nat
  BY SumFacts
<1>3. i \in S
  BY <1>1, <1>2
<1>4. ASSUME NEW k \in i..j, k \in S, k < j PROVE k + 1 \in S
  <2>1. k + 1 \in 1..n /\ (k + 1) - 1 = k /\ k \in 0..n /\ k + 1 \in 0..n
    BY <1>1, <1>4
  <2>2. Seo!SumOf(f, k + 1) = Seo!SumOf(f, k) + f[k + 1] /\ f[k + 1] \in Nat
    BY <2>1, SumFacts
  <2>3. Seo!SumOf(f, i) \in Nat /\ Seo!SumOf(f, k) \in Nat
    BY <1>1, <1>2, <2>1
  <2>4. QED
    BY <1>4, <2>1, <2>2, <2>3
<1> HIDE DEF S, n
<1>5. \A k \in i..j : k \in S
  BY <1>1, <1>3, <1>4, AllFrom
<1>6. QED
  BY <1>1, <1>5 DEF S

Sum(f) == Seo!SumOf(f, Len(f))

(* What Cat holds of s: its elements are those of p and then those of q.   *)
Cat(s, p, q) ==
    /\ Len(s) = Len(p) + Len(q)
    /\ \A i \in 1..Len(p) : s[i] = p[i]
    /\ \A i \in 1..Len(s) : i > Len(p) => s[i] = q[i - Len(p)]

LEMMA SumOfParts ==
    ASSUME NEW p \in Seq(Nat), NEW q \in Seq(Nat), NEW s \in Seq(Nat), Cat(s, p, q)
    PROVE  Sum(s) = Sum(p) + Sum(q)
<1> DEFINE m == Len(p)   l == Len(q)   n == Len(s)
           a == RunOf(p)   b == RunOf(q)
           g == [k \in 0..n |-> IF k <= m THEN a[k] ELSE a[m] + b[k - m]]
<1>1. m \in Nat /\ l \in Nat /\ n \in Nat /\ n = m + l
  BY DEF Cat
<1>2. Runs(a, p) /\ Runs(b, q)
  BY SumRun
<1> HIDE DEF a, b
<1>3. /\ a[0] = 0 /\ b[0] = 0
      /\ \A k \in 0..m : a[k] \in Nat
      /\ \A k \in 0..l : b[k] \in Nat
      /\ \A k \in 1..m : a[k] = a[k - 1] + p[k]
      /\ \A k \in 1..l : b[k] = b[k - 1] + q[k]
  BY <1>2 DEF Runs
<1>4. /\ \A i \in 1..m : s[i] = p[i]
      /\ \A i \in 1..n : i > m => s[i] = q[i - m]
  BY DEF Cat
<1> HIDE DEF m, l, n
<1>5. \A k \in 0..n : g[k] \in Nat
  <2> SUFFICES ASSUME NEW k \in 0..n PROVE g[k] \in Nat
    OBVIOUS
  <2>1. CASE k <= m
    BY <1>1, <1>3, <2>1
  <2>2. CASE k > m
    <3>1. k - m \in 0..l /\ m \in 0..m
      BY <1>1, <2>2
    <3>2. a[m] \in Nat /\ b[k - m] \in Nat
      BY <1>3, <3>1
    <3>3. g[k] = a[m] + b[k - m]
      BY <1>1, <2>2
    <3> HIDE DEF g
    <3>4. QED
      BY <3>2, <3>3
  <2>3. QED
    BY <1>1, <2>1, <2>2
<1>6. ASSUME NEW k \in 1..n PROVE g[k] = g[k - 1] + s[k]
  <2>1. k \in Nat /\ k - 1 \in 0..n /\ k \in 0..n
    BY <1>1
  <2>2. CASE k <= m
    <3>1. g[k] = a[k] /\ g[k - 1] = a[k - 1] /\ k \in 1..m
      BY <1>1, <2>1, <2>2
    <3>2. QED
      BY <1>3, <1>4, <3>1
  <2>3. CASE k > m
    <3> DEFINE j == k - m
    <3>1. j \in 1..l /\ j - 1 = (k - 1) - m
      BY <1>1, <2>1, <2>3
    <3>2. g[k] = a[m] + b[j] /\ s[k] = q[j]
      BY <1>1, <1>4, <2>1, <2>3
    <3>3. g[k - 1] = a[m] + b[j - 1]
      <4>1. CASE k - 1 = m
        <5>1. j - 1 = 0 /\ g[k - 1] = a[m]
          BY <1>1, <2>1, <3>1, <4>1
        <5>2. a[m] \in Nat
          BY <1>1, <1>3
        <5> HIDE DEF g, j
        <5>3. QED
          BY <1>3, <5>1, <5>2
      <4>2. CASE k - 1 # m
        <5>1. k - 1 > m
          BY <1>1, <2>1, <2>3, <4>2
        <5>2. g[k - 1] = a[m] + b[(k - 1) - m]
          BY <1>1, <2>1, <5>1
        <5> HIDE DEF g, j
        <5>3. QED
          BY <3>1, <5>2
      <4>3. QED
        BY <4>1, <4>2
    <3>4. b[j] = b[j - 1] + q[j]
      BY <1>3, <3>1
    <3>5. a[m] \in Nat /\ b[j - 1] \in Nat /\ q[j] \in Nat
      <4>1. m \in 0..m /\ j - 1 \in 0..l
        BY <1>1, <3>1
      <4>2. q[j] \in Nat
        BY <3>1 DEF l
      <4> HIDE DEF j
      <4>3. QED
        BY <1>3, <4>1, <4>2
    <3> HIDE DEF g, j
    <3>6. QED
      BY <3>2, <3>3, <3>4, <3>5
  <2>4. QED
    BY <1>1, <2>1, <2>2, <2>3
<1>7. Runs(g, s)
  <2>1. g[0] = 0
    BY <1>1, <1>3
  <2>2. g \in [0..n -> Nat]
    BY <1>5
  <2> HIDE DEF g
  <2>3. QED
    BY <1>6, <2>1, <2>2 DEF Runs, n
<1>8. g[n] = a[m] + b[l]
  <2>1. CASE l = 0
    <3>1. g[n] = a[m] /\ a[m] \in Nat
      BY <1>1, <1>3, <2>1
    <3> HIDE DEF g
    <3>2. QED
      BY <1>3, <2>1, <3>1
  <2>2. CASE l # 0
    <3>1. n > m /\ n - m = l /\ n \in 0..n
      BY <1>1, <2>2
    <3>2. QED
      BY <1>1, <3>1
  <2>3. QED
    BY <2>1, <2>2
<1>9. g[n] = RunOf(s)[n]
  <2> HIDE DEF g
  <2>1. \A k \in 0..n : g[k] = RunOf(s)[k]
    BY <1>7, RunUnique DEF n
  <2>2. QED
    BY <1>1, <2>1
<1> HIDE DEF g
<1>10. QED
  BY <1>8, <1>9, SumIsRun DEF Sum, m, l, n, a, b

LEMMA SumBounds ==
    ASSUME NEW f \in Seq(Nat)
    PROVE  Sum(f) \in Nat /\ (Len(f) = 0 => Sum(f) = 0) /\ (Len(f) = 1 => Sum(f) = f[1])
           /\ (Len(f) = 2 => Sum(f) = f[1] + f[2])
           /\ (Len(f) = 3 => Sum(f) = f[1] + f[2] + f[3])
<1>1. /\ Seo!SumOf(f, 0) = 0
      /\ \A k \in 0..Len(f) : Seo!SumOf(f, k) \in Nat
      /\ \A k \in 1..Len(f) : Seo!SumOf(f, k) = Seo!SumOf(f, k - 1) + f[k]
  BY SumFacts
<1>2. Len(f) \in Nat /\ \A k \in 1..Len(f) : f[k] \in Nat
  OBVIOUS
<1>3. Len(f) >= 1 => Seo!SumOf(f, 1) = f[1] /\ f[1] \in Nat
  <2>1. ASSUME Len(f) >= 1 PROVE Seo!SumOf(f, 1) = Seo!SumOf(f, 0) + f[1] /\ f[1] \in Nat
    <3>1. 1 \in 1..Len(f) /\ 1 - 1 = 0
      BY <1>2, <2>1
    <3>2. QED
      BY <1>1, <1>2, <3>1
  <2>2. QED
    BY <1>1, <2>1
<1>4. Len(f) >= 2 => Seo!SumOf(f, 2) = f[1] + f[2] /\ f[2] \in Nat
  <2>1. ASSUME Len(f) >= 2 PROVE Seo!SumOf(f, 2) = Seo!SumOf(f, 1) + f[2] /\ f[2] \in Nat
    <3>1. 2 \in 1..Len(f) /\ 2 - 1 = 1
      BY <1>2, <2>1
    <3>2. QED
      BY <1>1, <1>2, <3>1
  <2>2. QED
    BY <1>2, <1>3, <2>1
<1>5. Len(f) >= 3 => Seo!SumOf(f, 3) = f[1] + f[2] + f[3]
  <2>1. ASSUME Len(f) >= 3 PROVE Seo!SumOf(f, 3) = Seo!SumOf(f, 2) + f[3]
    <3>1. 3 \in 1..Len(f) /\ 3 - 1 = 2
      BY <1>2, <2>1
    <3>2. QED
      BY <1>1, <3>1
  <2>2. QED
    BY <1>2, <1>4, <2>1
<1>6. Sum(f) = Seo!SumOf(f, Len(f)) /\ Len(f) \in 0..Len(f)
  BY <1>2 DEF Sum
<1>7. Sum(f) \in Nat
  BY <1>1, <1>6
<1>8. (Len(f) = 0 => Sum(f) = 0) /\ (Len(f) = 1 => Sum(f) = f[1])
  BY <1>1, <1>3, <1>6
<1>9. Len(f) = 2 => Sum(f) = f[1] + f[2]
  BY <1>4, <1>6
<1>10. Len(f) = 3 => Sum(f) = f[1] + f[2] + f[3]
  BY <1>5, <1>6
<1>11. QED
  BY <1>7, <1>8, <1>9, <1>10

-----------------------------------------------------------------------------
(* Sequences of pieces.                                                    *)

Piece == {piece \in [from : Nat, to : Nat] : piece.from <= piece.to}

(* Pieces in order from start to end, not empty at either end.             *)
Ordered(p) ==
    /\ p \in Seq(Piece) /\ Len(p) > 0
    /\ \A i, j \in 1..Len(p) : i < j => p[i].to <= p[j].from
Spans(p, start, end) ==
    /\ Ordered(p)
    /\ p[1].from = start /\ p[1].from < p[1].to
    /\ p[Len(p)].to = end /\ p[Len(p)].from < p[Len(p)].to
(* At most count pieces of at most total characters.                       *)
Within(p, count, total) == Len(p) <= count /\ Sum(Seo!CharsOf(p)) <= total

LEMMA CharsFacts ==
    ASSUME NEW p \in Seq(Piece)
    PROVE  /\ Seo!CharsOf(p) \in Seq(Nat) /\ Len(Seo!CharsOf(p)) = Len(p)
           /\ \A i \in 1..Len(p) : Seo!CharsOf(p)[i] = p[i].to - p[i].from
<1>1. \A i \in 1..Len(p) : p[i] \in Piece
  OBVIOUS
<1>2. \A i \in 1..Len(p) : p[i].to - p[i].from \in Nat
  BY <1>1 DEF Piece
<1>3. Seo!CharsOf(p) = [i \in 1..Len(p) |-> p[i].to - p[i].from]
  BY DEF Seo!CharsOf, Seo!Chars
<1>4. QED
  BY <1>2, <1>3

LEMMA PieceFacts ==
    ASSUME NEW piece \in Piece
    PROVE  piece.from \in Nat /\ piece.to \in Nat /\ piece.from <= piece.to
  BY DEF Piece

LEMMA OrderedEnd ==
    ASSUME NEW p, Ordered(p), NEW i \in 1..Len(p)
    PROVE  p[i].to <= p[Len(p)].to
<1>1. Len(p) \in 1..Len(p) /\ p[i] \in Piece /\ p[Len(p)] \in Piece
  BY DEF Ordered
<1>2. i < Len(p) => p[i].to <= p[Len(p)].from
  BY <1>1 DEF Ordered
<1>3. i = Len(p) \/ i < Len(p)
  BY <1>1 DEF Ordered
<1>4. QED
  BY <1>1, <1>2, <1>3, PieceFacts

LEMMA OrderedStart ==
    ASSUME NEW p, Ordered(p), NEW i \in 1..Len(p)
    PROVE  p[1].from <= p[i].from
<1>1. 1 \in 1..Len(p) /\ p[i] \in Piece /\ p[1] \in Piece
  BY DEF Ordered
<1>2. 1 < i => p[1].to <= p[i].from
  BY <1>1 DEF Ordered
<1>3. i = 1 \/ 1 < i
  BY <1>1 DEF Ordered
<1>4. QED
  BY <1>1, <1>2, <1>3, PieceFacts

LEMMA CatFacts ==
    ASSUME NEW V, NEW p \in Seq(V), NEW q \in Seq(V)
    PROVE  p \o q \in Seq(V) /\ Cat(p \o q, p, q)
  BY DEF Cat

LEMMA Joins ==
    ASSUME NEW p, NEW q, NEW s, s \in Seq(Piece), Cat(s, p, q),
           NEW a, NEW b, NEW c, NEW e, Spans(p, a, b), Spans(q, c, e), b <= c
    PROVE  Spans(s, a, e)
<1> DEFINE m == Len(p)   l == Len(q)   n == Len(s)
<1>1. /\ Ordered(p) /\ Ordered(q) /\ p[m].to = b /\ q[1].from = c
      /\ m \in Nat /\ l \in Nat /\ m > 0 /\ l > 0 /\ n = m + l
  BY DEF Spans, Ordered, Cat
<1>2. /\ \A i \in 1..m : s[i] = p[i]
      /\ \A i \in 1..n : i > m => s[i] = q[i - m]
  BY DEF Cat
<1>3. /\ \A i \in 1..m : p[i] \in Piece
      /\ \A i \in 1..l : q[i] \in Piece
  BY DEF Spans, Ordered
<1>4. /\ \A i, j \in 1..m : i < j => p[i].to <= p[j].from
      /\ \A i, j \in 1..l : i < j => q[i].to <= q[j].from
  BY DEF Spans, Ordered
<1>5. /\ \A i \in 1..m : p[i].to <= p[m].to
      /\ \A i \in 1..l : q[1].from <= q[i].from
  BY <1>1, OrderedEnd, OrderedStart
<1>6. m \in 1..m /\ 1 \in 1..l
  BY <1>1
<1> HIDE DEF m, l, n
<1>7. ASSUME NEW i \in 1..n, NEW j \in 1..n, i < j PROVE s[i].to <= s[j].from
  <2>1. CASE j <= m
    <3>1. i \in 1..m /\ j \in 1..m
      BY <1>1, <1>7, <2>1
    <3>2. QED
      BY <1>2, <1>4, <1>7, <3>1
  <2>2. CASE i > m
    <3> DEFINE x == i - m   y == j - m
    <3>1. x \in 1..l /\ y \in 1..l /\ x < y /\ j > m
      BY <1>1, <1>7, <2>2
    <3>2. s[i] = q[x] /\ s[j] = q[y]
      BY <1>2, <2>2, <3>1
    <3> HIDE DEF x, y
    <3>3. QED
      BY <1>4, <3>1, <3>2
  <2>3. CASE i <= m /\ j > m
    <3> DEFINE y == j - m
    <3>1. i \in 1..m /\ y \in 1..l
      BY <1>1, <2>3
    <3>2. s[i] = p[i] /\ s[j] = q[y]
      BY <1>2, <2>3, <3>1
    <3> HIDE DEF y
    <3>3. /\ p[i] \in Piece /\ p[m] \in Piece /\ q[1] \in Piece /\ q[y] \in Piece
      BY <1>3, <1>6, <3>1
    <3>4. p[i].to <= b /\ c <= q[y].from /\ b \in Nat /\ c \in Nat
      BY <1>1, <1>5, <3>1, <3>3, PieceFacts
    <3>5. p[i].to \in Nat /\ q[y].from \in Nat
      BY <3>3, PieceFacts
    <3>6. QED
      BY <3>2, <3>4, <3>5
  <2>4. QED
    BY <1>1, <2>1, <2>2, <2>3
<1>8. Ordered(s)
  BY <1>1, <1>7 DEF Ordered, n
<1>9. s[1] = p[1] /\ s[n] = q[l]
  <2>1. 1 \in 1..m /\ n \in 1..n /\ n > m /\ n - m = l
    BY <1>1
  <2>2. s[n] = q[n - m]
    BY <1>2, <2>1
  <2>3. QED
    BY <1>2, <2>1, <2>2
<1>10. QED
  BY <1>8, <1>9 DEF Spans, m, l, n

LEMMA WithinBoth ==
    ASSUME NEW p \in Seq(Piece), NEW q \in Seq(Piece), NEW s \in Seq(Piece), Cat(s, p, q),
           NEW c \in Nat, NEW d \in Nat, NEW x \in Nat, NEW y \in Nat,
           Within(p, c, x), Within(q, d, y)
    PROVE  Within(s, c + d, x + y)
<1> DEFINE f == Seo!CharsOf(p)   g == Seo!CharsOf(q)   h == Seo!CharsOf(s)
<1>1. /\ f \in Seq(Nat) /\ g \in Seq(Nat) /\ h \in Seq(Nat)
      /\ Len(f) = Len(p) /\ Len(g) = Len(q) /\ Len(h) = Len(s)
      /\ \A i \in 1..Len(p) : f[i] = p[i].to - p[i].from
      /\ \A i \in 1..Len(q) : g[i] = q[i].to - q[i].from
      /\ \A i \in 1..Len(s) : h[i] = s[i].to - s[i].from
  BY CharsFacts
<1> HIDE DEF f, g, h
<1>2. Len(p) \in Nat /\ Len(q) \in Nat /\ Len(s) = Len(p) + Len(q)
  BY DEF Cat
<1>3. \A i \in 1..Len(p) : h[i] = f[i]
  <2> SUFFICES ASSUME NEW i \in 1..Len(p) PROVE h[i] = f[i]
    OBVIOUS
  <2>1. i \in 1..Len(s) /\ s[i] = p[i]
    BY <1>2 DEF Cat
  <2>2. QED
    BY <1>1, <2>1
<1>4. \A i \in 1..Len(s) : i > Len(p) => h[i] = g[i - Len(p)]
  <2> SUFFICES ASSUME NEW i \in 1..Len(s), i > Len(p) PROVE h[i] = g[i - Len(p)]
    OBVIOUS
  <2> DEFINE j == i - Len(p)
  <2>1. j \in 1..Len(q) /\ s[i] = q[j]
    BY <1>2 DEF Cat
  <2> HIDE DEF j
  <2>2. h[i] = g[j]
    BY <1>1, <2>1
  <2>3. QED
    BY <2>2 DEF j
<1>5. Cat(h, f, g)
  BY <1>1, <1>2, <1>3, <1>4 DEF Cat
<1>6. Sum(h) = Sum(f) + Sum(g)
  BY <1>1, <1>5, SumOfParts
<1>7. Sum(f) \in Nat /\ Sum(g) \in Nat
  BY <1>1, SumBounds
<1>8. Sum(f) <= x /\ Sum(g) <= y /\ Len(p) <= c /\ Len(q) <= d
  BY DEF Within, f, g
<1>9. Sum(h) <= x + y /\ Len(s) <= c + d
  BY <1>2, <1>6, <1>7, <1>8
<1>10. QED
  BY <1>9 DEF Within, h

-----------------------------------------------------------------------------
(* The parts of a sequence of sequences, one after the other.              *)

Chained(h, parts) ==
    /\ h[1] = parts[1]
    /\ \A k \in 1..Len(parts) : k # 1 => h[k] = h[k - 1] \o parts[k]

LEMMA ChainExists ==
    ASSUME NEW V, NEW parts \in Seq(Seq(V)), Len(parts) > 0
    PROVE  \E h : h = [i \in 1..Len(parts) |-> IF i = 1 THEN parts[i] ELSE h[i - 1] \o parts[i]]
<1> DEFINE n == Len(parts)
           T == Seq(V)
           step == [x \in T \X Nat |-> IF x[2] \in 1..n THEN x[1] \o parts[x[2]] ELSE x[1]]
<1>1. n \in Nat /\ 1 \in Nat /\ 1 <= n /\ \A k \in 1..n : parts[k] \in T
  OBVIOUS
<1>2. \A v, w \in T : v \o w \in T
  OBVIOUS
<1>3. step \in [T \X Nat -> T]
  <2> HIDE DEF T, n
  <2>1. ASSUME NEW x \in T \X Nat
        PROVE  (IF x[2] \in 1..n THEN x[1] \o parts[x[2]] ELSE x[1]) \in T
    <3>1. x[1] \in T /\ (x[2] \in 1..n => parts[x[2]] \in T)
      BY <1>1
    <3>2. x[2] \in 1..n => x[1] \o parts[x[2]] \in T
      BY <1>2, <3>1, Zenon
    <3>3. QED
      BY <3>1, <3>2
  <2>2. QED
    BY <2>1
<1>4. \A v \in T, k \in 1..n : step[<<v, k>>] = v \o parts[k]
  <2> HIDE DEF T, n
  <2> SUFFICES ASSUME NEW v \in T, NEW k \in 1..n PROVE step[<<v, k>>] = v \o parts[k]
    OBVIOUS
  <2>1. <<v, k>> \in T \X Nat /\ <<v, k>>[1] = v /\ <<v, k>>[2] = k
    BY <1>1
  <2>2. QED
    BY <2>1
<1> HIDE DEF T, n, step
<1>5. PICK h : Computes(h, T, 1, n, parts[1], step)
  <2>1. parts[1] \in T
    BY <1>1
  <2>2. QED
    BY <1>1, <1>3, <2>1, Computed, Zenon
<1>6. h \in [1..n -> T] /\ h[1] = parts[1]
  BY <1>5 DEF Computes
<1>7. ASSUME NEW i \in 1..n, i # 1 PROVE h[i] = h[i - 1] \o parts[i]
  <2>1. i - 1 \in 1..n
    BY <1>1, <1>7
  <2>2. h[i - 1] \in T /\ h[i] = step[<<h[i - 1], i>>]
    BY <1>5, <1>6, <1>7, <2>1 DEF Computes
  <2>3. QED
    BY <1>4, <2>2
<1>8. \A i \in 1..n : h[i] = IF i = 1 THEN parts[i] ELSE h[i - 1] \o parts[i]
  BY <1>6, <1>7
<1>9. h = [i \in 1..n |-> IF i = 1 THEN parts[i] ELSE h[i - 1] \o parts[i]]
  BY <1>6, <1>8
<1>10. QED
  BY <1>9 DEF n

LEMMA FlattenFacts ==
    ASSUME NEW V, NEW parts \in Seq(Seq(V)), Len(parts) > 0
    PROVE  \E h : Chained(h, parts) /\ Seo!FlattenSeq(parts) = h[Len(parts)]
<1> DEFINE n == Len(parts)
           h == CHOOSE h :
                  h = [i \in 1..n |-> IF i = 1 THEN parts[i] ELSE h[i - 1] \o parts[i]]
<1>1. h = [i \in 1..n |-> IF i = 1 THEN parts[i] ELSE h[i - 1] \o parts[i]]
  BY ChainExists, Zenon
<1>2. Seo!FlattenSeq(parts) = h[n]
  BY DEF Seo!FlattenSeq
<1>3. n \in Nat /\ 1 \in 1..n
  OBVIOUS
<1> HIDE DEF h, n
<1>4. Chained(h, parts)
  <2>1. h[1] = parts[1]
    BY <1>1, <1>3
  <2>2. \A k \in 1..n : k # 1 => h[k] = h[k - 1] \o parts[k]
    BY <1>1, <1>3
  <2>3. QED
    BY <2>1, <2>2 DEF Chained, n
<1>5. QED
  BY <1>2, <1>4 DEF n

(* Pieces of every part, from where the part begins to where it ends.      *)
LEMMA ChainSpans ==
    ASSUME NEW parts \in Seq(Seq(Piece)), NEW n \in Nat, n = Len(parts), n > 0,
           NEW from, NEW to, NEW b \in Nat,
           \A k \in 1..n : to[k] \in Nat /\ from[k] \in Nat,
           \A k \in 1..n : Spans(parts[k], from[k], to[k]) /\ Within(parts[k], 2, b),
           \A k \in 1..n : k < n => to[k] <= from[k + 1]
    PROVE  /\ Seo!FlattenSeq(parts) \in Seq(Piece)
           /\ Spans(Seo!FlattenSeq(parts), from[1], to[n])
           /\ Within(Seo!FlattenSeq(parts), 2 * n, n * b)
<1>1. PICK h : Chained(h, parts) /\ Seo!FlattenSeq(parts) = h[n]
  BY FlattenFacts
<1> DEFINE S == {k \in Nat : /\ h[k] \in Seq(Piece) /\ Spans(h[k], from[1], to[k])
                             /\ Within(h[k], 2 * k, k * b)}
<1>2. \A k \in 1..n : parts[k] \in Seq(Piece)
  OBVIOUS
<1>3. 1 \in S
  <2>1. 1 \in 1..n /\ h[1] = parts[1] /\ 2 * 1 = 2 /\ 1 * b = b
    BY <1>1 DEF Chained
  <2>2. QED
    BY <1>2, <2>1
<1>4. ASSUME NEW k \in 1..n, k \in S, k < n PROVE k + 1 \in S
  <2> DEFINE l == k + 1
  <2>1. l \in 1..n /\ l # 1 /\ l - 1 = k /\ l \in Nat /\ k \in Nat
    BY <1>4
  <2>2. h[l] = h[k] \o parts[l]
    BY <1>1, <2>1 DEF Chained
  <2>3. parts[l] \in Seq(Piece) /\ h[k] \in Seq(Piece)
    BY <1>2, <1>4, <2>1
  <2>4. h[l] \in Seq(Piece) /\ Cat(h[l], h[k], parts[l])
    <3> HIDE DEF l
    <3>1. h[k] \o parts[l] \in Seq(Piece) /\ Cat(h[k] \o parts[l], h[k], parts[l])
      BY <2>3, CatFacts, Zenon
    <3>2. QED
      BY <2>2, <3>1, Zenon
  <2>5. to[k] <= from[l] /\ Spans(parts[l], from[l], to[l]) /\ Within(parts[l], 2, b)
    BY <1>4, <2>1
  <2>6. Spans(h[k], from[1], to[k]) /\ Within(h[k], 2 * k, k * b)
    BY <1>4
  <2>7. 2 * k \in Nat /\ k * b \in Nat /\ 2 \in Nat /\ 2 * k + 2 = 2 * l /\ k * b + b = l * b
    BY <2>1
  <2> HIDE DEF l
  <2>8. Spans(h[l], from[1], to[l])
    BY <2>4, <2>5, <2>6, Joins, Zenon
  <2>9. Within(h[l], 2 * k + 2, k * b + b)
    BY <2>3, <2>4, <2>5, <2>6, <2>7, WithinBoth, Zenon
  <2>10. Within(h[l], 2 * l, l * b)
    BY <2>7, <2>9, Zenon
  <2>11. l \in S
    BY <2>1, <2>4, <2>8, <2>10
  <2>12. QED
    BY <2>11 DEF l
<1>5. 1 \in Nat /\ 1 <= n /\ n \in 1..n
  OBVIOUS
<1> HIDE DEF S
<1>6. n \in S
  <2>1. \A k \in 1..n : k \in S
    BY <1>3, <1>4, <1>5, AllFrom
  <2>2. QED
    BY <1>5, <2>1
<1>7. QED
  BY <1>1, <1>6 DEF S

-----------------------------------------------------------------------------
(* The sections of a text.                                                 *)

IsText == doc \in Seq(Seo!Section)
IsLimit == maxChars \in Nat /\ maxChars >= 1308

LEMMA LengthsFacts ==
    ASSUME IsText
    PROVE  /\ Len(doc) \in Nat /\ Seo!Lengths \in Seq(Nat) /\ Len(Seo!Lengths) = Len(doc)
           /\ \A s \in 1..Len(doc) : /\ doc[s].head \in Nat /\ doc[s].body \in Nat
                                     /\ Seo!Lengths[s] = Seo!SectionLength(s)
                                     /\ Seo!SectionLength(s) \in Nat
                                     /\ Seo!SectionLength(s) > 0
<1>1. Len(doc) \in Nat /\ \A s \in 1..Len(doc) : doc[s] \in Seo!Section
  BY DEF IsText
<1>2. \A s \in 1..Len(doc) : doc[s].head \in Nat /\ doc[s].body \in Nat
                             /\ doc[s].head + doc[s].body > 0
  BY <1>1 DEF Seo!Section
<1>3. \A s \in 1..Len(doc) : Seo!SectionLength(s) \in Nat /\ Seo!SectionLength(s) > 0
  BY <1>2 DEF Seo!SectionLength
<1>4. Seo!Lengths = [s \in 1..Len(doc) |-> Seo!SectionLength(s)]
  BY DEF Seo!Lengths
<1>5. Seo!Lengths \in Seq(Nat) /\ Len(Seo!Lengths) = Len(doc)
  BY <1>1, <1>3, <1>4
<1>6. QED
  BY <1>1, <1>2, <1>3, <1>4, <1>5

End(s) == Seo!From(s) + Seo!SectionLength(s)

(* A section ends where the next begins, the first begins the text and the *)
(* last ends it.                                                           *)
LEMMA SectionsFollow ==
    ASSUME IsText
    PROVE  /\ Seo!TextLength \in Nat
           /\ \A s \in 1..Len(doc) : Seo!From(s) \in Nat /\ End(s) \in Nat
           /\ \A s, t \in 1..Len(doc) : s < t => End(s) <= Seo!From(t)
           /\ Len(doc) > 0 => /\ Seo!From(1) = 0 /\ End(Len(doc)) = Seo!TextLength
                              /\ Seo!TextLength > 0
           /\ Len(doc) = 0 => Seo!TextLength = 0
<1> DEFINE f == Seo!Lengths   n == Len(doc)
<1>1. /\ n \in Nat /\ f \in Seq(Nat) /\ Len(f) = n
      /\ \A s \in 1..n : /\ f[s] = Seo!SectionLength(s) /\ Seo!SectionLength(s) \in Nat
                         /\ Seo!SectionLength(s) > 0
  BY LengthsFacts
<1> HIDE DEF f, n
<1>2. /\ Seo!SumOf(f, 0) = 0
      /\ \A k \in 0..n : Seo!SumOf(f, k) \in Nat
      /\ \A k \in 1..n : Seo!SumOf(f, k) = Seo!SumOf(f, k - 1) + f[k]
  BY <1>1, SumFacts
<1>3. Seo!TextLength = Seo!SumOf(f, n) /\ \A s : Seo!From(s) = Seo!SumOf(f, s - 1)
  BY DEF Seo!TextLength, Seo!From, f, n
<1>4. ASSUME NEW s \in 1..n
      PROVE  Seo!From(s) \in Nat /\ End(s) \in Nat /\ End(s) = Seo!SumOf(f, s)
  <2>1. s - 1 \in 0..n /\ Seo!From(s) = Seo!SumOf(f, s - 1)
    BY <1>1, <1>3
  <2>2. QED
    BY <1>1, <1>2, <2>1 DEF End
<1>5. ASSUME NEW s \in 1..n, NEW t \in 1..n, s < t PROVE End(s) <= Seo!From(t)
  <2> DEFINE u == t - 1
  <2>1. s \in 0..n /\ u \in 0..n /\ s <= u
    BY <1>1, <1>5
  <2> HIDE DEF u
  <2>2. Seo!SumOf(f, s) <= Seo!SumOf(f, u)
    BY <1>1, <2>1, SumGrows
  <2>3. QED
    BY <1>3, <1>4, <2>2 DEF u
<1>6. ASSUME n > 0 PROVE /\ Seo!From(1) = 0 /\ End(n) = Seo!TextLength /\ Seo!TextLength > 0
  <2>1. 1 \in 1..n /\ n \in 1..n /\ 1 - 1 = 0
    BY <1>1, <1>6
  <2>2. Seo!From(1) = 0 /\ End(n) = Seo!TextLength
    BY <1>2, <1>3, <1>4, <2>1
  <2>3. Seo!From(n) \in Nat /\ Seo!SectionLength(n) \in Nat /\ Seo!SectionLength(n) > 0
    BY <1>1, <1>4, <2>1
  <2>4. QED
    BY <2>2, <2>3 DEF End
<1>7. Seo!TextLength \in Nat /\ (n = 0 => Seo!TextLength = 0)
  BY <1>1, <1>2, <1>3
<1>8. QED
  BY <1>4, <1>5, <1>6, <1>7 DEF n

At(from, to) == [from |-> from, to |-> to]
Cuts(a, b, c, d) == <<At(a, b), At(c, d)>>

LEMMA SliceFacts ==
    ASSUME NEW start \in Nat, NEW length \in Nat, NEW a \in Nat, NEW b \in Nat,
           a <= b, b <= length
    PROVE  Seo!Slice(start, length, a, b) = At(start + a, start + b)
<1>1. Seo!Index(length, a) = a /\ Seo!Index(length, b) = b
  BY DEF Seo!Index, Seo!Least
<1>2. Seo!Greater(a, b) = b
  BY DEF Seo!Greater
<1>3. QED
  BY <1>1, <1>2 DEF Seo!Slice, At

LEMMA LastOfFacts ==
    ASSUME NEW start \in Nat, NEW length \in Nat, NEW size \in Nat, size > 0, size <= length
    PROVE  Seo!LastOf(start, length, size)
             = At(start + (length - size), start + length)
<1>1. Seo!Index(length, -size) = length - size /\ Seo!Index(length, length) = length
  BY DEF Seo!Index, Seo!Least, Seo!Greater
<1>2. Seo!Greater(length - size, length) = length
  BY DEF Seo!Greater
<1>3. QED
  BY <1>1, <1>2 DEF Seo!Slice, Seo!LastOf, At

LEMMA OnePiece ==
    ASSUME NEW a \in Nat, NEW b \in Nat, a < b, NEW p, p = <<At(a, b)>>
    PROVE  p \in Seq(Piece) /\ Spans(p, a, b) /\ Len(p) = 1 /\ Sum(Seo!CharsOf(p)) = b - a
<1>1. At(a, b) \in Piece /\ At(a, b).from = a /\ At(a, b).to = b
  BY DEF Piece, At
<1>2. p \in Seq(Piece) /\ Len(p) = 1 /\ p[1].from = a /\ p[1].to = b
  BY <1>1
<1>3. Ordered(p)
  BY <1>2 DEF Ordered
<1>4. Spans(p, a, b)
  BY <1>2, <1>3 DEF Spans
<1>5. Sum(Seo!CharsOf(p)) = p[1].to - p[1].from
  <2>1. /\ Seo!CharsOf(p) \in Seq(Nat) /\ Len(Seo!CharsOf(p)) = Len(p)
        /\ \A i \in 1..Len(p) : Seo!CharsOf(p)[i] = p[i].to - p[i].from
    BY <1>2, CharsFacts, Zenon
  <2>2. 1 \in 1..Len(p)
    BY <1>2
  <2>3. Len(Seo!CharsOf(p)) = 1 /\ Seo!CharsOf(p)[1] = p[1].to - p[1].from
    BY <1>2, <2>1, <2>2, Zenon
  <2>4. QED
    BY <2>1, <2>3, SumBounds, Zenon
<1>6. QED
  BY <1>2, <1>4, <1>5

LEMMA TwoPieces ==
    ASSUME NEW a \in Nat, NEW b \in Nat, NEW c \in Nat, NEW d \in Nat, a < b, b <= c, c < d,
           NEW p, p = Cuts(a, b, c, d)
    PROVE  /\ p \in Seq(Piece) /\ Spans(p, a, d) /\ Len(p) = 2
           /\ Sum(Seo!CharsOf(p)) = (b - a) + (d - c)
<1>1. At(a, b) \in Piece /\ At(c, d) \in Piece
  BY DEF Piece, At
<1>2. p \in Seq(Piece) /\ Len(p) = 2
  BY <1>1 DEF Cuts
<1>3. p[1].from = a /\ p[1].to = b /\ p[2].from = c /\ p[2].to = d
  BY DEF At, Cuts
<1>4. Ordered(p)
  BY <1>2, <1>3 DEF Ordered
<1>5. Spans(p, a, d)
  BY <1>2, <1>3, <1>4 DEF Spans
<1>6. Sum(Seo!CharsOf(p)) = (p[1].to - p[1].from) + (p[2].to - p[2].from)
  <2>1. /\ Seo!CharsOf(p) \in Seq(Nat) /\ Len(Seo!CharsOf(p)) = Len(p)
        /\ \A i \in 1..Len(p) : Seo!CharsOf(p)[i] = p[i].to - p[i].from
    BY <1>2, CharsFacts, Zenon
  <2>2. 1 \in 1..Len(p) /\ 2 \in 1..Len(p)
    BY <1>2
  <2>3. /\ Len(Seo!CharsOf(p)) = 2
        /\ Seo!CharsOf(p)[1] = p[1].to - p[1].from
        /\ Seo!CharsOf(p)[2] = p[2].to - p[2].from
    BY <1>2, <2>1, <2>2, Zenon
  <2>4. Sum(Seo!CharsOf(p)) = Seo!CharsOf(p)[1] + Seo!CharsOf(p)[2]
    BY <2>1, <2>3, SumBounds, Zenon
  <2>5. QED
    BY <2>3, <2>4, Zenon
<1>7. QED
  BY <1>2, <1>3, <1>5, <1>6

(* An excerpt shows both ends of its section and is within the budget.     *)
LEMMA ExcerptFacts ==
    ASSUME IsText, NEW s \in 1..Len(doc), NEW b \in Nat, b >= 2
    PROVE  /\ Seo!Excerpt(s, b) \in Seq(Piece)
           /\ Spans(Seo!Excerpt(s, b), Seo!From(s), End(s)) /\ Within(Seo!Excerpt(s, b), 2, b)
<1> DEFINE F == Seo!From(s)   L == Seo!SectionLength(s)   e == Seo!Excerpt(s, b)
<1>1. F \in Nat /\ L \in Nat /\ L > 0 /\ End(s) = F + L
  BY SectionsFollow, LengthsFacts DEF End
<1>2. e = IF L <= b THEN <<Seo!Slice(F, L, 0, L)>>
          ELSE <<Seo!Slice(F, L, 0, (b + 1) \div 2), Seo!LastOf(F, L, b \div 2)>>
  BY DEF Seo!Excerpt
<1> HIDE DEF F, L, e
<1>3. CASE L <= b
  <2>1. Seo!Slice(F, L, 0, L) = At(F, F + L)
    <3>1. 0 \in Nat /\ 0 <= L /\ L <= L /\ F + 0 = F
      BY <1>1
    <3>2. Seo!Slice(F, L, 0, L) = At(F + 0, F + L)
      BY <1>1, <3>1, SliceFacts, Zenon
    <3>3. QED
      BY <3>1, <3>2, Zenon
  <2>2. e = <<At(F, F + L)>> /\ F + L \in Nat /\ F < F + L
    BY <1>1, <1>2, <1>3, <2>1
  <2>3. e \in Seq(Piece) /\ Spans(e, F, F + L) /\ Len(e) = 1 /\ Sum(Seo!CharsOf(e)) = (F + L) - F
    BY <1>1, <2>2, OnePiece
  <2>4. Within(e, 2, b)
    BY <1>1, <1>3, <2>3 DEF Within
  <2>5. QED
    BY <1>1, <2>3, <2>4 DEF F, L, e
<1>4. CASE L > b
  <2> DEFINE x == (b + 1) \div 2   y == b \div 2
  <2>1. x \in Nat /\ y \in Nat /\ x > 0 /\ y > 0 /\ x + y = b
    OBVIOUS
  <2>2. e = <<Seo!Slice(F, L, 0, x), Seo!LastOf(F, L, y)>>
    BY <1>1, <1>2, <1>4
  <2> HIDE DEF x, y
  <2> DEFINE c == F + (L - y)
  <2>3. Seo!Slice(F, L, 0, x) = At(F, F + x)
    <3>1. /\ F \in Nat /\ L \in Nat /\ 0 \in Nat /\ x \in Nat
          /\ 0 <= x /\ x <= L
      BY <1>1, <1>4, <2>1
    <3>2. Seo!Slice(F, L, 0, x) = At(F + 0, F + x)
      BY <3>1, SliceFacts
    <3>3. F + 0 = F
      BY <3>1
    <3>4. QED
      BY <3>2, <3>3, Zenon
  <2>4. Seo!LastOf(F, L, y) = At(c, F + L)
    BY <1>1, <1>4, <2>1, LastOfFacts
  <2>5. /\ F + x \in Nat /\ c \in Nat /\ F + L \in Nat /\ F < F + x /\ F + x <= c /\ c < F + L
        /\ ((F + x) - F) + ((F + L) - c) = b
    BY <1>1, <1>4, <2>1
  <2>6. e = <<At(F, F + x), At(c, F + L)>>
    BY <2>2, <2>3, <2>4
  <2> DEFINE d == F + x   g == F + L
  <2>10. d \in Nat /\ c \in Nat /\ g \in Nat /\ F \in Nat /\ F < d /\ d <= c /\ c < g
    BY <1>1, <2>5
  <2>11. e = Cuts(F, d, c, g) /\ (d - F) + (g - c) = b
    BY <2>5, <2>6 DEF Cuts
  <2> HIDE DEF c, d, g
  <2>7. /\ e \in Seq(Piece) /\ Spans(e, F, g) /\ Len(e) = 2
        /\ Sum(Seo!CharsOf(e)) = (d - F) + (g - c)
    BY <2>10, <2>11, TwoPieces
  <2>8. Within(e, 2, b)
    BY <2>11, <2>7 DEF Within
  <2>9. QED
    BY <1>1, <2>7, <2>8 DEF F, L, e, g
<1>5. QED
  BY <1>1, <1>3, <1>4

-----------------------------------------------------------------------------
(* The numbers.                                                            *)

LEMMA OutlineFacts ==
    ASSUME IsText, IsLimit
    PROVE  Seo!Outline \in Nat /\ Seo!Outline <= 23 + maxChars \div 5
<1> DEFINE f == [s \in 1..Len(doc) |-> IF s \in Seo!Headings THEN doc[s].head + 1 ELSE 0]
<1>1. f \in Seq(Nat) /\ Len(f) = Len(doc) /\ Len(doc) \in Nat
  BY LengthsFacts
<1> HIDE DEF f
<1>2. Seo!SumOf(f, Len(doc)) \in Nat
  BY <1>1, SumFacts
<1>3. Seo!Joined = Seo!SumOf(f, Len(doc)) - 1
  BY DEF Seo!Joined, f
<1>4. Seo!Joined \in Int /\ Seo!Joined >= -1
  BY <1>2, <1>3
<1> DEFINE k == maxChars \div 5
<1>5. k \in Nat
  BY DEF IsLimit
<1> HIDE DEF k
<1>6. Seo!Least(Seo!Joined, k) \in Int /\ Seo!Least(Seo!Joined, k) >= -1
      /\ Seo!Least(Seo!Joined, k) <= k
  BY <1>4, <1>5 DEF Seo!Least
<1>7. Seo!Outline = IF Seo!Headings = {} THEN 0 ELSE 21 + 2 + Seo!Least(Seo!Joined, k)
  BY DEF Seo!Outline, Seo!OutlineTitle, Seo!OutlineEnd, k
<1>8. QED
  BY <1>5, <1>6, <1>7 DEF k

LEMMA DivFacts ==
    ASSUME NEW x \in Nat, NEW n \in Nat, n > 0
    PROVE  x \div n \in Nat /\ n * (x \div n) <= x /\ x < n * (x \div n) + n
  OBVIOUS

Room(n) == maxChars - Seo!Outline - 32 * (2 * n - 1)

(* Two characters remain for each of up to 16 sections.                    *)
LEMMA RoomFacts ==
    ASSUME IsText, IsLimit, NEW n \in 1..16
    PROVE  /\ Room(n) \in Nat /\ Room(n) <= maxChars
           /\ Room(n) \div n \in Nat /\ Room(n) \div n >= 2
           /\ n * (Room(n) \div n) <= Room(n)
<1>1. maxChars \in Nat /\ maxChars >= 1308 /\ Seo!Outline \in Nat
      /\ Seo!Outline <= 23 + maxChars \div 5
  BY OutlineFacts DEF IsLimit
<1>2. Room(n) \in Nat /\ Room(n) <= maxChars /\ Room(n) >= 2 * n
  BY <1>1 DEF Room
<1> DEFINE x == Room(n)   q == Room(n) \div n
<1>3. q \in Nat /\ n * q <= x /\ x < n * q + n
  BY <1>2, DivFacts
<1>4. x \in Nat /\ x >= 2 * n /\ n \in Nat /\ n > 0
  BY <1>2
<1> HIDE DEF x, q
<1>5. q >= 2
  <2>1. CASE q = 0
    BY <1>3, <1>4, <2>1
  <2>2. CASE q = 1
    BY <1>3, <1>4, <2>2
  <2>3. QED
    BY <1>3, <2>1, <2>2
<1>6. QED
  BY <1>2, <1>3, <1>5 DEF x, q

(* The sample goes forward, from the first section to the last.            *)
LEMMA SampledFacts ==
    ASSUME NEW m \in Nat, m = Len(doc) - 1, Len(doc) \in Nat, m >= 16
    PROVE  /\ \A i \in 1..16 : Seo!Sampled(i) \in 1..Len(doc)
           /\ \A i \in 1..15 : Seo!Sampled(i) < Seo!Sampled(i + 1)
           /\ Seo!Sampled(1) = 1 /\ Seo!Sampled(16) = Len(doc)
<1> DEFINE a(i) == 2 * (i - 1) * m + 15
<1>1. ASSUME NEW i \in 1..16
      PROVE  Seo!Sampled(i) = 1 + a(i) \div 30 /\ a(i) \in Nat
             /\ a(i) <= 30 * m + 15 /\ a(i + 1) = a(i) + 2 * m
  <2>1. Seo!Sampled(i) = 1 + (2 * (i - 1) * (Len(doc) - 1) + 15) \div 30
    BY DEF Seo!Sampled, Seo!MaxSections
  <2>2. (i - 1) * m \in Nat /\ (i - 1) * m <= 15 * m /\ ((i + 1) - 1) * m = (i - 1) * m + m
    BY SMTT(30)
  <2>3. 2 * (i - 1) * m = 2 * ((i - 1) * m) /\ 2 * ((i + 1) - 1) * m = 2 * (((i + 1) - 1) * m)
    OBVIOUS
  <2>4. QED
    BY <2>1, <2>2, <2>3
<1>2. a(1) = 15 /\ a(16) = 30 * m + 15
  OBVIOUS
<1> HIDE DEF a
<1>3. ASSUME NEW x \in Nat
      PROVE  30 * (x \div 30) <= x /\ x < 30 * (x \div 30) + 30 /\ x \div 30 \in Nat
  OBVIOUS
<1>4. ASSUME NEW i \in 1..16 PROVE Seo!Sampled(i) \in 1..Len(doc)
  <2> DEFINE q == a(i) \div 30
  <2>1. 30 * q <= a(i) /\ q \in Nat /\ a(i) <= 30 * m + 15 /\ a(i) \in Nat
    BY <1>1, <1>3
  <2>2. Seo!Sampled(i) = 1 + q
    BY <1>1
  <2> HIDE DEF q
  <2>3. QED
    BY <2>1, <2>2
<1>5. ASSUME NEW i \in 1..15 PROVE Seo!Sampled(i) < Seo!Sampled(i + 1)
  <2> DEFINE q == a(i) \div 30   r == a(i + 1) \div 30
  <2>1. i \in 1..16 /\ i + 1 \in 1..16
    OBVIOUS
  <2>2. /\ 30 * q <= a(i) /\ q \in Nat /\ a(i + 1) < 30 * r + 30 /\ r \in Nat
        /\ a(i + 1) = a(i) + 2 * m /\ a(i) \in Nat
    BY <1>1, <1>3, <2>1
  <2>3. Seo!Sampled(i) = 1 + q /\ Seo!Sampled(i + 1) = 1 + r
    BY <1>1, <2>1
  <2> HIDE DEF q, r
  <2>4. QED
    BY <2>2, <2>3
<1>6. Seo!Sampled(1) = 1 /\ Seo!Sampled(16) = Len(doc)
  <2>1. 15 \div 30 = 0 /\ (30 * m + 15) \div 30 = m
    OBVIOUS
  <2>2. Seo!Sampled(1) = 1 + a(1) \div 30 /\ Seo!Sampled(16) = 1 + a(16) \div 30
    BY <1>1
  <2>3. QED
    BY <1>2, <2>1, <2>2
<1>7. QED
  BY <1>4, <1>5, <1>6

LEMMA SelectedFacts ==
    ASSUME IsText, Len(doc) > 0
    PROVE  /\ Seo!Selected \in Seq(1..Len(doc)) /\ Len(Seo!Selected) \in 1..16
           /\ Len(Seo!Selected) = 1 => Len(doc) = 1
           /\ \A i \in 1..Len(Seo!Selected) : i < Len(Seo!Selected) =>
                Seo!Selected[i] < Seo!Selected[i + 1]
           /\ Seo!Selected[1] = 1 /\ Seo!Selected[Len(Seo!Selected)] = Len(doc)
<1>1. Len(doc) \in Nat
  BY LengthsFacts
<1>2. CASE Len(doc) > 16
  <2> DEFINE m == Len(doc) - 1
  <2>1. m \in Nat /\ m >= 16
    BY <1>1, <1>2
  <2>2. /\ \A i \in 1..16 : Seo!Sampled(i) \in 1..Len(doc)
        /\ \A i \in 1..15 : Seo!Sampled(i) < Seo!Sampled(i + 1)
        /\ Seo!Sampled(1) = 1 /\ Seo!Sampled(16) = Len(doc)
    BY <1>1, <2>1, SampledFacts
  <2>3. Seo!Selected = [i \in 1..16 |-> Seo!Sampled(i)]
    BY <1>2 DEF Seo!Selected, Seo!MaxSections
  <2>4. Seo!Selected \in Seq(1..Len(doc)) /\ Len(Seo!Selected) = 16
    BY <2>2, <2>3
  <2>5. \A i \in 1..16 : Seo!Selected[i] = Seo!Sampled(i)
    BY <2>3
  <2>6. ASSUME NEW i \in 1..16, i < 16 PROVE Seo!Selected[i] < Seo!Selected[i + 1]
    <3>1. i \in 1..15 /\ i + 1 \in 1..16
      BY <2>6
    <3>2. Seo!Sampled(i) < Seo!Sampled(i + 1)
      BY <2>2, <3>1
    <3>3. QED
      BY <2>5, <3>1, <3>2, Zenon
  <2>7. Seo!Selected[1] = 1 /\ Seo!Selected[16] = Len(doc)
    <3>1. 1 \in 1..16 /\ 16 \in 1..16
      OBVIOUS
    <3>2. QED
      BY <2>2, <2>5, <3>1, Zenon
  <2>8. Len(Seo!Selected) \in 1..16 /\ Len(Seo!Selected) # 1
    BY <2>4
  <2>9. QED
    BY <2>4, <2>6, <2>7, <2>8
<1>3. CASE Len(doc) <= 16
  <2>1. Seo!Selected = [i \in 1..Len(doc) |-> i]
    BY <1>1, <1>3 DEF Seo!Selected, Seo!MaxSections
  <2>2. Seo!Selected \in Seq(1..Len(doc)) /\ Len(Seo!Selected) = Len(doc)
    BY <1>1, <2>1
  <2>3. \A i \in 1..Len(doc) : Seo!Selected[i] = i
    BY <2>1
  <2>4. \A i \in 1..Len(doc) : i < Len(doc) => Seo!Selected[i] < Seo!Selected[i + 1]
    BY <1>1, <2>3
  <2>5. Seo!Selected[1] = 1 /\ Seo!Selected[Len(doc)] = Len(doc) /\ Len(doc) \in 1..16
    <3>1. 1 \in 1..Len(doc) /\ Len(doc) \in 1..Len(doc) /\ Len(doc) \in 1..16
      <4> DEFINE n == Len(doc)
      <4>1. n \in Nat /\ n > 0 /\ n <= 16
        BY <1>1, <1>3
      <4> HIDE DEF n
      <4>2. 1 \in 1..n /\ n \in 1..n /\ n \in 1..16
        BY <4>1
      <4>3. QED
        BY <4>2 DEF n
    <3>2. QED
      BY <2>3, <3>1, Zenon
  <2>6. QED
    BY <2>2, <2>4, <2>5
<1>4. QED
  BY <1>1, <1>2, <1>3

-----------------------------------------------------------------------------
(* The contexts.                                                           *)

(* What is cut from a text that does not fit.                              *)
Fitting(r, p) ==
    /\ r = [pieces |-> p, truncated |-> TRUE]
    /\ Spans(p, 0, Seo!TextLength)
    /\ Seo!Outline + Sum(Seo!CharsOf(p)) + 32 * (Len(p) - 1) <= maxChars

LEMMA SectionsFit ==
    ASSUME IsText, IsLimit, Seo!TextLength > maxChars, Len(Seo!Selected) > 1
    PROVE  \E p : Fitting(Seo!Sections, p)
<1> DEFINE n == Len(Seo!Selected)
           sel == Seo!Selected
           b == Room(n) \div n
           parts == [i \in 1..n |-> Seo!Excerpt(sel[i], b)]
           from == [i \in 1..n |-> Seo!From(sel[i])]
           to == [i \in 1..n |-> End(sel[i])]
           p == Seo!FlattenSeq(parts)
<1>1. Len(doc) \in Nat /\ Len(doc) > 0 /\ maxChars \in Nat
  BY LengthsFacts, SectionsFollow DEF IsLimit
<1>2. /\ n \in 1..16 /\ \A i \in 1..n : sel[i] \in 1..Len(doc)
      /\ \A i \in 1..n : i < n => sel[i] < sel[i + 1]
      /\ sel[1] = 1 /\ sel[n] = Len(doc)
  BY <1>1, SelectedFacts
<1>3. /\ Room(n) \in Nat /\ Room(n) <= maxChars /\ b \in Nat /\ b >= 2 /\ n * b <= Room(n)
  BY <1>2, RoomFacts
<1>4. Seo!Sections = [pieces |-> p, truncated |-> TRUE]
  BY DEF Seo!Sections, Seo!Cut, Seo!MarkerLength, Room
<1> HIDE DEF n, sel, b
<1>5. ASSUME NEW i \in 1..n
      PROVE  parts[i] \in Seq(Piece) /\ Spans(parts[i], from[i], to[i]) /\ Within(parts[i], 2, b)
  <2>1. sel[i] \in 1..Len(doc) /\ parts[i] = Seo!Excerpt(sel[i], b)
        /\ from[i] = Seo!From(sel[i]) /\ to[i] = End(sel[i])
    BY <1>2
  <2> HIDE DEF parts, from, to
  <2>2. QED
    BY <1>3, <2>1, ExcerptFacts
<1>6. ASSUME NEW i \in 1..n PROVE from[i] \in Nat /\ to[i] \in Nat
  <2>1. sel[i] \in 1..Len(doc) /\ from[i] = Seo!From(sel[i]) /\ to[i] = End(sel[i])
    BY <1>2
  <2> HIDE DEF from, to
  <2>2. QED
    BY <2>1, SectionsFollow
<1>7. ASSUME NEW i \in 1..n, i < n PROVE to[i] <= from[i + 1]
  <2>1. i + 1 \in 1..n
    BY <1>2, <1>7
  <2>2. /\ sel[i] \in 1..Len(doc) /\ sel[i + 1] \in 1..Len(doc) /\ sel[i] < sel[i + 1]
        /\ from[i + 1] = Seo!From(sel[i + 1]) /\ to[i] = End(sel[i])
    BY <1>2, <1>7, <2>1
  <2> HIDE DEF from, to
  <2>3. QED
    BY <2>2, SectionsFollow
<1>8. parts \in Seq(Seq(Piece)) /\ Len(parts) = n /\ n \in Nat /\ n > 0
  <2>1. \A i \in 1..n : parts[i] \in Seq(Piece)
    BY <1>5
  <2>2. parts = [i \in 1..n |-> parts[i]] /\ n \in Nat /\ n > 0
    BY <1>2
  <2> HIDE DEF parts
  <2>3. QED
    BY <2>1, <2>2
<1>9. 1 \in 1..n /\ n \in 1..n /\ from[1] = 0 /\ to[n] = Seo!TextLength
  <2>1. 1 \in 1..n /\ n \in 1..n
    BY <1>2
  <2>2. from[1] = Seo!From(1) /\ to[n] = End(Len(doc))
    BY <1>2, <2>1
  <2> HIDE DEF from, to
  <2>3. QED
    BY <1>1, <2>1, <2>2, SectionsFollow
<1> HIDE DEF parts, from, to
<1>10. p \in Seq(Piece) /\ Spans(p, 0, Seo!TextLength) /\ Within(p, 2 * n, n * b)
  <2>1. p \in Seq(Piece) /\ Spans(p, from[1], to[n]) /\ Within(p, 2 * n, n * b)
    <3>1. \A i \in 1..n : to[i] \in Nat /\ from[i] \in Nat
      BY <1>6
    <3>2. \A i \in 1..n : Spans(parts[i], from[i], to[i]) /\ Within(parts[i], 2, b)
      BY <1>5
    <3>3. \A i \in 1..n : i < n => to[i] <= from[i + 1]
      BY <1>7
    <3>4. QED
      BY <1>3, <1>8, <3>1, <3>2, <3>3, ChainSpans, Zenon
  <2>2. QED
    BY <1>9, <2>1
<1> HIDE DEF p
<1>11. Sum(Seo!CharsOf(p)) \in Nat /\ Len(p) \in Nat
  BY <1>10, CharsFacts, SumBounds
<1>12. Sum(Seo!CharsOf(p)) <= n * b /\ Len(p) <= 2 * n
  BY <1>10 DEF Within
<1>13. Room(n) = maxChars - Seo!Outline - 32 * (2 * n - 1) /\ Seo!Outline \in Nat /\ n * b \in Nat
  BY <1>2, <1>3, OutlineFacts DEF Room
<1> DEFINE y == n * b
<1> HIDE DEF y
<1>14. Seo!Outline + Sum(Seo!CharsOf(p)) + 32 * (Len(p) - 1) <= maxChars
  <2>1. Sum(Seo!CharsOf(p)) <= y /\ y <= Room(n) /\ y \in Nat
    BY <1>3, <1>12, <1>13 DEF y
  <2>2. QED
    BY <1>1, <1>2, <1>3, <1>11, <1>12, <1>13, <2>1
<1>15. Fitting(Seo!Sections, p)
  BY <1>4, <1>10, <1>14 DEF Fitting
<1>16. QED
  BY <1>15

Thirds(a, b, c, d, e) == <<At(0, a), At(b, c), At(d, e)>>

LEMMA ThreePieces ==
    ASSUME NEW a \in Nat, NEW b \in Nat, NEW c \in Nat, NEW d \in Nat, NEW e \in Nat,
           0 < a, a <= b, b <= c, c <= d, d < e, NEW p, p = Thirds(a, b, c, d, e)
    PROVE  /\ p \in Seq(Piece) /\ Spans(p, 0, e) /\ Len(p) = 3
           /\ Sum(Seo!CharsOf(p)) = a + (c - b) + (e - d)
<1>1. At(0, a) \in Piece /\ At(b, c) \in Piece /\ At(d, e) \in Piece
  BY DEF Piece, At
<1>2. p \in Seq(Piece) /\ Len(p) = 3
  BY <1>1 DEF Thirds
<1>3. /\ p[1].from = 0 /\ p[1].to = a /\ p[2].from = b /\ p[2].to = c
      /\ p[3].from = d /\ p[3].to = e
  BY DEF At, Thirds
<1>4. Ordered(p)
  <2>1. \A i, j \in 1..3 : i < j => p[i].to <= p[j].from
    BY <1>3
  <2>2. QED
    BY <1>2, <2>1 DEF Ordered
<1>5. Spans(p, 0, e)
  BY <1>2, <1>3, <1>4 DEF Spans
<1>6. Sum(Seo!CharsOf(p))
        = (p[1].to - p[1].from) + (p[2].to - p[2].from) + (p[3].to - p[3].from)
  <2>1. /\ Seo!CharsOf(p) \in Seq(Nat) /\ Len(Seo!CharsOf(p)) = Len(p)
        /\ \A i \in 1..Len(p) : Seo!CharsOf(p)[i] = p[i].to - p[i].from
    BY <1>2, CharsFacts, Zenon
  <2>2. 1 \in 1..Len(p) /\ 2 \in 1..Len(p) /\ 3 \in 1..Len(p)
    BY <1>2
  <2>3. /\ Len(Seo!CharsOf(p)) = 3
        /\ Seo!CharsOf(p)[1] = p[1].to - p[1].from
        /\ Seo!CharsOf(p)[2] = p[2].to - p[2].from
        /\ Seo!CharsOf(p)[3] = p[3].to - p[3].from
    BY <1>2, <2>1, <2>2, Zenon
  <2>4. Sum(Seo!CharsOf(p)) = Seo!CharsOf(p)[1] + Seo!CharsOf(p)[2] + Seo!CharsOf(p)[3]
    BY <2>1, <2>3, SumBounds, Zenon
  <2>5. QED
    BY <2>3, <2>4, Zenon
<1>7. QED
  BY <1>2, <1>3, <1>5, <1>6

LEMMA UnstructuredFits ==
    ASSUME IsText, IsLimit, Seo!TextLength > maxChars
    PROVE  \E p : Fitting(Seo!Unstructured, p)
<1> DEFINE T == Seo!TextLength   O == Seo!Outline   M == maxChars
           q == (M - O - 64) \div 3   m == (T - q) \div 2
<1>1. T \in Nat /\ M \in Nat /\ M >= 1308 /\ T > M /\ O \in Nat /\ O <= 23 + M \div 5
  BY SectionsFollow, OutlineFacts DEF IsLimit
<1>2. Seo!Unstructured =
        [pieces |-> <<Seo!Slice(0, T, 0, q), Seo!Slice(0, T, m, m + q), Seo!LastOf(0, T, q)>>,
         truncated |-> TRUE]
  BY DEF Seo!Unstructured, Seo!Cut, Seo!Middle, Seo!MarkerLength
<1> HIDE DEF T, O, M
<1>3. q \in Nat /\ q > 0 /\ 3 * q <= M - O - 64
  BY <1>1
<1>4. m \in Nat /\ 2 * m <= T - q /\ T - q < 2 * m + 2
  <2> HIDE DEF q
  <2>1. T - q \in Nat
    BY <1>1, <1>3
  <2>2. QED
    BY <2>1
<1> HIDE DEF q, m
<1> DEFINE c == m + q   d == T - q
<1>5. c \in Nat /\ d \in Nat /\ q <= m /\ m <= c /\ c <= T /\ c <= d /\ d < T /\ q <= T
  BY <1>1, <1>3, <1>4
<1>6. Seo!Slice(0, T, 0, q) = At(0, q) /\ Seo!Slice(0, T, m, c) = At(m, c)
  <2>1. Seo!Slice(0, T, 0, q) = At(0 + 0, 0 + q) /\ Seo!Slice(0, T, m, c) = At(0 + m, 0 + c)
    <3> HIDE DEF c, d
    <3>1. 0 \in Nat /\ 0 <= q
      BY <1>3
    <3>2. QED
      BY <1>1, <1>3, <1>4, <1>5, <3>1, SliceFacts
  <2>2. 0 + 0 = 0 /\ 0 + q = q /\ 0 + m = m /\ 0 + c = c
    BY <1>3, <1>4, <1>5
  <2>3. QED
    BY <2>1, <2>2
<1>7. Seo!LastOf(0, T, q) = At(d, T)
  <2>1. Seo!LastOf(0, T, q) = At(0 + (T - q), 0 + T)
    BY <1>1, <1>3, <1>5, LastOfFacts
  <2>2. 0 + (T - q) = d /\ 0 + T = T
    BY <1>1, <1>3
  <2>3. QED
    BY <2>1, <2>2
<1> DEFINE p == Thirds(q, m, c, d, T)
<1>8. Seo!Unstructured = [pieces |-> p, truncated |-> TRUE]
  BY <1>2, <1>6, <1>7 DEF Thirds
<1>9. q + (c - m) + (T - d) = 3 * q
  BY <1>1, <1>3, <1>4
<1>10. p = Thirds(q, m, c, d, T) /\ 0 < q
  BY <1>3
<1> HIDE DEF c, d, p
<1>11. p \in Seq(Piece) /\ Spans(p, 0, T) /\ Len(p) = 3 /\ Sum(Seo!CharsOf(p)) = 3 * q
  <2>1. /\ p \in Seq(Piece) /\ Spans(p, 0, T) /\ Len(p) = 3
        /\ Sum(Seo!CharsOf(p)) = q + (c - m) + (T - d)
    <3>1. q \in Nat /\ m \in Nat /\ c \in Nat /\ d \in Nat /\ T \in Nat
      BY <1>1, <1>3, <1>4, <1>5
    <3>2. QED
      BY <1>5, <1>10, <3>1, ThreePieces
  <2>2. QED
    BY <1>9, <2>1
<1>12. O + Sum(Seo!CharsOf(p)) + 32 * (Len(p) - 1) <= M
  BY <1>1, <1>3, <1>11
<1>13. Fitting(Seo!Unstructured, p)
  BY <1>8, <1>11, <1>12 DEF Fitting, T, O, M
<1>14. QED
  BY <1>13

LEMMA FittingIsCorrect ==
    ASSUME IsText, IsLimit, Seo!TextLength > maxChars, NEW p, Fitting(result, p)
    PROVE  Seo!ExcerptsCorrect
<1>1. /\ result.pieces = p /\ result.truncated = TRUE /\ Spans(p, 0, Seo!TextLength)
      /\ Seo!Outline + Sum(Seo!CharsOf(p)) + 32 * (Len(p) - 1) <= maxChars
  BY DEF Fitting
<1>2. p \in Seq(Piece) /\ Len(p) \in Nat /\ Len(p) > 0
  BY <1>1 DEF Spans, Ordered
<1>3. Sum(Seo!CharsOf(p)) \in Nat /\ Seo!TextLength \in Nat /\ Seo!Outline \in Nat
      /\ maxChars \in Nat
  BY <1>2, CharsFacts, SumBounds, SectionsFollow, OutlineFacts DEF IsLimit
<1>4. Seo!Pieces = p /\ Seo!Shown = Sum(Seo!CharsOf(p))
  <2>1. Seo!Pieces = p
    BY <1>1 DEF Seo!Pieces
  <2>2. Len(Seo!CharsOf(p)) = Len(p)
    BY <1>2, CharsFacts
  <2>3. QED
    BY <2>1, <2>2 DEF Seo!Shown, Sum
<1>5. Seo!ContextFits
  <2>1. Seo!ContextLength = Seo!Outline + Sum(Seo!CharsOf(p)) + 32 * (Len(p) - 1)
    BY <1>1, <1>4 DEF Seo!ContextLength, Seo!MarkerLength
  <2>2. QED
    BY <1>1, <2>1 DEF Seo!ContextFits
<1>6. Seo!PiecesInOrder
  BY <1>1, <1>4 DEF Seo!PiecesInOrder, Spans, Ordered
<1>7. Seo!EndsShown
  <2>1. p[1] \in Piece /\ p[Len(p)] \in Piece
    BY <1>2
  <2>2. p[1].from = 0 /\ Seo!Chars(p[1]) > 0
        /\ p[Len(p)].to = Seo!TextLength /\ Seo!Chars(p[Len(p)]) > 0
    BY <1>1, <2>1, PieceFacts DEF Spans, Seo!Chars
  <2>3. Seo!Shown < Seo!TextLength
    BY <1>1, <1>2, <1>3, <1>4
  <2>4. QED
    BY <1>1, <1>4, <2>2, <2>3 DEF Seo!EndsShown
<1>8. QED
  BY <1>5, <1>6, <1>7 DEF Seo!ExcerptsCorrect

LEMMA WholeIsCorrect ==
    ASSUME IsText, IsLimit, Seo!TextLength <= maxChars, result = Seo!Whole
    PROVE  Seo!ExcerptsCorrect
<1> DEFINE T == Seo!TextLength   p == <<At(0, T)>>
<1>1. T \in Nat /\ maxChars \in Nat /\ (Len(doc) > 0 => T > 0) /\ Len(doc) \in Nat
      /\ (Len(doc) = 0 => T = 0)
  BY SectionsFollow, LengthsFacts DEF IsLimit
<1>2. Seo!Slice(0, T, 0, T) = At(0, T)
  <2>1. Seo!Slice(0, T, 0, T) = At(0 + 0, 0 + T)
    <3> HIDE DEF T
    <3>1. 0 \in Nat /\ 0 <= T /\ T <= T
      BY <1>1
    <3>2. QED
      BY <1>1, <3>1, SliceFacts
  <2>2. QED
    BY <1>1, <2>1
<1>3. result = [pieces |-> p, truncated |-> FALSE]
  BY <1>2 DEF Seo!Whole
<1>4. p \in Seq(Piece) /\ Len(p) = 1 /\ p[1].from = 0 /\ p[1].to = T
  <2>1. At(0, T) \in Piece /\ At(0, T).from = 0 /\ At(0, T).to = T
    BY <1>1 DEF Piece, At
  <2>2. QED
    BY <2>1
<1> HIDE DEF T, p
<1>5. Sum(Seo!CharsOf(p)) = T /\ Len(Seo!CharsOf(p)) = 1
  <2>1. /\ Seo!CharsOf(p) \in Seq(Nat) /\ Len(Seo!CharsOf(p)) = Len(p)
        /\ \A i \in 1..Len(p) : Seo!CharsOf(p)[i] = p[i].to - p[i].from
    BY <1>4, CharsFacts, Zenon
  <2>2. Seo!CharsOf(p)[1] = p[1].to - p[1].from
    BY <1>4, <2>1
  <2>3. Sum(Seo!CharsOf(p)) = Seo!CharsOf(p)[1]
    BY <1>4, <2>1, SumBounds
  <2>4. QED
    BY <1>1, <1>4, <2>1, <2>2, <2>3
<1>6. Seo!Pieces = p /\ Seo!Shown = T /\ result.truncated = FALSE
  <2>1. Seo!Pieces = p /\ result.truncated = FALSE
    BY <1>3 DEF Seo!Pieces
  <2>2. QED
    BY <1>4, <1>5, <2>1 DEF Seo!Shown, Sum
<1>7. Seo!ContextFits
  <2>1. Seo!ContextLength = 0 + T + 32 * (1 - 1)
    BY <1>4, <1>6 DEF Seo!ContextLength, Seo!MarkerLength
  <2>2. QED
    BY <1>1, <2>1 DEF Seo!ContextFits, T
<1>8. Seo!PiecesInOrder
  <2>1. \A i, j \in 1..Len(p) : ~(i < j)
    BY <1>4
  <2>2. QED
    BY <1>6, <2>1, Zenon DEF Seo!PiecesInOrder
<1>9. Seo!EndsShown
  <2>1. CASE doc = <<>>
    BY <2>1 DEF Seo!EndsShown
  <2>2. CASE doc # <<>>
    <3>1. Len(doc) > 0
      BY <1>1, <2>2 DEF IsText
    <3>2. T > 0 /\ Seo!Chars(p[1]) = T - 0 /\ p[Len(p)] = p[1]
      BY <1>1, <1>4, <3>1 DEF Seo!Chars
    <3>3. Seo!Chars(p[1]) > 0 /\ ~(Seo!Shown < T)
      BY <1>1, <1>6, <3>2
    <3>4. QED
      BY <1>4, <1>6, <3>2, <3>3, Zenon DEF Seo!EndsShown, T
  <2>3. QED
    BY <2>1, <2>2
<1>10. QED
  BY <1>7, <1>8, <1>9 DEF Seo!ExcerptsCorrect

-----------------------------------------------------------------------------
(* Either nothing is prepared yet, or what prepareSeoContext returns.      *)
ContextInv ==
    /\ doc \in Documents /\ maxChars \in Limits
    /\ result \in {Seo!Pending, Seo!PrepareSeoContext}

LEMMA ContextInvCorrect == ContextInv => Seo!ExcerptsCorrect
<1> SUFFICES ASSUME ContextInv PROVE Seo!ExcerptsCorrect
  OBVIOUS
<1>1. IsText /\ IsLimit
  BY ExcerptsAssumption DEF ContextInv, Seo!ConstantsAssumption, IsText, IsLimit, Seo!LeastLimit
<1>2. CASE result = Seo!Pending
  <2>1. ~Seo!Done /\ Seo!Pieces = <<>>
    BY <1>2 DEF Seo!Done, Seo!Pieces, Seo!Pending
  <2>2. QED
    BY <2>1 DEF Seo!ExcerptsCorrect, Seo!ContextFits, Seo!PiecesInOrder, Seo!EndsShown
<1>3. CASE result = Seo!PrepareSeoContext
  <2>1. Seo!TextLength \in Nat /\ maxChars \in Nat
    BY <1>1, SectionsFollow DEF IsLimit
  <2>2. CASE Seo!TextLength <= maxChars
    BY <1>1, <1>3, <2>2, WholeIsCorrect DEF Seo!PrepareSeoContext
  <2>3. CASE Seo!TextLength > maxChars /\ Len(Seo!Selected) > 1
    <3>1. result = Seo!Sections
      BY <1>3, <2>1, <2>3 DEF Seo!PrepareSeoContext
    <3>2. PICK p : Fitting(result, p)
      BY <1>1, <2>3, <3>1, SectionsFit
    <3>3. QED
      BY <1>1, <2>3, <3>2, FittingIsCorrect
  <2>4. CASE Seo!TextLength > maxChars /\ ~(Len(Seo!Selected) > 1)
    <3>1. result = Seo!Unstructured
      BY <1>3, <2>1, <2>4 DEF Seo!PrepareSeoContext
    <3>2. PICK p : Fitting(result, p)
      BY <1>1, <2>4, <3>1, UnstructuredFits
    <3>3. QED
      BY <1>1, <2>4, <3>2, FittingIsCorrect
  <2>5. QED
    BY <2>1, <2>2, <2>3, <2>4
<1>4. QED
  BY <1>2, <1>3 DEF ContextInv

(* ExcerptsCorrect: the excerpts of every text, cut for every limit of at  *)
(* least LeastLimit characters, fit the limit with the outline and the     *)
(* markers, come in the order of the text without an overlap, and show its *)
(* first and its last characters; the result says that it was truncated    *)
(* exactly when something is missing (prepareSeoContext).                  *)
THEOREM ExcerptsFit == Seo!Spec => []ExcerptsCorrect
<1>1. Seo!Init => ContextInv
  BY DEF Seo!Init, ContextInv
<1>2. ContextInv /\ [Seo!Next]_(Seo!vars) => ContextInv'
  <2> SUFFICES ASSUME ContextInv, [Seo!Next]_(Seo!vars) PROVE ContextInv'
    OBVIOUS
  <2>1. doc' = doc /\ maxChars' = maxChars
    BY DEF Seo!Next, Seo!Prepare, Seo!vars
  <2>2. Seo!PrepareSeoContext' = Seo!PrepareSeoContext /\ Seo!Pending' = Seo!Pending
    BY <2>1 DEF Seo!PrepareSeoContext, Seo!Pending, Seo!TextLength, Seo!Lengths, Seo!SectionLength,
        Seo!Whole, Seo!Selected, Seo!Sampled, Seo!Sections, Seo!Outline, Seo!Headings, Seo!Joined,
        Seo!Excerpt, Seo!From, Seo!Unstructured, Seo!Middle, Seo!Cut, Seo!LastOf
  <2>3. result' \in {result, Seo!PrepareSeoContext}
    BY DEF Seo!Next, Seo!Prepare, Seo!vars
  <2>4. QED
    BY <2>1, <2>2, <2>3 DEF ContextInv
<1>3. QED
  BY <1>1, <1>2, ContextInvCorrect, PTL DEF Seo!Spec, ExcerptsCorrect

-----------------------------------------------------------------------------
(* The pages of the search.                                                *)

(* The first k elements of a sequence.                                     *)
Upto(s, k) == SubSeq(s, 1, k)

LEMMA UptoFacts ==
    ASSUME NEW V, NEW s \in Seq(V), NEW k \in 0..Len(s)
    PROVE  /\ Upto(s, k) \in Seq(V) /\ Len(Upto(s, k)) = k
           /\ \A i \in 1..k : Upto(s, k)[i] = s[i]
<1>1. Len(s) \in Nat /\ k \in Nat /\ k <= Len(s) /\ \A i \in 1..Len(s) : s[i] \in V
  OBVIOUS
<1>2. Upto(s, k) = [i \in 1..k |-> s[i]]
  BY <1>1 DEF Upto
<1>3. QED
  BY <1>1, <1>2

(* Its elements after the first j and up to the k-th.                      *)
Part(s, j, k) == SubSeq(s, j + 1, k)

LEMMA CutFacts ==
    ASSUME NEW V, NEW s \in Seq(V), NEW j \in 0..Len(s), NEW k \in 0..Len(s), j <= k
    PROVE  /\ Part(s, j, k) \in Seq(V) /\ Len(Part(s, j, k)) = k - j
           /\ \A i \in 1..k - j : Part(s, j, k)[i] = s[i + j]
           /\ Upto(s, j) \o Part(s, j, k) = Upto(s, k)
<1> DEFINE c == Part(s, j, k)   l == k - j   m == j + 1
<1>1. /\ Len(s) \in Nat /\ j \in Nat /\ k \in Nat /\ k <= Len(s) /\ l \in Nat /\ j + l = k
      /\ \A i \in 1..Len(s) : s[i] \in V
  OBVIOUS
<1>2. c = [i \in 1..l |-> s[i + j]]
  <2>1. c = [i \in 1..(1 + k) - m |-> s[(i + m) - 1]]
    BY <1>1 DEF Part
  <2>2. (1 + k) - m = l /\ \A i \in 1..l : (i + m) - 1 = i + j
    BY <1>1
  <2> HIDE DEF c, l
  <2>3. QED
    BY <2>1, <2>2
<1>3. \A i \in 1..l : i + j \in 1..Len(s)
  BY <1>1
<1> HIDE DEF c, l
<1>4. c \in Seq(V) /\ Len(c) = l
  BY <1>1, <1>2, <1>3
<1>5. Upto(s, j) \o c = Upto(s, k)
  <2>1. /\ Upto(s, j) \in Seq(V) /\ Len(Upto(s, j)) = j /\ \A i \in 1..j : Upto(s, j)[i] = s[i]
        /\ Upto(s, k) \in Seq(V) /\ Len(Upto(s, k)) = k /\ \A i \in 1..k : Upto(s, k)[i] = s[i]
    BY UptoFacts
  <2> DEFINE w == Upto(s, j) \o c
  <2>2. w \in Seq(V) /\ Cat(w, Upto(s, j), c)
    BY <1>4, <2>1, CatFacts
  <2>3. Len(w) = k
    BY <1>1, <1>4, <2>1, <2>2 DEF Cat
  <2>4. ASSUME NEW i \in 1..k PROVE w[i] = Upto(s, k)[i]
    <3>1. CASE i <= j
      <4>1. w[i] = Upto(s, j)[i] /\ i \in 1..j
        BY <1>1, <2>1, <2>2, <3>1 DEF Cat
      <4>2. QED
        BY <2>1, <4>1
    <3>2. CASE i > j
      <4> DEFINE x == i - j
      <4>1. x \in 1..l /\ i = x + j
        BY <1>1, <3>2
      <4>2. w[i] = c[x]
        BY <2>1, <2>2, <2>3, <3>2 DEF Cat
      <4> HIDE DEF x, w
      <4>3. c[x] = s[x + j]
        BY <1>2, <4>1
      <4>4. Upto(s, k)[i] = s[i]
        BY <2>1
      <4>5. s[x + j] = s[i]
        BY <4>1
      <4>6. QED
        BY <4>2, <4>3, <4>4, <4>5, Zenon
    <3>3. i <= j \/ i > j
      BY <1>1
    <3>4. QED
      BY <3>1, <3>2, <3>3, Zenon
  <2> HIDE DEF w
  <2>5. w = Upto(s, k)
    BY <1>1, <2>1, <2>2, <2>3, <2>4
  <2>6. QED
    BY <2>5 DEF w
<1>6. QED
  BY <1>2, <1>4, <1>5 DEF c, l

LEMMA UptoEnds ==
    ASSUME NEW V, NEW s \in Seq(V)
    PROVE  Upto(s, Len(s)) = s
<1>1. Len(s) \in 0..Len(s)
  OBVIOUS
<1>2. /\ Upto(s, Len(s)) \in Seq(V) /\ Len(Upto(s, Len(s))) = Len(s)
      /\ \A i \in 1..Len(s) : Upto(s, Len(s))[i] = s[i]
  BY <1>1, UptoFacts
<1>3. QED
  BY <1>2

(* What is flattened is a sequence.                                        *)
LEMMA FlattenIsSeq ==
    ASSUME NEW V, NEW parts \in Seq(Seq(V))
    PROVE  Search!FlattenSeq(parts) \in Seq(V)
<1>1. Search!FlattenSeq(parts) = Seo!FlattenSeq(parts)
  BY DEF Search!FlattenSeq, Seo!FlattenSeq
<1> DEFINE n == Len(parts)
<1>2. n \in Nat
  OBVIOUS
<1>3. CASE n = 0
  <2>1. Search!FlattenSeq(parts) = parts /\ parts = <<>>
    BY <1>3 DEF Search!FlattenSeq
  <2>2. QED
    BY <2>1
<1>4. CASE n > 0
  <2>1. PICK h : Chained(h, parts) /\ Seo!FlattenSeq(parts) = h[n]
    BY <1>4, FlattenFacts
  <2> DEFINE S == {k \in Nat : h[k] \in Seq(V)}
  <2>2. \A k \in 1..n : parts[k] \in Seq(V)
    OBVIOUS
  <2>3. 1 \in S
    BY <1>2, <1>4, <2>1, <2>2 DEF Chained
  <2>4. ASSUME NEW k \in 1..n, k \in S, k < n PROVE k + 1 \in S
    <3> DEFINE l == k + 1
    <3>1. l \in 1..n /\ l # 1 /\ l - 1 = k /\ l \in Nat
      BY <1>2, <2>4
    <3>2. h[l] = h[k] \o parts[l]
      BY <2>1, <3>1 DEF Chained
    <3>3. parts[l] \in Seq(V) /\ h[k] \in Seq(V)
      BY <2>2, <2>4, <3>1
    <3> HIDE DEF l
    <3>4. h[k] \o parts[l] \in Seq(V)
      BY <3>3, CatFacts
    <3>5. l \in S
      BY <3>1, <3>2, <3>4
    <3>6. QED
      BY <3>5 DEF l
  <2>5. 1 \in Nat /\ 1 <= n /\ n \in 1..n
    BY <1>2, <1>4
  <2> HIDE DEF S, n
  <2>6. \A k \in 1..n : k \in S
    BY <1>2, <2>3, <2>4, <2>5, AllFrom
  <2>7. QED
    BY <1>1, <2>1, <2>5, <2>6 DEF S
<1>5. QED
  BY <1>2, <1>3, <1>4

Last(p, size, L) == IF p * size < L THEN p * size ELSE L
Count(L, size) == (L + size - 1) \div size

(* Page p of n holds the elements after Before(p, size).                   *)
Before(p, size) == (p - 1) * size
Bounds(p, n, size, L) ==
    /\ Before(p, size) \in 0..L /\ Before(p, size) < L
    /\ Last(p, size, L) \in 0..L /\ Before(p, size) < Last(p, size, L)
    /\ p < n => Last(p, size, L) = p * size /\ Last(p, size, L) - Before(p, size) = size

LEMMA PageBounds ==
    ASSUME NEW L \in Nat, NEW size \in Nat \ {0}, NEW n, n = Count(L, size)
    PROVE  /\ n \in Nat /\ (n = 0 => L = 0) /\ (n > 0 => Last(n, size, L) = L)
           /\ \A p \in 1..n : Bounds(p, n, size, L)
<1>1. n \in Nat /\ size * n <= L + size - 1 /\ L + size - 1 < size * n + size
  <2>1. L + size - 1 \in Nat
    OBVIOUS
  <2>2. QED
    BY <2>1, DivFacts DEF Count
<1> DEFINE m == size * n
<1>2. m \in Nat /\ m <= L + size - 1 /\ L <= m /\ n * size = m
  BY <1>1
<1>3. n = 0 => L = 0
  BY <1>1, <1>2
<1>4. ASSUME NEW p \in 1..n
      PROVE  /\ (p - 1) * size \in Nat /\ p * size \in Nat /\ p * size <= m
             /\ p * size = (p - 1) * size + size
             /\ p < n => p * size <= m - size
  <2>1. p \in Nat /\ p <= n /\ p - 1 \in Nat
    BY <1>1
  <2>2. p * size \in Nat /\ p * size <= n * size
    BY <1>1, <2>1, SMTT(30)
  <2>3. (p - 1) * size \in Nat /\ p * size = (p - 1) * size + size
    BY <2>1, SMTT(30)
  <2>4. ASSUME p < n PROVE p * size + size <= n * size
    <3>1. (p + 1) * size <= n * size /\ (p + 1) * size = p * size + size
      BY <1>1, <2>1, <2>4, SMTT(30)
    <3>2. QED
      BY <3>1
  <2>5. QED
    BY <1>2, <2>2, <2>3, <2>4
<1>5. ASSUME NEW p \in 1..n PROVE Bounds(p, n, size, L)
  <2> DEFINE a == (p - 1) * size   b == p * size
  <2>1. a \in Nat /\ b \in Nat /\ b <= m /\ b = a + size /\ (p < n => b <= m - size)
    BY <1>4
  <2> HIDE DEF a, b, m
  <2>2. a < L /\ a \in 0..L /\ (p < n => b < L)
    BY <1>2, <2>1
  <2>3. Last(p, size, L) = IF b < L THEN b ELSE L
    BY DEF Last, b
  <2>4. QED
    BY <2>1, <2>2, <2>3 DEF a, b, Bounds, Before
<1>6. n > 0 => Last(n, size, L) = L
  <2> HIDE DEF m
  <2>1. Last(n, size, L) = IF m < L THEN m ELSE L
    BY <1>2 DEF Last
  <2>2. QED
    BY <1>2, <2>1
<1>7. QED
  BY <1>1, <1>3, <1>5, <1>6

(* The pages of a sequence are the sequence.                               *)
LEMMA PagesFlatten ==
    ASSUME NEW V, NEW found \in Seq(V), NEW size \in Nat \ {0},
           NEW n, n = Count(Len(found), size),
           NEW parts, parts = [p \in 1..n |-> Search!Page(found, p, size)]
    PROVE  /\ n \in Nat /\ Len(parts) = n /\ Search!FlattenSeq(parts) = found
           /\ \A p \in 1..n : Len(parts[p]) > 0 /\ (p < n => Len(parts[p]) = size)
<1> DEFINE L == Len(found)   a(p) == Before(p, size)   b(p) == Last(p, size, L)
<1>1. /\ n \in Nat /\ (n = 0 => L = 0) /\ (n > 0 => b(n) = L) /\ L \in Nat
      /\ \A p \in 1..n : /\ a(p) \in 0..L /\ a(p) < L /\ b(p) \in 0..L /\ a(p) < b(p)
                         /\ p < n => b(p) = p * size /\ b(p) - a(p) = size
  <2>1. L \in Nat
    OBVIOUS
  <2> HIDE DEF L
  <2>2. n = Count(L, size)
    BY DEF L
  <2>3. /\ n \in Nat /\ (n = 0 => L = 0) /\ (n > 0 => Last(n, size, L) = L)
        /\ \A p \in 1..n : Bounds(p, n, size, L)
    BY <2>1, <2>2, PageBounds
  <2>4. QED
    BY <2>1, <2>3 DEF Bounds
<1>2. \A p \in 1..n : parts[p] = Part(found, a(p), b(p))
  BY DEF Search!Page, Last, Part, Before
<1>3. ASSUME NEW p \in 1..n
      PROVE  /\ parts[p] \in Seq(V) /\ Len(parts[p]) = b(p) - a(p)
             /\ Upto(found, a(p)) \o parts[p] = Upto(found, b(p))
  <2> DEFINE x == a(p)   y == b(p)
  <2>1. x \in 0..Len(found) /\ y \in 0..Len(found) /\ x <= y
    BY <1>1
  <2>2. parts[p] = Part(found, x, y)
    BY <1>2
  <2> HIDE DEF x, y
  <2>3. /\ Part(found, x, y) \in Seq(V) /\ Len(Part(found, x, y)) = y - x
        /\ Upto(found, x) \o Part(found, x, y) = Upto(found, y)
    BY <2>1, CutFacts
  <2>4. QED
    BY <2>2, <2>3 DEF x, y
<1> HIDE DEF a, b
<1>4. parts \in Seq(Seq(V)) /\ Len(parts) = n
  <2>1. parts = [p \in 1..n |-> parts[p]] /\ \A p \in 1..n : parts[p] \in Seq(V)
    BY <1>3
  <2>2. QED
    BY <1>1, <2>1
<1>5. Search!FlattenSeq(parts) = Seo!FlattenSeq(parts)
  BY DEF Search!FlattenSeq, Seo!FlattenSeq
<1>6. CASE n = 0
  <2>1. parts = <<>> /\ found = <<>>
    BY <1>1, <1>4, <1>6
  <2>2. Search!FlattenSeq(parts) = parts
    BY <1>4, <1>6 DEF Search!FlattenSeq
  <2>3. QED
    BY <1>1, <1>4, <1>6, <2>1, <2>2
<1>7. CASE n > 0
  <2>1. PICK h : Chained(h, parts) /\ Seo!FlattenSeq(parts) = h[n]
    BY <1>4, <1>7, FlattenFacts
  <2> DEFINE S == {k \in Nat : h[k] = Upto(found, b(k))}
  <2>2. 1 \in S
    <3>1. 1 \in 1..n /\ h[1] = parts[1]
      BY <1>1, <1>7, <2>1 DEF Chained
    <3>2. a(1) = 0
      BY DEF a, Before
    <3>3. Upto(found, 0) = <<>>
      BY DEF Upto
    <3>4. Upto(found, 0) \o parts[1] = Upto(found, b(1)) /\ parts[1] \in Seq(V)
      BY <1>3, <3>1, <3>2
    <3>5. <<>> \o parts[1] = parts[1]
      BY <3>4
    <3>6. QED
      BY <3>1, <3>3, <3>4, <3>5
  <2>3. ASSUME NEW k \in 1..n, k \in S, k < n PROVE k + 1 \in S
    <3> DEFINE l == k + 1
    <3>1. l \in 1..n /\ l # 1 /\ l - 1 = k /\ l \in Nat /\ k \in Nat
      BY <1>1, <2>3
    <3>2. h[l] = h[k] \o parts[l]
      BY <1>4, <2>1, <3>1 DEF Chained
    <3>3. a(l) = k * size /\ b(k) = k * size
      BY <1>1, <2>3, <3>1 DEF a, Before
    <3>4. Upto(found, a(l)) \o parts[l] = Upto(found, b(l))
      BY <1>3, <3>1
    <3> HIDE DEF l
    <3>5. l \in S
      BY <2>3, <3>1, <3>2, <3>3, <3>4
    <3>6. QED
      BY <3>5 DEF l
  <2>4. 1 \in Nat /\ 1 <= n /\ n \in 1..n
    BY <1>1, <1>7
  <2> HIDE DEF S
  <2>5. \A k \in 1..n : k \in S
    BY <1>1, <2>2, <2>3, <2>4, AllFrom
  <2>6. h[n] = Upto(found, L)
    BY <1>1, <1>7, <2>4, <2>5 DEF S
  <2>7. Search!FlattenSeq(parts) = found
    BY <1>5, <2>1, <2>6, UptoEnds
  <2>8. \A p \in 1..n : Len(parts[p]) > 0 /\ (p < n => Len(parts[p]) = size)
    BY <1>1, <1>3
  <2>9. QED
    BY <1>1, <1>4, <2>7, <2>8
<1>8. QED
  BY <1>1, <1>6, <1>7

LEMMA MatchesIsSeq ==
    ASSUME posts \in Tables, NEW query
    PROVE  Search!Matches(query) \in Seq({posts[i] : i \in DOMAIN posts})
<1> DEFINE V == {posts[i] : i \in DOMAIN posts}
           parts == [i \in 1..Len(posts) |-> Search!Kept(posts[i], query)]
<1>1. posts \in Seq(V)
  BY SearchAssumption DEF Search!ConstantsAssumption
<1> HIDE DEF V
<1>2. Len(posts) \in Nat /\ \A i \in 1..Len(posts) : posts[i] \in V
  BY <1>1
<1>3. \A i \in 1..Len(posts) : Search!Kept(posts[i], query) \in Seq(V)
  BY <1>2 DEF Search!Kept
<1>4. parts \in Seq(Seq(V))
  BY <1>2, <1>3
<1> HIDE DEF parts
<1>5. Search!FlattenSeq(parts) \in Seq(V)
  BY <1>4, FlattenIsSeq
<1>6. Search!Matches(query) = IF query = <<>> THEN <<>> ELSE Search!FlattenSeq(parts)
  BY DEF Search!Matches, parts
<1>7. QED
  BY <1>5, <1>6 DEF V

(* No search yet, or every page of one over the table as it is.            *)
Answers(query, size) ==
    [query |-> query, size |-> size,
     pages |-> [page \in 1..Search!FindManyWithPagination(query, 1, size).totalPages |->
                    Search!FindManyWithPagination(query, page, size)]]
PagingInv ==
    /\ posts \in Tables
    /\ answer = Search!NoAnswer
         \/ \E query \in Queries, size \in Sizes : answer = Answers(query, size)

LEMMA PagingInvCovers == PagingInv => Search!PagesCover
<1> SUFFICES ASSUME PagingInv, answer # Search!NoAnswer
             PROVE  LET items(page) == answer.pages[page].items  n == Len(answer.pages) IN
                    /\ Search!FlattenSeq([page \in 1..n |-> items(page)])
                         = Search!Matches(answer.query)
                    /\ \A page \in 1..n : Len(items(page)) > 0
                                          /\ (page < n => Len(items(page)) = answer.size)
  BY DEF Search!PagesCover
<1>1. PICK query \in Queries, size \in Sizes : answer = Answers(query, size)
  BY DEF PagingInv
<1> DEFINE found == Search!Matches(query)
           V == {posts[i] : i \in DOMAIN posts}
           n == Count(Len(found), size)
           parts == [p \in 1..n |-> Search!Page(found, p, size)]
<1>2. found \in Seq(V) /\ size \in Nat \ {0}
  BY MatchesIsSeq, SearchAssumption DEF PagingInv, Search!ConstantsAssumption
<1>3. /\ answer.query = query /\ answer.size = size
      /\ answer.pages = [p \in 1..n |-> Search!FindManyWithPagination(query, p, size)]
  <2>1. Search!FindManyWithPagination(query, 1, size).totalPages = n
    BY DEF Search!FindManyWithPagination, Count
  <2> HIDE DEF n
  <2>2. QED
    BY <1>1, <2>1 DEF Answers
<1>4. \A p : Search!FindManyWithPagination(query, p, size).items = Search!Page(found, p, size)
  BY DEF Search!FindManyWithPagination
<1> HIDE DEF found, V
<1>5. /\ n \in Nat /\ Len(parts) = n /\ Search!FlattenSeq(parts) = found
      /\ \A p \in 1..n : Len(parts[p]) > 0 /\ (p < n => Len(parts[p]) = size)
  BY <1>2, PagesFlatten
<1> HIDE DEF n
<1>6. Len(answer.pages) = n /\ \A p \in 1..n : answer.pages[p].items = parts[p]
  BY <1>3, <1>4, <1>5
<1>7. [page \in 1..n |-> answer.pages[page].items] = parts
  BY <1>6
<1> HIDE DEF parts
<1>8. QED
  BY <1>3, <1>5, <1>6, <1>7 DEF found

LEMMA PagingInductive == Search!Spec => []PagingInv
<1>1. Search!Init => PagingInv
  BY DEF Search!Init, PagingInv
<1>2. PagingInv /\ [Search!Next]_(Search!vars) => PagingInv'
  <2> SUFFICES ASSUME PagingInv, [Search!Next]_(Search!vars) PROVE PagingInv'
    OBVIOUS
  <2>1. posts' = posts
    BY DEF Search!Next, Search!Search, Search!vars
  <2>2. \A query \in Queries, size \in Sizes : Answers(query, size)' = Answers(query, size)
    BY <2>1 DEF Answers, Search!FindManyWithPagination, Search!Matches, Search!Page
  <2>3. CASE UNCHANGED Search!vars
    BY <2>1, <2>2, <2>3 DEF PagingInv, Search!vars, Search!NoAnswer
  <2>4. ASSUME NEW query \in Queries, NEW size \in Sizes, Search!Search(query, size)
        PROVE  PagingInv'
    <3>1. answer' = Answers(query, size)
      BY <2>4 DEF Search!Search, Answers
    <3>2. QED
      BY <2>1, <2>2, <3>1 DEF PagingInv
  <2>5. QED
    BY <2>3, <2>4 DEF Search!Next
<1>3. QED
  BY <1>1, <1>2, PTL DEF Search!Spec

(* PagesCover: for every table, every query and every size, the pages of a *)
(* search are together the posts that match, in their order and each once, *)
(* and every page but the last is full (findManyWithPagination).           *)
THEOREM PagesAreAll == Search!Spec => []PagesCover
<1>1. QED
  BY PagingInductive, PagingInvCovers, PTL DEF PagesCover

-----------------------------------------------------------------------------
(* Functions on the nodes of trees, from the leaves up.                    *)

LEMMA NodeFacts ==
    /\ MaxHeight \in Nat
    /\ \A node \in Nodes :
        /\ node.text \in Seq(Characters) /\ node.url \in Seq(Characters)
        /\ node.children \in Seq(Nodes) /\ Height[node] \in 0..MaxHeight
        /\ \A i \in 1..Len(node.children) :
            node.children[i] \in Nodes /\ Height[node.children[i]] < Height[node]
<1>1. MaxHeight \in Nat /\ \A node \in Nodes : Search!IsNode(node)
  BY SearchAssumption DEF Search!ConstantsAssumption
<1>2. ASSUME NEW node \in Nodes
      PROVE  /\ node.text \in Seq(Characters) /\ node.url \in Seq(Characters)
             /\ node.children \in Seq(Nodes) /\ Height[node] \in 0..MaxHeight
             /\ \A i \in 1..Len(node.children) : Height[node.children[i]] < Height[node]
  BY <1>1 DEF Search!IsNode, Search!IsString
<1>3. ASSUME NEW node \in Nodes, NEW i \in 1..Len(node.children)
      PROVE  node.children[i] \in Nodes
  <2>1. node.children \in Seq(Nodes)
    BY <1>2
  <2>2. QED
    BY <2>1
<1>4. QED
  BY <1>1, <1>2, <1>3

(* A step looks at the children only.                                      *)
Local(V, step) ==
    \A node \in Nodes, f, g \in [Nodes -> V] :
        (\A i \in 1..Len(node.children) : f[node.children[i]] = g[node.children[i]])
            => step[<<node, f>>] = step[<<node, g>>]

LEMMA TreeComputed ==
    ASSUME NEW V, NEW v \in V, NEW step \in [Nodes \X [Nodes -> V] -> V], Local(V, step)
    PROVE  \E w \in [Nodes -> V] : \A node \in Nodes : w[node] = step[<<node, w>>]
<1> DEFINE G == [Nodes -> V]
           base == [node \in Nodes |-> v]
           next == [x \in G \X Nat |-> [node \in Nodes |-> step[<<node, x[1]>>]]]
           M == MaxHeight + 2
<1>1. M \in Nat /\ 0 \in Nat /\ 0 <= M /\ MaxHeight \in Nat
  BY NodeFacts
<1>2. base \in G
  OBVIOUS
<1>3. \A g \in G, node \in Nodes : step[<<node, g>>] \in V
  OBVIOUS
<1>4. next \in [G \X Nat -> G]
  <2>1. ASSUME NEW x \in G \X Nat PROVE [node \in Nodes |-> step[<<node, x[1]>>]] \in G
    <3>1. x[1] \in G
      OBVIOUS
    <3>2. \A node \in Nodes : step[<<node, x[1]>>] \in V
      BY <1>3, <3>1
    <3>3. QED
      BY <3>2
  <2> HIDE DEF G
  <2>2. QED
    BY <2>1
<1>5. \A g \in G, k \in Nat, node \in Nodes : next[<<g, k>>][node] = step[<<node, g>>]
  <2> HIDE DEF G
  <2>1. ASSUME NEW g \in G, NEW k \in Nat, NEW node \in Nodes
        PROVE  next[<<g, k>>][node] = step[<<node, g>>]
    <3>1. <<g, k>> \in G \X Nat /\ <<g, k>>[1] = g
      OBVIOUS
    <3>2. next[<<g, k>>] = [n \in Nodes |-> step[<<n, g>>]]
      BY <3>1
    <3> HIDE DEF next
    <3>3. QED
      BY <3>2
  <2>2. QED
    BY <2>1
<1>6. \A node \in Nodes, f, g \in G :
        (\A i \in 1..Len(node.children) : f[node.children[i]] = g[node.children[i]])
            => step[<<node, f>>] = step[<<node, g>>]
  BY DEF Local
<1> HIDE DEF base, next, M, G
<1>7. PICK h : Computes(h, G, 0, M, base, next)
  BY <1>1, <1>2, <1>4, Computed, Zenon
<1>8. \A k \in 0..M : h[k] \in G
  BY <1>7 DEF Computes
<1>9. ASSUME NEW k \in 1..M, NEW node \in Nodes PROVE h[k][node] = step[<<node, h[k - 1]>>]
  <2>1. k \in 0..M /\ k # 0 /\ k \in Nat /\ k - 1 \in 0..M
    BY <1>1
  <2>2. h[k] = next[<<h[k - 1], k>>]
    BY <1>7, <2>1 DEF Computes
  <2>3. h[k - 1] \in G
    BY <1>8, <2>1
  <2>4. next[<<h[k - 1], k>>][node] = step[<<node, h[k - 1]>>]
    BY <1>5, <2>1, <2>3, Zenon
  <2>5. QED
    BY <2>2, <2>4, Zenon
(* The value of a node is settled after as many steps as it is high.       *)
<1> DEFINE S == {k \in Nat :
                    \A node \in Nodes : Height[node] < k => h[k + 1][node] = h[k][node]}
<1>10. 0 \in S
  <2>1. \A node \in Nodes : ~(Height[node] < 0)
    BY NodeFacts
  <2>2. QED
    BY <2>1
<1>11. ASSUME NEW k \in 0..MaxHeight + 1, k \in S, k < MaxHeight + 1 PROVE k + 1 \in S
  <2> DEFINE l == k + 1   m == l + 1
  <2>1. l \in 1..M /\ m \in 1..M /\ l - 1 = k /\ m - 1 = l /\ l \in Nat
        /\ k \in 0..M /\ l \in 0..M
    BY <1>1, <1>11 DEF M
  <2>2. ASSUME NEW node \in Nodes, Height[node] < l PROVE h[m][node] = h[l][node]
    <3>1. h[m][node] = step[<<node, h[l]>>] /\ h[l][node] = step[<<node, h[k]>>]
      BY <1>9, <2>1
    <3>2. ASSUME NEW i \in 1..Len(node.children)
          PROVE  h[l][node.children[i]] = h[k][node.children[i]]
      <4>1. node.children[i] \in Nodes /\ Height[node.children[i]] < Height[node]
            /\ Height[node] \in 0..MaxHeight /\ Height[node.children[i]] \in 0..MaxHeight
        BY NodeFacts
      <4>2. Height[node.children[i]] < k
        BY <1>1, <2>1, <2>2, <4>1
      <4>3. QED
        BY <1>11, <4>1, <4>2
    <3> HIDE DEF l, m
    <3>3. QED
      BY <1>6, <1>8, <2>1, <3>1, <3>2
  <2>3. l \in S
    BY <2>1, <2>2
  <2>4. QED
    BY <2>3
<1>12. MaxHeight + 1 \in S
  <2> DEFINE n == MaxHeight + 1
  <2>1. n \in Nat /\ 0 \in Nat /\ 0 <= n /\ n \in 0..n
    BY <1>1
  <2>2. \A k \in 0..n : k \in S /\ k < n => k + 1 \in S
    BY <1>11
  <2> HIDE DEF S, n
  <2>3. \A k \in 0..n : k \in S
    BY <1>10, <2>1, <2>2, AllFrom, Zenon
  <2>4. QED
    BY <2>1, <2>3 DEF n
<1> DEFINE t == MaxHeight + 1   w == h[t]
<1>13. t \in 0..M /\ t + 1 \in 1..M /\ (t + 1) - 1 = t
  BY <1>1 DEF M
<1>14. ASSUME NEW node \in Nodes PROVE w[node] = step[<<node, w>>]
  <2>1. Height[node] < t
    BY NodeFacts
  <2>2. h[t + 1][node] = h[t][node]
    BY <1>12, <2>1
  <2>3. h[t + 1][node] = step[<<node, h[t]>>]
    BY <1>9, <1>13
  <2>4. QED
    BY <2>2, <2>3
<1>15. w \in G
  BY <1>8, <1>13
<1> HIDE DEF w
<1>16. QED
  BY <1>14, <1>15 DEF G

-----------------------------------------------------------------------------
(* One string within another.                                              *)

Holds(s, q) ==
    \E at \in Nat : at + Len(q) <= Len(s) /\ \A i \in 1..Len(q) : s[at + i] = q[i]

LEMMA IncludesIsHolds ==
    ASSUME NEW V, NEW W, NEW s \in Seq(V), NEW q \in Seq(W)
    PROVE  Search!Includes(s, q) <=> Holds(s, q)
<1>1. Len(s) \in Nat /\ Len(q) \in Nat
  OBVIOUS
<1>2. ASSUME Search!Includes(s, q) PROVE Holds(s, q)
  <2>1. PICK from \in 1..(Len(s) - Len(q) + 1) :
            \A i \in 1..Len(q) : s[from + i - 1] = q[i]
    BY <1>2 DEF Search!Includes
  <2> DEFINE at == from - 1
  <2>2. at \in Nat /\ at + Len(q) <= Len(s)
    BY <1>1
  <2>3. \A i \in 1..Len(q) : from + i - 1 = at + i
    BY <1>1
  <2>4. \A i \in 1..Len(q) : s[at + i] = q[i]
    BY <2>1, <2>3
  <2> HIDE DEF at
  <2>5. QED
    BY <2>2, <2>4 DEF Holds
<1>3. ASSUME Holds(s, q) PROVE Search!Includes(s, q)
  <2>1. PICK at \in Nat : at + Len(q) <= Len(s) /\ \A i \in 1..Len(q) : s[at + i] = q[i]
    BY <1>3 DEF Holds
  <2> DEFINE from == at + 1
  <2>2. from \in 1..(Len(s) - Len(q) + 1)
    BY <1>1, <2>1
  <2>3. \A i \in 1..Len(q) : from + i - 1 = at + i
    BY <1>1
  <2>4. \A i \in 1..Len(q) : s[from + i - 1] = q[i]
    BY <2>1, <2>3
  <2> HIDE DEF from
  <2>5. QED
    BY <2>2, <2>4 DEF Search!Includes
<1>4. QED
  BY <1>2, <1>3

LEMMA HoldsLeft ==
    ASSUME NEW V, NEW x \in Seq(V), NEW y \in Seq(V), NEW s \in Seq(V), Cat(s, x, y),
           NEW W, NEW q \in Seq(W), Holds(x, q)
    PROVE  Holds(s, q)
<1>1. PICK at \in Nat : at + Len(q) <= Len(x) /\ \A i \in 1..Len(q) : x[at + i] = q[i]
  BY DEF Holds
<1>2. Len(s) = Len(x) + Len(y) /\ Len(x) \in Nat /\ Len(y) \in Nat /\ Len(q) \in Nat
      /\ \A i \in 1..Len(x) : s[i] = x[i]
  BY DEF Cat
<1>3. ASSUME NEW i \in 1..Len(q) PROVE s[at + i] = q[i]
  <2>1. at + i \in 1..Len(x)
    BY <1>1, <1>2
  <2>2. QED
    BY <1>1, <1>2, <2>1
<1>4. at + Len(q) <= Len(s)
  BY <1>1, <1>2
<1>5. QED
  BY <1>3, <1>4 DEF Holds

LEMMA HoldsRight ==
    ASSUME NEW V, NEW x \in Seq(V), NEW y \in Seq(V), NEW s \in Seq(V), Cat(s, x, y),
           NEW W, NEW q \in Seq(W), Holds(y, q)
    PROVE  Holds(s, q)
<1>1. PICK at \in Nat : at + Len(q) <= Len(y) /\ \A i \in 1..Len(q) : y[at + i] = q[i]
  BY DEF Holds
<1>2. Len(s) = Len(x) + Len(y) /\ Len(x) \in Nat /\ Len(y) \in Nat /\ Len(q) \in Nat
      /\ \A i \in 1..Len(s) : i > Len(x) => s[i] = y[i - Len(x)]
  BY DEF Cat
<1> DEFINE b == Len(x) + at
<1>3. ASSUME NEW i \in 1..Len(q) PROVE s[b + i] = q[i]
  <2> DEFINE j == b + i
  <2>1. j \in 1..Len(s) /\ j > Len(x) /\ j - Len(x) = at + i
    BY <1>1, <1>2
  <2>2. s[j] = y[j - Len(x)]
    BY <1>2, <2>1
  <2>3. QED
    BY <1>1, <2>1, <2>2
<1>4. b \in Nat /\ b + Len(q) <= Len(s)
  BY <1>1, <1>2
<1> HIDE DEF b
<1>5. QED
  BY <1>3, <1>4 DEF Holds

LEMMA HoldsCat ==
    ASSUME NEW V, NEW x \in Seq(V), NEW y \in Seq(V), NEW W, NEW q \in Seq(W),
           Holds(x, q) \/ Holds(y, q)
    PROVE  x \o y \in Seq(V) /\ Holds(x \o y, q)
<1>1. x \o y \in Seq(V) /\ Cat(x \o y, x, y)
  BY CatFacts, Zenon
<1>2. QED
  BY <1>1, HoldsLeft, HoldsRight, Zenon

(* Flattening goes part by part, from the empty sequence.                  *)
Flattens(h, V, parts) ==
    /\ h[0] = <<>> /\ \A k \in 0..Len(parts) : h[k] \in Seq(V)
    /\ \A k \in 1..Len(parts) : h[k] = h[k - 1] \o parts[k]

LEMMA FlattenSteps ==
    ASSUME NEW V, NEW parts \in Seq(Seq(V))
    PROVE  \E h : Flattens(h, V, parts) /\ Search!FlattenSeq(parts) = h[Len(parts)]
<1> DEFINE n == Len(parts)
<1>1. n \in Nat /\ \A k \in 1..n : parts[k] \in Seq(V)
  OBVIOUS
<1>2. CASE n = 0
  <2> DEFINE h == [k \in {0} |-> <<>>]
  <2>1. parts = <<>> /\ Search!FlattenSeq(parts) = parts
    BY <1>2 DEF Search!FlattenSeq
  <2>2. h[0] = <<>> /\ h[0] \in Seq(V)
    OBVIOUS
  <2> HIDE DEF h
  <2>3. \A k \in 0..n : k = 0
    BY <1>2
  <2>4. \A k \in 0..n : h[k] \in Seq(V)
    BY <2>2, <2>3
  <2>5. \A k \in 1..n : FALSE
    BY <1>2
  <2>6. Flattens(h, V, parts)
    BY <2>2, <2>4, <2>5 DEF Flattens, n
  <2>7. QED
    BY <1>2, <2>1, <2>2, <2>6
<1>3. CASE n > 0
  <2>1. PICK g : Chained(g, parts) /\ Seo!FlattenSeq(parts) = g[n]
    BY <1>3, FlattenFacts
  <2> DEFINE h == [k \in 0..n |-> IF k = 0 THEN <<>> ELSE g[k]]
             S == {k \in Nat : h[k] \in Seq(V)}
  <2>2. h[0] = <<>> /\ \A k \in 1..n : h[k] = g[k]
    BY <1>1
  <2>3. \A k \in 1..n : parts[k] \in Seq(V) /\ <<>> \o parts[k] = parts[k]
    BY <1>1
  <2>4. g[1] = parts[1] /\ \A k \in 1..n : k # 1 => g[k] = g[k - 1] \o parts[k]
    BY <2>1 DEF Chained
  <2> HIDE DEF h, n
  <2>5. ASSUME NEW k \in 1..n PROVE h[k] = h[k - 1] \o parts[k]
    <3>1. CASE k = 1
      <4>1. k - 1 = 0
        BY <3>1
      <4>2. QED
        BY <2>2, <2>3, <2>4, <3>1, <4>1
    <3>2. CASE k # 1
      <4>1. k - 1 \in 1..n
        BY <1>1, <3>2
      <4>2. QED
        BY <2>2, <2>4, <3>2, <4>1
    <3>3. QED
      BY <3>1, <3>2
  <2>6. 0 \in S
    <3>1. <<>> \in Seq(V) /\ 0 \in Nat
      OBVIOUS
    <3>2. QED
      BY <2>2, <3>1
  <2>7. ASSUME NEW k \in 0..n, k \in S, k < n PROVE k + 1 \in S
    <3> DEFINE l == k + 1
    <3>1. l \in 1..n /\ l - 1 = k /\ l \in Nat
      BY <1>1, <2>7
    <3>2. h[l] = h[k] \o parts[l] /\ parts[l] \in Seq(V) /\ h[k] \in Seq(V)
      BY <2>3, <2>5, <2>7, <3>1
    <3> HIDE DEF l
    <3>3. h[k] \o parts[l] \in Seq(V)
      BY <3>2, CatFacts
    <3>4. l \in S
      BY <3>1, <3>2, <3>3
    <3>5. QED
      BY <3>4 DEF l
  <2>8. 0 \in Nat /\ 0 <= n /\ n \in 1..n
    BY <1>1, <1>3
  <2>9. \A k \in 0..n : k \in S /\ k < n => k + 1 \in S
    BY <2>7
  <2> HIDE DEF S
  <2>10. \A k \in 0..n : k \in S
    BY <1>1, <2>6, <2>8, <2>9, AllFrom, Zenon
  <2>11. Flattens(h, V, parts)
    BY <2>2, <2>5, <2>10 DEF Flattens, S, n
  <2>12. Search!FlattenSeq(parts) = h[n]
    <3>1. Search!FlattenSeq(parts) = Seo!FlattenSeq(parts)
      BY DEF Search!FlattenSeq, Seo!FlattenSeq
    <3>2. QED
      BY <2>1, <2>2, <2>8, <3>1
  <2>13. QED
    BY <2>11, <2>12 DEF n
<1>4. QED
  BY <1>1, <1>2, <1>3

LEMMA FlattenHolds ==
    ASSUME NEW V, NEW parts \in Seq(Seq(V)), NEW h, Flattens(h, V, parts),
           Search!FlattenSeq(parts) = h[Len(parts)],
           NEW k \in 0..Len(parts), NEW W, NEW q \in Seq(W), Holds(h[k], q)
    PROVE  Holds(Search!FlattenSeq(parts), q)
<1> DEFINE n == Len(parts)
           S == {l \in Nat : Holds(h[l], q)}
<1>1. n \in Nat /\ k \in Nat /\ k <= n /\ n \in k..n /\ \A l \in 1..n : parts[l] \in Seq(V)
  OBVIOUS
<1>2. /\ \A l \in 0..n : h[l] \in Seq(V)
      /\ \A l \in 1..n : h[l] = h[l - 1] \o parts[l]
  BY DEF Flattens
<1> HIDE DEF n
<1>3. k \in S
  BY <1>1
<1>4. ASSUME NEW l \in k..n, l \in S, l < n PROVE l + 1 \in S
  <2> DEFINE m == l + 1
  <2>1. m \in 1..n /\ m - 1 = l /\ m \in Nat /\ l \in 0..n
    BY <1>1, <1>4
  <2>2. h[m] = h[l] \o parts[m] /\ parts[m] \in Seq(V) /\ h[l] \in Seq(V) /\ Holds(h[l], q)
    BY <1>1, <1>2, <1>4, <2>1
  <2> HIDE DEF m
  <2>3. Holds(h[l] \o parts[m], q)
    BY <2>2, HoldsCat, Zenon
  <2>4. m \in S
    BY <2>1, <2>2, <2>3
  <2>5. QED
    BY <2>4 DEF m
<1>5. \A l \in k..n : l \in S /\ l < n => l + 1 \in S
  BY <1>4
<1> HIDE DEF S
<1>6. \A l \in k..n : l \in S
  BY <1>1, <1>3, <1>5, AllFrom, Zenon
<1>7. n \in S
  BY <1>1, <1>6
<1>8. QED
  BY <1>7 DEF S, n

(* A part is within what is flattened.                                     *)
LEMMA PartHolds ==
    ASSUME NEW V, NEW parts \in Seq(Seq(V)), NEW k \in 1..Len(parts),
           NEW W, NEW q \in Seq(W), Holds(parts[k], q)
    PROVE  Holds(Search!FlattenSeq(parts), q)
<1>1. PICK h : Flattens(h, V, parts) /\ Search!FlattenSeq(parts) = h[Len(parts)]
  BY FlattenSteps
<1>2. k - 1 \in 0..Len(parts) /\ k \in 0..Len(parts) /\ parts[k] \in Seq(V)
  OBVIOUS
<1>3. h[k] = h[k - 1] \o parts[k] /\ h[k - 1] \in Seq(V)
  BY <1>1, <1>2 DEF Flattens
<1>4. Holds(h[k - 1] \o parts[k], q)
  BY <1>2, <1>3, HoldsCat, Zenon
<1>5. QED
  BY <1>1, <1>2, <1>3, <1>4, FlattenHolds, Zenon

-----------------------------------------------------------------------------
(* What is built character by character.                                   *)

(* Every character adds a string, and itself when it is not special.       *)
Feeds(h, V, text, Special) ==
    /\ \A k \in 0..Len(text) : h[k] \in Seq(V)
    /\ \A k \in 1..Len(text) :
        \E y \in Seq(V) : h[k] = h[k - 1] \o y /\ (text[k] \notin Special => y = <<text[k]>>)

(* The string ends with the first j characters of q.                       *)
Trails(s, q, j) == \E at \in Nat : at + j = Len(s) /\ \A i \in 1..j : s[at + i] = q[i]

LEMMA TrailsOn ==
    ASSUME NEW V, NEW s \in Seq(V), NEW q \in Seq(V), NEW j \in Nat, j < Len(q), Trails(s, q, j),
           NEW c, c = q[j + 1]
    PROVE  Trails(s \o <<c>>, q, j + 1)
<1>1. PICK at \in Nat : at + j = Len(s) /\ \A i \in 1..j : s[at + i] = q[i]
  BY DEF Trails
<1> DEFINE t == s \o <<c>>   l == j + 1
<1>2. Len(s) \in Nat /\ l \in 1..Len(q) /\ l \in Nat
  OBVIOUS
<1>3. c \in V
  BY <1>2
<1>4. <<c>> \in Seq(V) /\ Len(<<c>>) = 1 /\ <<c>>[1] = c
  BY <1>3
<1>5. t \in Seq(V) /\ Cat(t, s, <<c>>)
  BY <1>4, CatFacts
<1> HIDE DEF t
<1>6. Len(t) = Len(s) + 1 /\ \A i \in 1..Len(s) : t[i] = s[i]
  BY <1>4, <1>5 DEF Cat
<1>7. t[Len(s) + 1] = c
  <2> DEFINE m == Len(s) + 1
  <2>1. m \in 1..Len(t) /\ m > Len(s) /\ m - Len(s) = 1
    BY <1>2, <1>6
  <2>2. t[m] = <<c>>[m - Len(s)]
    BY <1>5, <2>1 DEF Cat
  <2>3. QED
    BY <1>4, <2>1, <2>2
<1>8. ASSUME NEW i \in 1..l PROVE t[at + i] = q[i]
  <2>1. CASE i = l
    <3>1. at + i = Len(s) + 1
      BY <1>1, <1>2, <2>1
    <3>2. QED
      BY <1>7, <2>1, <3>1
  <2>2. CASE i # l
    <3>1. i \in 1..j /\ at + i \in 1..Len(s)
      BY <1>1, <1>2, <2>2
    <3>2. QED
      BY <1>1, <1>6, <3>1
  <2>3. QED
    BY <2>1, <2>2
<1>9. at + l = Len(t)
  BY <1>1, <1>2, <1>6
<1> HIDE DEF l
<1>10. Trails(t, q, l)
  BY <1>8, <1>9 DEF Trails
<1>11. QED
  BY <1>10 DEF t, l

LEMMA FedHolds ==
    ASSUME NEW V, NEW text \in Seq(V), NEW Special, NEW h, Feeds(h, V, text, Special),
           NEW q \in Seq(V), \A i \in 1..Len(q) : q[i] \notin Special, Holds(text, q)
    PROVE  Holds(h[Len(text)], q)
<1> DEFINE n == Len(text)   l == Len(q)
<1>1. PICK at \in Nat : at + l <= n /\ \A i \in 1..l : text[at + i] = q[i]
  BY DEF Holds
<1>2. n \in Nat /\ l \in Nat /\ 0 \in Nat /\ 0 <= l /\ l \in 0..l
  OBVIOUS
<1>3. /\ \A k \in 0..n : h[k] \in Seq(V)
      /\ \A k \in 1..n :
          \E y \in Seq(V) : h[k] = h[k - 1] \o y /\ (text[k] \notin Special => y = <<text[k]>>)
  BY DEF Feeds
<1> DEFINE S == {j \in Nat : Trails(h[at + j], q, j)}
           T == {k \in Nat : Holds(h[k], q)}
<1> HIDE DEF n
<1>4. 0 \in S
  <2>1. h[at] \in Seq(V) /\ at + 0 = at
    BY <1>1, <1>2, <1>3
  <2>2. Len(h[at]) \in Nat /\ Len(h[at]) + 0 = Len(h[at]) /\ \A i \in 1..0 : FALSE
    BY <2>1
  <2>3. Trails(h[at], q, 0)
    BY <2>2 DEF Trails
  <2>4. QED
    BY <2>1, <2>3
<1>5. ASSUME NEW j \in 0..l, j \in S, j < l PROVE j + 1 \in S
  <2> DEFINE m == j + 1   k == at + m
  <2>1. m \in 1..l /\ k \in 1..n /\ k - 1 = at + j /\ at + j \in 0..n /\ j \in Nat /\ m \in Nat
    BY <1>1, <1>2, <1>5
  <2>2. text[k] = q[m] /\ q[m] \notin Special
    BY <1>1, <2>1
  <2>3. h[k] = h[at + j] \o <<q[m]>>
    <3> HIDE DEF k, m
    <3>1. PICK y \in Seq(V) : h[k] = h[k - 1] \o y /\ (text[k] \notin Special => y = <<text[k]>>)
      BY <1>3, <2>1
    <3>2. QED
      BY <2>1, <2>2, <3>1
  <2>4. h[at + j] \in Seq(V) /\ Trails(h[at + j], q, j)
    BY <1>3, <1>5, <2>1
  <2>5. Trails(h[at + j] \o <<q[m]>>, q, j + 1)
    BY <1>5, <2>1, <2>4, TrailsOn
  <2>6. Trails(h[k], q, m)
    BY <2>3, <2>5
  <2> HIDE DEF m
  <2>7. m \in S
    BY <2>1, <2>6
  <2>8. QED
    BY <2>7 DEF m
<1>6. \A j \in 0..l : j \in S /\ j < l => j + 1 \in S
  BY <1>5
<1> HIDE DEF S, l
<1>7. \A j \in 0..l : j \in S
  BY <1>2, <1>4, <1>6, AllFrom, Zenon
<1> DEFINE from == at + l
<1>8. from \in Nat /\ from <= n /\ n \in from..n
  BY <1>1, <1>2
<1>9. from \in T
  <2>1. Trails(h[from], q, l)
    BY <1>2, <1>7 DEF S
  <2>2. PICK b \in Nat : b + l = Len(h[from]) /\ \A i \in 1..l : h[from][b + i] = q[i]
    BY <2>1 DEF Trails
  <2>3. b + l <= Len(h[from])
    BY <1>2, <2>2
  <2>4. Holds(h[from], q)
    BY <2>2, <2>3 DEF Holds, l
  <2>5. QED
    BY <1>8, <2>4
<1> HIDE DEF from
<1>10. ASSUME NEW k \in from..n, k \in T, k < n PROVE k + 1 \in T
  <2> DEFINE m == k + 1
  <2>1. m \in 1..n /\ m - 1 = k /\ m \in Nat /\ k \in 0..n
    BY <1>2, <1>8, <1>10
  <2> HIDE DEF m
  <2>2. PICK y \in Seq(V) : h[m] = h[m - 1] \o y
    BY <1>3, <2>1
  <2>3. h[k] \in Seq(V) /\ Holds(h[k], q) /\ h[m] = h[k] \o y
    BY <1>3, <1>10, <2>1, <2>2
  <2>4. Holds(h[k] \o y, q)
    BY <2>3, HoldsCat, Zenon
  <2>5. m \in T
    BY <2>1, <2>3, <2>4
  <2>6. QED
    BY <2>5 DEF m
<1>11. \A k \in from..n : k \in T /\ k < n => k + 1 \in T
  BY <1>10
<1> HIDE DEF T
<1>12. \A k \in from..n : k \in T
  BY <1>2, <1>8, <1>9, <1>11, AllFrom, Zenon
<1>13. n \in T
  BY <1>8, <1>12
<1>14. QED
  BY <1>13 DEF T, n

LEMMA CharacterFacts ==
    /\ \A c \in Search!Blanks \cup Search!Quotes \cup {"{", "}", "n"} : c \in Characters
    /\ \A c \in Characters : <<c>> \in Seq(Characters) /\ Search!Escape(c) \in Seq(Characters)
    /\ <<"{", "\"">> \in Seq(Characters) /\ <<>> \in Seq(Characters)
<1>1. /\ \A c \in Search!Blanks \cup Search!Quotes \cup {"{", "}", "n"} : c \in Characters
      /\ "\\" \in Characters /\ "n" \in Characters /\ "{" \in Characters /\ "\"" \in Characters
  BY SearchAssumption DEF Search!ConstantsAssumption, Search!Quotes
<1>2. ASSUME NEW c \in Characters
      PROVE  <<c>> \in Seq(Characters) /\ Search!Escape(c) \in Seq(Characters)
  <2> DEFINE b == "\\"   m == "n"
  <2>1. b \in Characters /\ m \in Characters
    BY <1>1
  <2>2. Search!Escape(c) \in {<<b, c>>, <<b, m>>, <<c>>}
    BY DEF Search!Escape
  <2> HIDE DEF b, m
  <2>3. <<b, c>> \in Seq(Characters)
    BY <2>1
  <2>4. <<b, m>> \in Seq(Characters)
    BY <2>1
  <2>5. <<c>> \in Seq(Characters)
    OBVIOUS
  <2>6. QED
    BY <2>2, <2>3, <2>4, <2>5
<1>3. <<"{", "\"">> \in Seq(Characters)
  <2> DEFINE a == "{"   b == "\""
  <2>1. a \in Characters /\ b \in Characters
    BY <1>1
  <2> HIDE DEF a, b
  <2>2. <<a, b>> \in Seq(Characters)
    BY <2>1
  <2>3. QED
    BY <2>2 DEF a, b
<1>4. <<>> \in Seq(Characters)
  OBVIOUS
<1>5. QED
  BY <1>1, <1>2, <1>3, <1>4

LEMMA AppendIsCat ==
    ASSUME NEW V, NEW s \in Seq(V), NEW c \in V
    PROVE  Append(s, c) = s \o <<c>>
<1> DEFINE t == Append(s, c)   w == s \o <<c>>   n == Len(s) + 1
<1>1. Len(s) \in Nat /\ <<c>> \in Seq(V) /\ Len(<<c>>) = 1 /\ <<c>>[1] = c
  OBVIOUS
<1>2. t \in Seq(V) /\ Len(t) = n /\ t[n] = c /\ \A i \in 1..Len(s) : t[i] = s[i]
  OBVIOUS
<1>3. w \in Seq(V) /\ Cat(w, s, <<c>>)
  BY <1>1, CatFacts
<1> HIDE DEF t, w
<1>4. Len(w) = n /\ \A i \in 1..Len(s) : w[i] = s[i]
  BY <1>1, <1>3 DEF Cat
<1>5. w[n] = c
  <2>1. n \in 1..Len(w) /\ n > Len(s) /\ n - Len(s) = 1
    BY <1>1, <1>4
  <2>2. w[n] = <<c>>[n - Len(s)]
    BY <1>3, <2>1 DEF Cat
  <2>3. QED
    BY <1>1, <2>1, <2>2
<1>6. \A i \in 1..n : t[i] = w[i]
  BY <1>1, <1>2, <1>4, <1>5
<1>7. t = w
  BY <1>2, <1>3, <1>4, <1>6
<1>8. QED
  BY <1>7 DEF t, w

(* What JSON escapes is not looked for.                                    *)
Marks == Search!Quotes \cup {"\n", "\t"}

LEMMA EscapedHolds ==
    ASSUME NEW text \in Seq(Characters)
    PROVE  /\ Search!Escaped(text) \in Seq(Characters)
           /\ \A q \in Seq(Characters) :
                (\A i \in 1..Len(q) : q[i] \notin Marks) /\ Holds(text, q)
                    => Holds(Search!Escaped(text), q)
<1> DEFINE V == Characters
           parts == [i \in 1..Len(text) |-> Search!Escape(text[i])]
           n == Len(text)
<1>1. n \in Nat /\ \A i \in 1..n : text[i] \in V
  OBVIOUS
<1>2. \A i \in 1..n : Search!Escape(text[i]) \in Seq(V)
  BY <1>1, CharacterFacts
<1>3. parts \in Seq(Seq(V)) /\ Len(parts) = n
  BY <1>1, <1>2
<1>4. \A i \in 1..n : /\ parts[i] = Search!Escape(text[i])
                      /\ text[i] \notin Marks => parts[i] = <<text[i]>>
  BY <1>1 DEF Marks, Search!Escape
<1>5. Search!Escaped(text) = Search!FlattenSeq(parts)
  BY DEF Search!Escaped
<1> HIDE DEF parts
<1>6. PICK h : Flattens(h, V, parts) /\ Search!FlattenSeq(parts) = h[n]
  BY <1>3, FlattenSteps
<1>7. Feeds(h, V, text, Marks)
  <2>1. ASSUME NEW k \in 1..n
        PROVE  \E y \in Seq(V) : h[k] = h[k - 1] \o y /\ (text[k] \notin Marks => y = <<text[k]>>)
    <3>1. h[k] = h[k - 1] \o parts[k] /\ parts[k] \in Seq(V)
      BY <1>2, <1>3, <1>4, <1>6 DEF Flattens
    <3>2. QED
      BY <1>4, <3>1
  <2>2. \A k \in 0..n : h[k] \in Seq(V)
    BY <1>3, <1>6 DEF Flattens
  <2>3. QED
    BY <2>1, <2>2 DEF Feeds
<1>8. Search!Escaped(text) \in Seq(V)
  BY <1>3, <1>5, FlattenIsSeq
<1>9. QED
  BY <1>5, <1>6, <1>7, <1>8, FedHolds

LEMMA CollapsedFacts ==
    ASSUME NEW out \in Seq(Characters), NEW c \in Characters
    PROVE  /\ Search!Collapsed(out, c) \in Seq(Characters)
           /\ \E y \in Seq(Characters) :
                /\ Search!Collapsed(out, c) = out \o y
                /\ c \notin Search!Blanks => y = <<c>>
<1>1. " " \in Characters /\ <<" ">> \in Seq(Characters) /\ <<c>> \in Seq(Characters)
      /\ <<>> \in Seq(Characters)
  BY CharacterFacts DEF Search!Blanks
<1>2. Append(out, c) = out \o <<c>> /\ Append(out, " ") = out \o <<" ">> /\ out = out \o <<>>
  <2>1. Append(out, c) = out \o <<c>>
    BY AppendIsCat
  <2>2. Append(out, " ") = out \o <<" ">>
    BY <1>1, AppendIsCat
  <2>3. out = out \o <<>>
    OBVIOUS
  <2>4. QED
    BY <2>1, <2>2, <2>3
<1>3. \E y \in Seq(Characters) :
          Search!Collapsed(out, c) = out \o y /\ (c \notin Search!Blanks => y = <<c>>)
  <2>1. CASE c \notin Search!Blanks
    BY <1>1, <1>2, <2>1 DEF Search!Collapsed
  <2>2. CASE c \in Search!Blanks /\ (out = <<>> \/ Search!Ends(out, " "))
    BY <1>1, <1>2, <2>2 DEF Search!Collapsed
  <2>3. CASE c \in Search!Blanks /\ ~(out = <<>> \/ Search!Ends(out, " "))
    BY <1>1, <1>2, <2>3 DEF Search!Collapsed
  <2>4. QED
    BY <2>1, <2>2, <2>3
<1>4. PICK y \in Seq(Characters) : Search!Collapsed(out, c) = out \o y
  BY <1>3
<1>5. out \o y \in Seq(Characters)
  OBVIOUS
<1>6. QED
  BY <1>3, <1>4, <1>5

(* The steps of Collapse.                                                  *)
OutOf(text) ==
    CHOOSE out : out = [i \in 0..Len(text) |->
                           IF i = 0 THEN <<>> ELSE Search!Collapsed(out[i - 1], text[i])]

OutSteps(out, text) ==
    /\ out[0] = <<>>
    /\ \A k \in 1..Len(text) : out[k] = Search!Collapsed(out[k - 1], text[k])

LEMMA OutFacts ==
    ASSUME NEW text \in Seq(Characters)
    PROVE  /\ OutSteps(OutOf(text), text)
           /\ Feeds(OutOf(text), Characters, text, Search!Blanks)
<1> DEFINE n == Len(text)   V == Characters
           step == [x \in Seq(V) \X Nat |->
                       IF x[2] \in 1..n THEN Search!Collapsed(x[1], text[x[2]]) ELSE x[1]]
           F(out) == [i \in 0..n |-> IF i = 0 THEN <<>> ELSE Search!Collapsed(out[i - 1], text[i])]
<1>1. n \in Nat /\ 0 \in Nat /\ 0 <= n /\ <<>> \in Seq(V) /\ \A i \in 1..n : text[i] \in V
  OBVIOUS
<1>2. \A s \in Seq(V), i \in 1..n : Search!Collapsed(s, text[i]) \in Seq(V)
  BY <1>1, CollapsedFacts
<1>3. step \in [Seq(V) \X Nat -> Seq(V)]
  BY <1>2
<1>4. \A s \in Seq(V), i \in 1..n : step[<<s, i>>] = Search!Collapsed(s, text[i])
  <2>1. ASSUME NEW s \in Seq(V), NEW i \in 1..n
        PROVE  step[<<s, i>>] = Search!Collapsed(s, text[i])
    <3>1. i \in Nat /\ <<s, i>> \in Seq(V) \X Nat
      OBVIOUS
    <3>2. QED
      BY <3>1
  <2>2. QED
    BY <2>1
<1> HIDE DEF step, n
<1>5. PICK g : Computes(g, Seq(V), 0, n, <<>>, step)
  BY <1>1, <1>3, Computed, Zenon
<1>6. g \in [0..n -> Seq(V)] /\ g[0] = <<>> /\ \A k \in 0..n : k # 0 => g[k] = step[<<g[k - 1], k>>]
  BY <1>5 DEF Computes
<1>7. \A k \in 1..n : g[k] = Search!Collapsed(g[k - 1], text[k])
  <2>1. ASSUME NEW k \in 1..n PROVE g[k] = Search!Collapsed(g[k - 1], text[k])
    <3>1. k \in 0..n /\ k # 0 /\ k - 1 \in 0..n
      BY <1>1
    <3>2. g[k - 1] \in Seq(V)
      BY <1>6, <3>1
    <3>3. g[k] = step[<<g[k - 1], k>>]
      BY <1>6, <3>1
    <3>4. QED
      BY <1>4, <3>2, <3>3
  <2>2. QED
    BY <2>1
<1>8. g = F(g)
  <2>1. \A i \in 0..n : g[i] = IF i = 0 THEN <<>> ELSE Search!Collapsed(g[i - 1], text[i])
    BY <1>1, <1>6, <1>7
  <2>2. QED
    BY <1>6, <2>1
<1> DEFINE out == OutOf(text)
<1>9. out = F(out)
  BY <1>8 DEF OutOf, n
<1> HIDE DEF out
<1>10. out[0] = <<>> /\ \A k \in 1..n : out[k] = Search!Collapsed(out[k - 1], text[k])
  BY <1>1, <1>9
<1> DEFINE S == {k \in Nat : out[k] \in Seq(V)}
<1>11. 0 \in S
  BY <1>1, <1>10
<1>12. ASSUME NEW k \in 0..n, k \in S, k < n PROVE k + 1 \in S
  <2> DEFINE m == k + 1
  <2>1. m \in 1..n /\ m - 1 = k /\ m \in Nat
    BY <1>1, <1>12
  <2>2. out[m] = Search!Collapsed(out[k], text[m]) /\ out[k] \in Seq(V)
    BY <1>10, <1>12, <2>1
  <2> HIDE DEF m
  <2>3. m \in S
    BY <1>2, <2>1, <2>2
  <2>4. QED
    BY <2>3 DEF m
<1>13. \A k \in 0..n : k \in S /\ k < n => k + 1 \in S
  BY <1>12
<1> HIDE DEF S
<1>14. \A k \in 0..n : k \in S
  BY <1>1, <1>11, <1>13, AllFrom, Zenon
<1>15. \A k \in 0..n : out[k] \in Seq(V)
  BY <1>14 DEF S
<1>16. ASSUME NEW k \in 1..n
       PROVE  \E y \in Seq(V) : out[k] = out[k - 1] \o y
                                /\ (text[k] \notin Search!Blanks => y = <<text[k]>>)
  <2>1. k - 1 \in 0..n /\ text[k] \in V
    BY <1>1
  <2>2. out[k] = Search!Collapsed(out[k - 1], text[k]) /\ out[k - 1] \in Seq(V)
    BY <1>10, <1>15, <2>1
  <2> DEFINE s == out[k - 1]   c == text[k]
  <2>3. s \in Seq(V) /\ c \in V /\ out[k] = Search!Collapsed(s, c)
    BY <2>1, <2>2
  <2> HIDE DEF s, c
  <2>4. PICK y \in Seq(V) : /\ Search!Collapsed(s, c) = s \o y
                            /\ c \notin Search!Blanks => y = <<c>>
    BY <2>3, CollapsedFacts
  <2>5. QED
    BY <2>3, <2>4 DEF s, c
<1>17. QED
  BY <1>10, <1>15, <1>16 DEF Feeds, OutSteps, n, out

LEMMA CollapseHolds ==
    ASSUME NEW text \in Seq(Characters), NEW q \in Seq(Characters), q # <<>>,
           \A i \in 1..Len(q) : q[i] \notin Search!Blanks, Holds(text, q)
    PROVE  Search!Collapse(text) \in Seq(Characters) /\ Holds(Search!Collapse(text), q)
<1> DEFINE all == OutOf(text)[Len(text)]   V == Characters   L == Len(all)   l == Len(q)
<1>1. Search!Collapse(text) = IF Search!Ends(all, " ") THEN SubSeq(all, 1, L - 1) ELSE all
  BY DEF Search!Collapse, OutOf
<1>2. Feeds(OutOf(text), V, text, Search!Blanks)
  BY OutFacts
<1>3. Len(text) \in 0..Len(text)
  OBVIOUS
<1>4. all \in Seq(V)
  BY <1>2, <1>3 DEF Feeds
<1>5. Holds(all, q)
  BY <1>2, FedHolds
<1> HIDE DEF all
<1>6. L \in Nat /\ l \in Nat /\ l > 0 /\ l \in 1..l
  BY <1>4
<1>7. CASE Search!Ends(all, " ")
  <2>1. PICK at \in Nat : at + l <= L /\ \A i \in 1..l : all[at + i] = q[i]
    BY <1>5 DEF Holds
  <2>2. all[L] = " "
    BY <1>7 DEF Search!Ends
  <2>3. q[l] # " "
    BY <1>6 DEF Search!Blanks
  <2>4. at + l # L
    BY <1>6, <2>1, <2>2, <2>3
  <2> DEFINE m == L - 1
  <2>5. m \in 0..L /\ m \in Nat /\ at + l <= m
    BY <1>6, <2>1, <2>4
  <2> HIDE DEF m
  <2>6. /\ Upto(all, m) \in Seq(V) /\ Len(Upto(all, m)) = m
        /\ \A i \in 1..m : Upto(all, m)[i] = all[i]
    BY <1>4, <2>5, UptoFacts
  <2>7. \A i \in 1..l : Upto(all, m)[at + i] = q[i]
    <3>1. \A i \in 1..l : at + i \in 1..m
      BY <1>6, <2>5
    <3>2. QED
      BY <2>1, <2>6, <3>1
  <2>8. Holds(Upto(all, m), q)
    BY <2>5, <2>6, <2>7 DEF Holds
  <2>9. Search!Collapse(text) = Upto(all, m)
    BY <1>1, <1>7 DEF Upto, m
  <2>10. QED
    BY <2>6, <2>8, <2>9
<1>8. CASE ~Search!Ends(all, " ")
  BY <1>1, <1>4, <1>5, <1>8
<1>9. QED
  BY <1>7, <1>8

-----------------------------------------------------------------------------
(* Trees, from the leaves up.                                              *)

LEMMA FromLeaves ==
    ASSUME NEW S,
           \A node \in Nodes :
                (\A i \in 1..Len(node.children) : node.children[i] \in S) => node \in S
    PROVE  \A node \in Nodes : node \in S
<1> DEFINE T == {Height[node] : node \in {node \in Nodes : node \notin S}}
<1>1. SUFFICES ASSUME NEW other \in Nodes, other \notin S PROVE FALSE
  OBVIOUS
<1>2. T \in SUBSET Nat /\ T # {}
  BY <1>1, NodeFacts
<1>3. PICK m \in T : \A l \in T : m <= l
  BY <1>2, LeastOf
<1>4. PICK node \in Nodes : node \notin S /\ Height[node] = m
  OBVIOUS
<1>5. ASSUME NEW i \in 1..Len(node.children) PROVE node.children[i] \in S
  <2>1. node.children[i] \in Nodes /\ Height[node.children[i]] < m
        /\ Height[node.children[i]] \in Nat /\ m \in Nat
    BY <1>2, <1>3, <1>4, NodeFacts
  <2> DEFINE child == node.children[i]   l == Height[child]
  <2>2. child \notin S => l \in T
    BY <2>1
  <2>3. l < m /\ l \in Nat /\ m \in Nat
    BY <2>1
  <2> HIDE DEF T, l
  <2>4. l \in T => m <= l
    BY <1>3
  <2>5. l \notin T
    BY <2>3, <2>4
  <2>6. QED
    BY <2>2, <2>5
<1>6. QED
  BY <1>4, <1>5

(* What the children of a node yield, one after the other.                 *)
Parts(f, node) == [i \in 1..Len(node.children) |-> f[node.children[i]]]
Yield(f, node) == Search!FlattenSeq(Parts(f, node))

LEMMA PartsFacts ==
    ASSUME NEW node \in Nodes, NEW f,
           \A i \in 1..Len(node.children) : f[node.children[i]] \in Seq(Characters)
    PROVE  /\ Parts(f, node) \in Seq(Seq(Characters))
           /\ Len(Parts(f, node)) = Len(node.children)
           /\ \A i \in 1..Len(node.children) : Parts(f, node)[i] = f[node.children[i]]
           /\ Yield(f, node) \in Seq(Characters)
<1>1. Len(node.children) \in Nat
  BY NodeFacts
<1>2. /\ Parts(f, node) \in Seq(Seq(Characters))
      /\ Len(Parts(f, node)) = Len(node.children)
      /\ \A i \in 1..Len(node.children) : Parts(f, node)[i] = f[node.children[i]]
  BY <1>1 DEF Parts
<1>3. Yield(f, node) \in Seq(Characters)
  BY <1>2, FlattenIsSeq DEF Yield
<1>4. QED
  BY <1>2, <1>3

(* The text and the JSON of a node, from those of its children.            *)
TextWith(node, children) ==
    CASE node.type = "linebreak"            -> <<"\n">>
      [] node.type = "tab"                  -> <<"\t">>
      [] node.type \in Search!TextLeaf      -> node.text
      [] node.type \in Search!Decorators    -> <<>>
      [] node.type \in Search!Inline        -> children
      [] OTHER                              -> children \o <<"\n">>
JsonWith(node, children) ==
    <<"{", "\"">> \o Search!Escaped(node.text) \o <<"\"">> \o node.url \o children \o <<"}">>

LEMMA WithFacts ==
    ASSUME NEW node \in Nodes, NEW children \in Seq(Characters)
    PROVE  TextWith(node, children) \in Seq(Characters)
           /\ JsonWith(node, children) \in Seq(Characters)
<1> DEFINE V == Characters   line == <<"\n">>   tab == <<"\t">>   open == <<"{", "\"">>
           quote == <<"\"">>   close == <<"}">>   text == node.text   url == node.url
           escaped == Search!Escaped(text)
<1>1. text \in Seq(V) /\ url \in Seq(V)
  BY NodeFacts
<1>2. line \in Seq(V) /\ tab \in Seq(V) /\ open \in Seq(V) /\ quote \in Seq(V)
      /\ close \in Seq(V) /\ <<>> \in Seq(V)
  <2>1. "\n" \in V /\ "\t" \in V /\ "\"" \in V /\ "}" \in V
    BY CharacterFacts DEF Search!Blanks, Search!Quotes
  <2>2. QED
    BY <2>1, CharacterFacts
<1>3. escaped \in Seq(V)
  BY <1>1, EscapedHolds
<1>4. children \o line \in Seq(V)
  BY <1>2, CatFacts
<1>5. TextWith(node, children) \in {line, tab, text, <<>>, children, children \o line}
  BY DEF TextWith
<1>6. JsonWith(node, children) = open \o escaped \o quote \o url \o children \o close
  BY DEF JsonWith
<1> HIDE DEF V, line, tab, open, quote, close, text, url, escaped
<1>7. TextWith(node, children) \in Seq(V)
  <2>1. children \in Seq(V)
    BY DEF V
  <2>2. QED
    BY <1>1, <1>2, <1>4, <1>5, <2>1
<1>8. open \o escaped \o quote \o url \o children \o close \in Seq(V)
  <2>0. children \in Seq(V)
    BY DEF V
  <2>1. open \o escaped \in Seq(V)
    BY <1>2, <1>3
  <2>2. open \o escaped \o quote \in Seq(V)
    BY <1>2, <2>1
  <2>3. open \o escaped \o quote \o url \in Seq(V)
    BY <1>1, <2>2
  <2>4. open \o escaped \o quote \o url \o children \in Seq(V)
    BY <2>0, <2>3
  <2>5. QED
    BY <1>2, <2>4
<1>9. QED
  BY <1>6, <1>7, <1>8 DEF V

LEMMA WalkFacts ==
    \A node \in Nodes :
        /\ Search!Walk[node] = TextWith(node, Yield(Search!Walk, node))
        /\ Search!Walk[node] \in Seq(Characters)
<1> DEFINE V == Seq(Characters)
           F(w) == [node \in Nodes |-> TextWith(node, Yield(w, node))]
           step == [x \in Nodes \X [Nodes -> V] |-> TextWith(x[1], Yield(x[2], x[1]))]
<1>1. ASSUME NEW node \in Nodes, NEW f \in [Nodes -> V]
      PROVE  /\ step[<<node, f>>] = TextWith(node, Yield(f, node))
             /\ TextWith(node, Yield(f, node)) \in V
  <2>1. \A i \in 1..Len(node.children) : f[node.children[i]] \in V
    BY NodeFacts
  <2>2. Yield(f, node) \in V
    BY <2>1, PartsFacts
  <2>3. TextWith(node, Yield(f, node)) \in V
    BY <2>2, WithFacts
  <2>4. QED
    BY <2>3
<1>2. step \in [Nodes \X [Nodes -> V] -> V]
  BY <1>1
<1>3. Local(V, step)
  <2> SUFFICES ASSUME NEW node \in Nodes, NEW f \in [Nodes -> V], NEW g \in [Nodes -> V],
                      \A i \in 1..Len(node.children) : f[node.children[i]] = g[node.children[i]]
               PROVE  step[<<node, f>>] = step[<<node, g>>]
    BY DEF Local
  <2>1. Parts(f, node) = Parts(g, node)
    BY DEF Parts
  <2> HIDE DEF step
  <2>2. QED
    BY <1>1, <2>1 DEF Yield
<1>4. <<>> \in V
  OBVIOUS
<1> HIDE DEF step
<1>5. PICK w \in [Nodes -> V] : \A node \in Nodes : w[node] = step[<<node, w>>]
  BY <1>2, <1>3, <1>4, TreeComputed
<1>6. w = F(w)
  <2>1. \A node \in Nodes : w[node] = TextWith(node, Yield(w, node))
    BY <1>1, <1>5
  <2>2. QED
    BY <2>1
<1>7. Search!Walk = F(Search!Walk)
  <2>1. Search!Walk = CHOOSE f : f = F(f)
    BY DEF Search!Walk, TextWith, Yield, Parts
  <2> HIDE DEF F
  <2>2. QED
    BY <1>6, <2>1
<1>8. \A node \in Nodes : Search!Walk[node] = TextWith(node, Yield(Search!Walk, node))
  BY <1>7
<1> DEFINE S == {node \in Nodes : Search!Walk[node] \in V}
<1>9. ASSUME NEW node \in Nodes, \A i \in 1..Len(node.children) : node.children[i] \in S
      PROVE  node \in S
  <2>1. Yield(Search!Walk, node) \in V
    BY <1>9, PartsFacts
  <2>2. QED
    BY <1>8, <2>1, WithFacts
<1> HIDE DEF S
<1>10. \A node \in Nodes : node \in S
  BY <1>9, FromLeaves
<1>11. QED
  BY <1>8, <1>10 DEF S

LEMMA JsonFacts ==
    \A node \in Nodes :
        /\ Search!Json[node] = JsonWith(node, Yield(Search!Json, node))
        /\ Search!Json[node] \in Seq(Characters)
<1> DEFINE V == Seq(Characters)
           F(w) == [node \in Nodes |-> JsonWith(node, Yield(w, node))]
           step == [x \in Nodes \X [Nodes -> V] |-> JsonWith(x[1], Yield(x[2], x[1]))]
<1>1. ASSUME NEW node \in Nodes, NEW f \in [Nodes -> V]
      PROVE  /\ step[<<node, f>>] = JsonWith(node, Yield(f, node))
             /\ JsonWith(node, Yield(f, node)) \in V
  <2>1. \A i \in 1..Len(node.children) : f[node.children[i]] \in V
    BY NodeFacts
  <2>2. Yield(f, node) \in V
    BY <2>1, PartsFacts
  <2>3. JsonWith(node, Yield(f, node)) \in V
    BY <2>2, WithFacts
  <2>4. QED
    BY <2>3
<1>2. step \in [Nodes \X [Nodes -> V] -> V]
  BY <1>1
<1>3. Local(V, step)
  <2> SUFFICES ASSUME NEW node \in Nodes, NEW f \in [Nodes -> V], NEW g \in [Nodes -> V],
                      \A i \in 1..Len(node.children) : f[node.children[i]] = g[node.children[i]]
               PROVE  step[<<node, f>>] = step[<<node, g>>]
    BY DEF Local
  <2>1. Parts(f, node) = Parts(g, node)
    BY DEF Parts
  <2> HIDE DEF step
  <2>2. QED
    BY <1>1, <2>1 DEF Yield
<1>4. <<>> \in V
  OBVIOUS
<1> HIDE DEF step
<1>5. PICK w \in [Nodes -> V] : \A node \in Nodes : w[node] = step[<<node, w>>]
  BY <1>2, <1>3, <1>4, TreeComputed
<1>6. w = F(w)
  <2>1. \A node \in Nodes : w[node] = JsonWith(node, Yield(w, node))
    BY <1>1, <1>5
  <2>2. QED
    BY <2>1
<1>7. Search!Json = F(Search!Json)
  <2>1. Search!Json = CHOOSE f : f = F(f)
    BY DEF Search!Json, JsonWith, Yield, Parts
  <2> HIDE DEF F
  <2>2. QED
    BY <1>6, <2>1
<1>8. \A node \in Nodes : Search!Json[node] = JsonWith(node, Yield(Search!Json, node))
  BY <1>7
<1> DEFINE S == {node \in Nodes : Search!Json[node] \in V}
<1>9. ASSUME NEW node \in Nodes, \A i \in 1..Len(node.children) : node.children[i] \in S
      PROVE  node \in S
  <2>1. Yield(Search!Json, node) \in V
    BY <1>9, PartsFacts
  <2>2. QED
    BY <1>8, <2>1, WithFacts
<1> HIDE DEF S
<1>10. \A node \in Nodes : node \in S
  BY <1>9, FromLeaves
<1>11. QED
  BY <1>8, <1>10 DEF S

ProseWith(f, node) ==
    IF node.type \in Search!TextLeaf THEN {node.text}
    ELSE IF node.type \in Search!Breaks \cup Search!Decorators THEN {}
    ELSE UNION {f[node.children[i]] : i \in 1..Len(node.children)}

LEMMA ProseFacts ==
    \A node \in Nodes : /\ Search!Prose[node] = ProseWith(Search!Prose, node)
                        /\ Search!Prose[node] \in SUBSET Seq(Characters)
<1> DEFINE V == SUBSET Seq(Characters)
           F(w) == [node \in Nodes |-> ProseWith(w, node)]
           step == [x \in Nodes \X [Nodes -> V] |-> ProseWith(x[2], x[1])]
<1>0. ASSUME NEW node \in Nodes, NEW f,
             \A i \in 1..Len(node.children) : f[node.children[i]] \in V
      PROVE  ProseWith(f, node) \in V
  BY <1>0, NodeFacts DEF ProseWith
<1>1. ASSUME NEW node \in Nodes, NEW f \in [Nodes -> V]
      PROVE  /\ step[<<node, f>>] = ProseWith(f, node)
             /\ ProseWith(f, node) \in V
  <2>1. \A i \in 1..Len(node.children) : f[node.children[i]] \in V
    BY NodeFacts
  <2>2. ProseWith(f, node) \in V
    BY <1>0, <2>1
  <2>3. QED
    BY <2>2
<1>2. step \in [Nodes \X [Nodes -> V] -> V]
  BY <1>1
<1>3. Local(V, step)
  <2> SUFFICES ASSUME NEW node \in Nodes, NEW f \in [Nodes -> V], NEW g \in [Nodes -> V],
                      \A i \in 1..Len(node.children) : f[node.children[i]] = g[node.children[i]]
               PROVE  step[<<node, f>>] = step[<<node, g>>]
    BY DEF Local
  <2>0. {f[node.children[i]] : i \in 1..Len(node.children)}
          = {g[node.children[i]] : i \in 1..Len(node.children)}
    OBVIOUS
  <2>1. ProseWith(f, node) = ProseWith(g, node)
    BY <2>0 DEF ProseWith
  <2> HIDE DEF step
  <2>2. QED
    BY <1>1, <2>1
<1>4. {} \in V
  OBVIOUS
<1> HIDE DEF step
<1>5. PICK w \in [Nodes -> V] : \A node \in Nodes : w[node] = step[<<node, w>>]
  BY <1>2, <1>3, <1>4, TreeComputed
<1>6. w = F(w)
  <2>1. \A node \in Nodes : w[node] = ProseWith(w, node)
    BY <1>1, <1>5
  <2>2. QED
    BY <2>1
<1>7. Search!Prose = F(Search!Prose)
  <2>1. Search!Prose = CHOOSE f : f = F(f)
    BY DEF Search!Prose, ProseWith
  <2> HIDE DEF F
  <2>2. QED
    BY <1>6, <2>1
<1>8. \A node \in Nodes : Search!Prose[node] = ProseWith(Search!Prose, node)
  BY <1>7
<1> DEFINE S == {node \in Nodes : Search!Prose[node] \in V}
<1>9. ASSUME NEW node \in Nodes, \A i \in 1..Len(node.children) : node.children[i] \in S
      PROVE  node \in S
  BY <1>0, <1>8, <1>9
<1> HIDE DEF S
<1>10. \A node \in Nodes : node \in S
  BY <1>9, FromLeaves
<1>11. QED
  BY <1>8, <1>10 DEF S

-----------------------------------------------------------------------------
(* A plain query that a leaf of the text has, is in the text and in the    *)
(* JSON of every node above it, and its post is found.                     *)

LEMMA LeafFound ==
    ASSUME NEW q \in Seq(Characters), Search!Plain(q)
    PROVE  \A node \in Nodes, leaf \in Seq(Characters) :
                leaf \in Search!Prose[node] /\ Holds(leaf, q)
                    => Holds(Search!Walk[node], q) /\ Holds(Search!Json[node], q)
<1> DEFINE V == Characters
           Found(node, leaf) ==
                leaf \in Search!Prose[node] /\ Holds(leaf, q)
                    => Holds(Search!Walk[node], q) /\ Holds(Search!Json[node], q)
           S == {node \in Nodes : \A leaf \in Seq(V) : Found(node, leaf)}
<1>1. ASSUME NEW node \in Nodes, \A i \in 1..Len(node.children) : node.children[i] \in S,
             NEW leaf \in Seq(V), leaf \in Search!Prose[node], Holds(leaf, q)
      PROVE  Holds(Search!Walk[node], q) /\ Holds(Search!Json[node], q)
  <2> DEFINE text == Yield(Search!Walk, node)   json == Yield(Search!Json, node)
             escaped == Search!Escaped(node.text)
             open == <<"{", "\"">>   quote == <<"\"">>   url == node.url   close == <<"}">>
             line == <<"\n">>
  <2>1. /\ text \in Seq(V) /\ json \in Seq(V)
        /\ \A i \in 1..Len(node.children) : /\ Search!Walk[node.children[i]] \in Seq(V)
                                            /\ Search!Json[node.children[i]] \in Seq(V)
    BY NodeFacts, WalkFacts, JsonFacts, PartsFacts
  <2>2. /\ Search!Walk[node] = TextWith(node, text)
        /\ Search!Json[node] = open \o escaped \o quote \o url \o json \o close
    BY WalkFacts, JsonFacts DEF JsonWith
  <2>3. open \in Seq(V) /\ quote \in Seq(V) /\ close \in Seq(V) /\ line \in Seq(V)
    <3>1. "\n" \in V /\ "\"" \in V /\ "}" \in V
      BY CharacterFacts DEF Search!Blanks, Search!Quotes
    <3>2. QED
      BY <3>1, CharacterFacts
  <2>4. url \in Seq(V) /\ escaped \in Seq(V)
    BY NodeFacts, EscapedHolds
  <2>5. leaf \in ProseWith(Search!Prose, node)
    BY <1>1, ProseFacts
  <2>6. ASSUME Holds(escaped, q) \/ Holds(json, q) PROVE Holds(Search!Json[node], q)
    <3> HIDE DEF json, escaped, open, quote, url, close, V
    <3>1. open \o escaped \in Seq(V)
          /\ (Holds(escaped, q) => Holds(open \o escaped, q))
      <4>1. open \o escaped \in Seq(V)
        BY <2>3, <2>4
      <4>2. Holds(escaped, q) => Holds(open \o escaped, q)
        BY <2>3, <2>4, HoldsCat, Zenon DEF V
      <4>3. QED
        BY <4>1, <4>2
    <3> DEFINE a == open \o escaped   b == a \o quote   c == b \o url   d == c \o json
    <3>2. b \in Seq(V) /\ (Holds(a, q) => Holds(b, q))
      <4> HIDE DEF a
      <4>1. a \in Seq(V)
        BY <3>1 DEF a
      <4>2. b = a \o quote /\ a \o quote \in Seq(V)
        BY <2>3, <4>1
      <4> HIDE DEF b
      <4>3. QED
        BY <2>3, <4>1, <4>2, HoldsCat, Zenon DEF V
    <3>3. c \in Seq(V) /\ (Holds(b, q) => Holds(c, q))
      <4> HIDE DEF b
      <4>1. c = b \o url /\ b \o url \in Seq(V)
        BY <2>4, <3>2
      <4> HIDE DEF c
      <4>2. QED
        BY <2>4, <3>2, <4>1, HoldsCat, Zenon DEF V
    <3>4. d \in Seq(V) /\ (Holds(c, q) => Holds(d, q)) /\ (Holds(json, q) => Holds(d, q))
      <4> HIDE DEF c
      <4>1. d = c \o json /\ c \o json \in Seq(V)
        BY <2>1, <3>3
      <4> HIDE DEF d
      <4>2. QED
        BY <2>1, <3>3, <4>1, HoldsCat, Zenon DEF V
    <3>5. Holds(d, q)
      BY <2>6, <3>1, <3>2, <3>3, <3>4
    <3> HIDE DEF d
    <3>6. Holds(d \o close, q)
      BY <2>3, <3>4, <3>5, HoldsCat, Zenon DEF V
    <3>7. QED
      BY <2>2, <3>6 DEF a, b, c, d
  <2>7. CASE node.type \in Search!TextLeaf
    <3>1. leaf = node.text /\ Search!Walk[node] = node.text
      <4>1. /\ node.type # "linebreak" /\ node.type # "tab"
            /\ node.type \notin Search!Decorators /\ node.type \notin Search!Inline
        BY <2>7 DEF Search!TextLeaf, Search!Decorators, Search!Inline
      <4>2. TextWith(node, text) = node.text
        BY <2>7, <4>1 DEF TextWith
      <4>3. leaf = node.text
        BY <2>5, <2>7 DEF ProseWith
      <4>4. QED
        BY <2>2, <4>2, <4>3
    <3>2. \A i \in 1..Len(q) : q[i] \notin Marks
      BY DEF Search!Plain, Marks, Search!Blanks
    <3>3. Holds(escaped, q)
      BY <1>1, <3>1, <3>2, EscapedHolds
    <3>4. QED
      BY <1>1, <2>6, <3>1, <3>3
  <2>8. CASE node.type \notin Search!TextLeaf
    <3>1. node.type \notin Search!Breaks \cup Search!Decorators
      BY <2>5, <2>8 DEF ProseWith
    <3>2. PICK i \in 1..Len(node.children) : leaf \in Search!Prose[node.children[i]]
      BY <2>5, <2>8, <3>1 DEF ProseWith
    <3> DEFINE child == node.children[i]
    <3>3. Holds(Search!Walk[child], q) /\ Holds(Search!Json[child], q)
      BY <1>1, <3>2
    <3>4. /\ Parts(Search!Walk, node) \in Seq(Seq(V)) /\ Parts(Search!Json, node) \in Seq(Seq(V))
          /\ i \in 1..Len(Parts(Search!Walk, node)) /\ i \in 1..Len(Parts(Search!Json, node))
          /\ Parts(Search!Walk, node)[i] = Search!Walk[child]
          /\ Parts(Search!Json, node)[i] = Search!Json[child]
      BY <2>1, PartsFacts
    <3>5. Holds(text, q) /\ Holds(json, q)
      <4> DEFINE x == Parts(Search!Walk, node)   y == Parts(Search!Json, node)
      <4>1. /\ x \in Seq(Seq(V)) /\ i \in 1..Len(x) /\ Holds(x[i], q)
            /\ y \in Seq(Seq(V)) /\ i \in 1..Len(y) /\ Holds(y[i], q)
        BY <3>3, <3>4
      <4> HIDE DEF x, y
      <4>2. Holds(Search!FlattenSeq(x), q) /\ Holds(Search!FlattenSeq(y), q)
        BY <4>1, PartHolds
      <4>3. QED
        BY <4>2 DEF Yield, x, y
    <3>6. Search!Walk[node] \in {text, text \o line}
      BY <2>2, <2>8, <3>1 DEF TextWith, Search!Breaks, Search!Decorators
    <3> HIDE DEF text, line, json
    <3>7. Holds(text \o line, q)
      BY <2>1, <2>3, <3>5, HoldsCat, Zenon
    <3>8. QED
      BY <2>6, <3>5, <3>6, <3>7
  <2>9. QED
    BY <2>7, <2>8
<1>2. ASSUME NEW node \in Nodes, \A i \in 1..Len(node.children) : node.children[i] \in S
      PROVE  node \in S
  BY <1>1, <1>2
<1>3. \A node \in Nodes : node \in S
  <2> HIDE DEF S
  <2>1. QED
    BY <1>2, FromLeaves
<1>4. QED
  BY <1>3

LEMMA PieceMatches ==
    ASSUME NEW post, Search!IsPost(post), post.published,
           NEW q \in Seq(Characters), q # <<>>, Search!Plain(q), Search!InOnePiece(post, q)
    PROVE  Search!Match(post, q)
<1>1. post.title \in Seq(Characters)
  BY DEF Search!IsPost, Search!IsString
<1>2. CASE Search!Includes(post.title, q)
  BY <1>2 DEF Search!Match, Search!Candidate
<1>3. CASE ~Search!Includes(post.title, q) /\ ~Search!Lexical(post.content)
  BY <1>3 DEF Search!Match, Search!Candidate, Search!InOnePiece, Search!Stored,
              Search!VisibleText
<1>4. CASE ~Search!Includes(post.title, q) /\ Search!Lexical(post.content)
  <2> DEFINE node == post.content.root
  <2>1. node \in Nodes
    BY <1>4 DEF Search!IsPost
  <2>2. PICK leaf \in Search!Prose[node] : Search!Includes(leaf, q)
    BY <1>4 DEF Search!InOnePiece
  <2>3. leaf \in Seq(Characters)
    BY <2>1, <2>2, ProseFacts
  <2>4. Holds(leaf, q)
    BY <2>2, <2>3, IncludesIsHolds
  <2> HIDE DEF node
  <2>5. /\ Holds(Search!Walk[node], q) /\ Holds(Search!Json[node], q)
        /\ Search!Walk[node] \in Seq(Characters) /\ Search!Json[node] \in Seq(Characters)
    BY <2>1, <2>2, <2>3, <2>4, LeafFound, WalkFacts, JsonFacts
  <2>6. /\ Search!LexicalText(node) \in Seq(Characters) /\ Holds(Search!LexicalText(node), q)
    BY <2>5, CollapseHolds DEF Search!LexicalText, Search!Plain
  <2>7. Search!Includes(Search!LexicalText(node), q) /\ Search!Includes(Search!Json[node], q)
    BY <2>5, <2>6, IncludesIsHolds
  <2>8. QED
    BY <1>4, <2>7 DEF Search!Match, Search!Candidate, Search!Stored, Search!VisibleText, node
<1>5. QED
  BY <1>2, <1>3, <1>4

LEMMA MatchIsFound ==
    ASSUME posts \in Tables, NEW n \in 1..Len(posts), NEW q, q # <<>>, Search!Match(posts[n], q)
    PROVE  Search!Contains(Search!Matches(q), posts[n])
<1> DEFINE V == {posts[i] : i \in DOMAIN posts}   post == posts[n]   one == <<post>>
           parts == [i \in 1..Len(posts) |-> Search!Kept(posts[i], q)]
<1>1. posts \in Seq(V)
  BY SearchAssumption DEF Search!ConstantsAssumption
<1> HIDE DEF V
<1>2. Len(posts) \in Nat /\ \A i \in 1..Len(posts) : posts[i] \in V
  BY <1>1
<1>3. \A i \in 1..Len(posts) : Search!Kept(posts[i], q) \in Seq(V)
  BY <1>2 DEF Search!Kept
<1>4. parts \in Seq(Seq(V)) /\ n \in 1..Len(parts) /\ parts[n] = one
  BY <1>2, <1>3 DEF Search!Kept
<1>5. one \in Seq(V) /\ Len(one) = 1 /\ one[1] = post
  BY <1>2
<1>6. Holds(one, one)
  <2>1. 0 \in Nat /\ 0 + Len(one) <= Len(one) /\ \A i \in 1..Len(one) : 0 + i = i
    BY <1>5
  <2> HIDE DEF one
  <2>2. \A i \in 1..Len(one) : one[0 + i] = one[i]
    BY <2>1
  <2>3. QED
    BY <2>1, <2>2 DEF Holds
<1>7. Search!Matches(q) = Search!FlattenSeq(parts)
  BY DEF Search!Matches
<1> HIDE DEF parts, one, post
<1>8. Holds(Search!FlattenSeq(parts), one)
  <2>1. Holds(parts[n], one)
    BY <1>4, <1>6
  <2>2. QED
    BY <1>4, <1>5, <2>1, PartHolds
<1> DEFINE found == Search!FlattenSeq(parts)
<1>9. found \in Seq(V)
  BY <1>4, FlattenIsSeq
<1> HIDE DEF found
<1>10. PICK at \in Nat :
          at + Len(one) <= Len(found) /\ \A i \in 1..Len(one) : found[at + i] = one[i]
  BY <1>8 DEF Holds, found
<1>11. at + 1 \in 1..Len(found) /\ found[at + 1] = post
  BY <1>5, <1>9, <1>10
<1>12. Search!Contains(found, post)
  BY <1>11 DEF Search!Contains
<1>13. QED
  BY <1>7, <1>12 DEF found, post

LEMMA PagingInvFinds == PagingInv => Search!PlainPiecesFound
<1> SUFFICES ASSUME PagingInv, answer.query # <<>>, Search!Plain(answer.query),
                    NEW n \in 1..Len(posts), posts[n].published,
                    Search!InOnePiece(posts[n], answer.query)
             PROVE  Search!Contains(Search!Matches(answer.query), posts[n])
  BY DEF Search!PlainPiecesFound
<1>1. answer # Search!NoAnswer
  BY DEF Search!NoAnswer
<1>2. PICK query \in Queries, size \in Sizes : answer = Answers(query, size)
  BY <1>1 DEF PagingInv
<1>3. answer.query = query /\ query \in Seq(Characters)
  BY <1>2, SearchAssumption DEF Answers, Search!ConstantsAssumption, Search!IsString
<1>4. posts \in Tables /\ Search!IsPost(posts[n])
  BY SearchAssumption DEF PagingInv, Search!ConstantsAssumption
<1>5. Search!Match(posts[n], query)
  BY <1>3, <1>4, PieceMatches
<1>6. QED
  BY <1>3, <1>4, <1>5, MatchIsFound

(* PlainPiecesFound: for every table of editor states of any form, and for *)
(* every query without a quote, a backslash or a blank, a published post   *)
(* with the query in its title, or in one leaf of its text at any depth,   *)
(* is found, though the database looks at the JSON, where quotes are       *)
(* escaped, and the service at a text that has its blanks collapsed.       *)
THEOREM PlainIsFound == Search!Spec => []PlainPiecesFound
<1>1. QED
  BY PagingInductive, PagingInvFinds, PTL DEF PlainPiecesFound

-----------------------------------------------------------------------------
(* The words of a document of blocks.                                      *)

(* Strings that differ only in which blank is where.                       *)
Alike(c, d) == c = d \/ (c \in Search!Blanks /\ d \in Search!Blanks)
Same(s, t) == Len(s) = Len(t) /\ \A i \in 1..Len(s) : Alike(s[i], t[i])

LEMMA SameCat ==
    ASSUME NEW V, NEW s \in Seq(V), NEW t \in Seq(V), NEW x \in Seq(V), NEW y \in Seq(V),
           Same(s, t), Same(x, y)
    PROVE  Same(s \o x, t \o y)
<1> DEFINE a == s \o x   b == t \o y   n == Len(s)
<1>1. /\ Len(s) \in Nat /\ Len(x) \in Nat /\ Len(t) = n /\ Len(y) = Len(x)
      /\ \A i \in 1..n : Alike(s[i], t[i])
      /\ \A i \in 1..Len(x) : Alike(x[i], y[i])
  BY DEF Same
<1>2. Cat(a, s, x) /\ Cat(b, t, y)
  BY CatFacts
<1> HIDE DEF a, b
<1>3. Len(a) = n + Len(x) /\ Len(b) = n + Len(x)
  BY <1>1, <1>2 DEF Cat
<1>4. ASSUME NEW i \in 1..Len(a) PROVE Alike(a[i], b[i])
  <2>1. CASE i <= n
    <3>1. i \in 1..n
      BY <1>1, <1>3, <2>1
    <3>2. a[i] = s[i] /\ b[i] = t[i]
      BY <1>1, <1>2, <3>1 DEF Cat
    <3>3. QED
      BY <1>1, <3>1, <3>2
  <2>2. CASE i > n
    <3> DEFINE k == i - n
    <3>1. k \in 1..Len(x)
      BY <1>1, <1>3, <2>2
    <3>2. a[i] = x[k] /\ b[i] = y[k]
      BY <1>1, <1>2, <1>3, <2>2 DEF Cat
    <3> HIDE DEF k
    <3>3. QED
      BY <1>1, <3>1, <3>2
  <2>3. i <= n \/ i > n
    BY <1>1, <1>3
  <2>4. QED
    BY <2>1, <2>2, <2>3
<1>5. Same(a, b)
  BY <1>3, <1>4 DEF Same
<1>6. QED
  BY <1>5 DEF a, b

LEMMA SameFlattened ==
    ASSUME NEW V, NEW p \in Seq(Seq(V)), NEW r \in Seq(Seq(V)), Len(p) = Len(r),
           \A k \in 1..Len(p) : Same(p[k], r[k])
    PROVE  Same(Search!FlattenSeq(p), Search!FlattenSeq(r))
<1> DEFINE n == Len(p)
<1>1. n \in Nat /\ Len(r) = n /\ \A k \in 1..n : p[k] \in Seq(V) /\ r[k] \in Seq(V)
  OBVIOUS
<1>2. PICK h : Flattens(h, V, p) /\ Search!FlattenSeq(p) = h[n]
  BY FlattenSteps
<1>3. PICK g : Flattens(g, V, r) /\ Search!FlattenSeq(r) = g[n]
  BY <1>1, FlattenSteps
<1>4. /\ h[0] = <<>> /\ g[0] = <<>> /\ \A k \in 0..n : h[k] \in Seq(V) /\ g[k] \in Seq(V)
      /\ \A k \in 1..n : h[k] = h[k - 1] \o p[k] /\ g[k] = g[k - 1] \o r[k]
  BY <1>1, <1>2, <1>3 DEF Flattens
<1> DEFINE S == {k \in Nat : Same(h[k], g[k])}
<1> HIDE DEF n
<1>5. 0 \in S
  <2>1. Len(<<>>) = 0 /\ \A i \in 1..0 : FALSE
    OBVIOUS
  <2>2. Same(<<>>, <<>>)
    BY <2>1 DEF Same
  <2>3. QED
    BY <1>4, <2>2
<1>6. ASSUME NEW k \in 0..n, k \in S, k < n PROVE k + 1 \in S
  <2> DEFINE m == k + 1
  <2>1. m \in 1..n /\ m - 1 = k /\ m \in Nat
    BY <1>1, <1>6
  <2> HIDE DEF m
  <2>2. /\ h[m] = h[k] \o p[m] /\ g[m] = g[k] \o r[m] /\ Same(h[k], g[k])
        /\ h[k] \in Seq(V) /\ g[k] \in Seq(V) /\ p[m] \in Seq(V) /\ r[m] \in Seq(V)
    BY <1>1, <1>4, <1>6, <2>1
  <2>3. Same(p[m], r[m])
    BY <2>1 DEF n
  <2>4. Same(h[k] \o p[m], g[k] \o r[m])
    BY <2>2, <2>3, SameCat, Zenon
  <2>5. m \in S
    BY <2>1, <2>2, <2>4
  <2>6. QED
    BY <2>5 DEF m
<1>7. \A k \in 0..n : k \in S /\ k < n => k + 1 \in S
  BY <1>6
<1> HIDE DEF S
<1>8. 0 \in Nat /\ 0 <= n /\ n \in 0..n
  BY <1>1
<1>9. \A k \in 0..n : k \in S
  BY <1>1, <1>5, <1>7, <1>8, AllFrom, Zenon
<1>10. QED
  BY <1>2, <1>3, <1>8, <1>9 DEF S

(* What is flattened ends as its last part does.                           *)
LEMMA FlattenedEnd ==
    ASSUME NEW V, NEW c \in V, NEW p \in Seq(Seq(V)),
           \A k \in 1..Len(p) : \E b \in Seq(V) : p[k] = b \o <<c>>
    PROVE  LET s == Search!FlattenSeq(p) IN s # <<>> => s[Len(s)] = c
<1> DEFINE n == Len(p)   s == Search!FlattenSeq(p)
<1>1. n \in Nat
  OBVIOUS
<1>2. PICK h : Flattens(h, V, p) /\ s = h[n]
  BY FlattenSteps
<1>3. CASE n = 0
  BY <1>2, <1>3 DEF Flattens
<1>4. CASE n # 0
  <2>1. n \in 1..n /\ n - 1 \in 0..n
    BY <1>1, <1>4
  <2>2. PICK b \in Seq(V) : p[n] = b \o <<c>>
    BY <2>1
  <2> DEFINE a == h[n - 1]   t == p[n]
  <2>3. a \in Seq(V) /\ s = a \o t
    BY <1>2, <2>1 DEF Flattens
  <2>4. <<c>> \in Seq(V) /\ Len(<<c>>) = 1 /\ <<c>>[1] = c
    OBVIOUS
  <2> HIDE DEF s, n, a, t
  <2>5. t = b \o <<c>> /\ t \in Seq(V) /\ Cat(t, b, <<c>>)
    BY <2>2, <2>4, CatFacts DEF t
  <2>6. s \in Seq(V) /\ Cat(s, a, t)
    BY <2>3, <2>5, CatFacts
  <2> DEFINE l == Len(t)   m == Len(s)
  <2>7. Len(b) \in Nat /\ l = Len(b) + 1 /\ Len(a) \in Nat /\ m = Len(a) + l /\ l \in 1..l
    BY <2>3, <2>4, <2>5, <2>6 DEF Cat
  <2>8. t[l] = c
    <3>1. l \in 1..Len(t) /\ l > Len(b) /\ l - Len(b) = 1
      BY <2>7
    <3>2. t[l] = <<c>>[l - Len(b)]
      BY <2>5, <3>1 DEF Cat
    <3>3. QED
      BY <2>4, <3>1, <3>2
  <2>9. s[m] = t[l]
    <3>1. m \in 1..Len(s) /\ m > Len(a) /\ m - Len(a) = l
      BY <2>7
    <3>2. s[m] = t[m - Len(a)]
      BY <2>6, <3>1 DEF Cat
    <3>3. QED
      BY <3>1, <3>2
  <2>10. QED
    BY <2>8, <2>9 DEF s
<1>5. QED
  BY <1>3, <1>4

LEMMA CollapsedAlike ==
    ASSUME NEW out, NEW c, NEW d, Alike(c, d)
    PROVE  Search!Collapsed(out, c) = Search!Collapsed(out, d)
  BY DEF Alike, Search!Collapsed

(* A blank more would change nothing.                                      *)
Settled(out) == out = <<>> \/ Search!Ends(out, " ")

LEMMA Settles ==
    ASSUME NEW out \in Seq(Characters), NEW c \in Search!Blanks
    PROVE  /\ Settled(Search!Collapsed(out, c))
           /\ Settled(out) => Search!Collapsed(out, c) = out
<1>1. Settled(out) => Search!Collapsed(out, c) = out
  BY DEF Settled, Search!Collapsed
<1>2. ASSUME ~Settled(out) PROVE Settled(Append(out, " "))
  <2>1. " " \in Characters
    BY CharacterFacts DEF Search!Blanks
  <2> DEFINE d == " "   o == Append(out, d)
  <2>2. d \in Characters
    BY <2>1
  <2> HIDE DEF d
  <2>3. Len(o) = Len(out) + 1 /\ Len(out) \in Nat /\ o[Len(out) + 1] = d /\ o \in Seq(Characters)
    BY <2>2
  <2> HIDE DEF o
  <2>4. o # <<>> /\ o[Len(o)] = d
    BY <2>3
  <2>5. QED
    BY <2>4 DEF Settled, Search!Ends, o, d
<1>3. ~Settled(out) => Search!Collapsed(out, c) = Append(out, " ")
  BY DEF Settled, Search!Collapsed
<1>4. QED
  BY <1>1, <1>2, <1>3

Trimmed(out) == IF Search!Ends(out, " ") THEN SubSeq(out, 1, Len(out) - 1) ELSE out

LEMMA CollapseTrims ==
    ASSUME NEW text
    PROVE  Search!Collapse(text) = Trimmed(OutOf(text)[Len(text)])
  BY DEF Search!Collapse, OutOf, Trimmed

LEMMA OutAgree ==
    ASSUME NEW s \in Seq(Characters), NEW t \in Seq(Characters),
           NEW n \in Nat, n <= Len(s), n <= Len(t), \A i \in 1..n : Alike(s[i], t[i])
    PROVE  OutOf(s)[n] = OutOf(t)[n]
<1> DEFINE a == OutOf(s)   b == OutOf(t)   S == {k \in Nat : a[k] = b[k]}
<1>1. /\ a[0] = <<>> /\ \A k \in 1..Len(s) : a[k] = Search!Collapsed(a[k - 1], s[k])
      /\ b[0] = <<>> /\ \A k \in 1..Len(t) : b[k] = Search!Collapsed(b[k - 1], t[k])
  BY OutFacts DEF OutSteps
<1>2. Len(s) \in Nat /\ Len(t) \in Nat
  OBVIOUS
<1> HIDE DEF a, b
<1>3. 0 \in S
  BY <1>1
<1>4. ASSUME NEW k \in 0..n, k \in S, k < n PROVE k + 1 \in S
  <2> DEFINE m == k + 1
  <2>1. m \in 1..n /\ m \in 1..Len(s) /\ m \in 1..Len(t) /\ m - 1 = k /\ m \in Nat
    BY <1>2, <1>4
  <2> HIDE DEF m
  <2>2. a[m] = Search!Collapsed(a[k], s[m]) /\ b[m] = Search!Collapsed(a[k], t[m])
    BY <1>1, <1>4, <2>1
  <2>3. Alike(s[m], t[m])
    BY <2>1
  <2>4. Search!Collapsed(a[k], s[m]) = Search!Collapsed(a[k], t[m])
    BY <2>3, CollapsedAlike, Zenon
  <2>5. m \in S
    BY <2>1, <2>2, <2>4
  <2>6. QED
    BY <2>5 DEF m
<1>5. \A k \in 0..n : k \in S /\ k < n => k + 1 \in S
  BY <1>4
<1>6. 0 \in Nat /\ 0 <= n /\ n \in 0..n
  OBVIOUS
<1> HIDE DEF S
<1>7. \A k \in 0..n : k \in S
  BY <1>3, <1>5, <1>6, AllFrom, Zenon
<1>8. QED
  BY <1>6, <1>7 DEF S, a, b

(* A string collapses as one does that is like it but for a blank at the   *)
(* end, when that one is empty or ends with a blank itself.                *)
LEMMA CollapseAlike ==
    ASSUME NEW s \in Seq(Characters), NEW x \in Seq(Characters), NEW t \in Seq(Characters),
           NEW c \in Search!Blanks, NEW end, end = <<c>>, Cat(s, x, end), Same(x, t),
           Len(t) > 0 => t[Len(t)] \in Search!Blanks
    PROVE  Search!Collapse(s) = Search!Collapse(t)
<1> DEFINE n == Len(t)   m == Len(s)   a == OutOf(s)   b == OutOf(t)
<1>1. /\ a[0] = <<>> /\ \A k \in 1..m : a[k] = Search!Collapsed(a[k - 1], s[k])
      /\ b[0] = <<>> /\ \A k \in 1..n : b[k] = Search!Collapsed(b[k - 1], t[k])
      /\ \A k \in 0..n : b[k] \in Seq(Characters)
  BY OutFacts DEF OutSteps, Feeds
<1>2. Len(end) = 1 /\ end[1] = c
  OBVIOUS
<1>3. Len(x) = n /\ n \in Nat /\ \A i \in 1..n : Alike(x[i], t[i])
  BY DEF Same
<1>4. m = n + 1 /\ \A i \in 1..n : s[i] = x[i]
  BY <1>2, <1>3 DEF Cat
<1>5. s[m] = c
  <2>1. m \in 1..Len(s) /\ m > Len(x) /\ m - Len(x) = 1
    BY <1>3, <1>4
  <2>2. s[m] = end[m - Len(x)]
    BY <1>3, <2>1 DEF Cat
  <2>3. QED
    BY <1>2, <2>1, <2>2
<1>6. a[n] = b[n]
  <2>1. \A i \in 1..n : Alike(s[i], t[i])
    BY <1>3, <1>4
  <2>2. n \in Nat /\ n <= Len(s) /\ n <= Len(t)
    BY <1>3, <1>4
  <2> HIDE DEF n
  <2>3. QED
    BY <2>1, <2>2, OutAgree, Zenon
<1>7. m \in 1..m /\ m - 1 = n
  BY <1>3, <1>4
<1>8. Settled(b[n])
  <2>1. CASE n = 0
    BY <1>1, <2>1 DEF Settled
  <2>2. CASE n # 0
    <3>1. n \in 1..n /\ n - 1 \in 0..n /\ n > 0
      BY <1>3, <2>2
    <3> DEFINE o == b[n - 1]
    <3>2. b[n] = Search!Collapsed(o, t[n]) /\ o \in Seq(Characters) /\ t[n] \in Search!Blanks
      BY <1>1, <3>1
    <3> HIDE DEF o
    <3>3. QED
      BY <3>2, Settles
  <2>3. QED
    BY <2>1, <2>2
<1>9. n \in 0..n
  BY <1>3
<1>10. a[m] = Search!Collapsed(b[n], c) /\ b[n] \in Seq(Characters)
  BY <1>1, <1>5, <1>6, <1>7, <1>9
<1>11. a[m] = b[n]
  BY <1>8, <1>10, Settles
<1>12. QED
  BY <1>11, CollapseTrims

LEMMA LeafWords ==
    ASSUME NEW node \in Nodes, Search!InBlock(node)
    PROVE  /\ Search!LeafText(node) \in Seq(Characters)
           /\ Same(Search!Walk[node], Search!LeafText(node))
<1> DEFINE w == Search!Walk[node]   l == Search!LeafText(node)
<1>1. w = TextWith(node, Yield(Search!Walk, node)) /\ w \in Seq(Characters)
  BY WalkFacts
<1>2. w = l => l \in Seq(Characters) /\ Same(w, l)
  BY <1>1 DEF Same, Alike
<1>3. CASE node.type \in Search!TextLeaf
  <2>1. /\ node.type # "linebreak" /\ node.type # "tab" /\ node.type \notin Search!Breaks
        /\ node.type \notin Search!Decorators /\ node.type \notin Search!Inline
    BY <1>3 DEF Search!TextLeaf, Search!Decorators, Search!Inline, Search!Breaks
  <2>2. w = node.text /\ l = node.text
    BY <1>1, <1>3, <2>1 DEF TextWith, Search!LeafText
  <2>3. QED
    BY <1>2, <2>2
<1>4. CASE node.type \in Search!Decorators
  <2>1. /\ node.type # "linebreak" /\ node.type # "tab" /\ node.type \notin Search!Breaks
        /\ node.type \notin Search!TextLeaf /\ node.type \notin Search!Inline
    BY <1>4 DEF Search!TextLeaf, Search!Decorators, Search!Inline, Search!Breaks
  <2>2. w = <<>> /\ l = <<>>
    BY <1>1, <1>4, <2>1 DEF TextWith, Search!LeafText
  <2>3. QED
    BY <1>2, <2>2
<1>5. CASE node.type \in Search!Breaks
  <2>1. /\ node.type = "linebreak" \/ node.type = "tab"
        /\ node.type \notin Search!TextLeaf /\ node.type \notin Search!Inline
        /\ node.type \notin Search!Decorators
    BY <1>5 DEF Search!TextLeaf, Search!Decorators, Search!Inline, Search!Breaks
  <2>2. w \in {<<"\n">>, <<"\t">>}
    <3>1. node.type = "linebreak" => node.type # "tab"
      OBVIOUS
    <3>2. QED
      BY <1>1, <2>1, <3>1 DEF TextWith
  <2>3. l = <<" ">>
    BY <1>5, <2>1 DEF Search!LeafText
  <2>4. PICK c \in Search!Blanks : w = <<c>>
    BY <2>2 DEF Search!Blanks
  <2>5. " " \in Search!Blanks
    BY DEF Search!Blanks
  <2>6. Len(<<c>>) = 1 /\ Len(<<" ">>) = 1 /\ <<c>>[1] = c /\ <<" ">>[1] = " "
        /\ \A i \in 1..1 : i = 1
    OBVIOUS
  <2>7. \A i \in 1..Len(w) : Alike(w[i], l[i])
    BY <2>3, <2>4, <2>5, <2>6 DEF Alike
  <2>8. Same(w, l)
    BY <2>3, <2>4, <2>6, <2>7 DEF Same
  <2>9. l \in Seq(Characters)
    BY <2>3, <2>5, CharacterFacts
  <2>10. QED
    BY <2>8, <2>9
<1>6. CASE node.type \in Search!Inline /\ \A i \in 1..Len(node.children) :
                node.children[i].type \in Search!TextLeaf
  <2>1. /\ node.type # "linebreak" /\ node.type # "tab" /\ node.type \notin Search!Breaks
        /\ node.type \notin Search!TextLeaf /\ node.type \notin Search!Decorators
    BY <1>6 DEF Search!TextLeaf, Search!Decorators, Search!Inline, Search!Breaks
  <2>2. w = Yield(Search!Walk, node)
    BY <1>1, <1>6, <2>1 DEF TextWith
  <2>3. ASSUME NEW i \in 1..Len(node.children)
        PROVE  Search!Walk[node.children[i]] = node.children[i].text
    <3> DEFINE leaf == node.children[i]
    <3>1. leaf \in Nodes /\ leaf.type \in Search!TextLeaf
      BY <1>6, NodeFacts
    <3> HIDE DEF leaf
    <3>2. /\ leaf.type # "linebreak" /\ leaf.type # "tab"
          /\ leaf.type \notin Search!Decorators /\ leaf.type \notin Search!Inline
      BY <3>1 DEF Search!TextLeaf, Search!Decorators, Search!Inline
    <3>3. Search!Walk[leaf] = TextWith(leaf, Yield(Search!Walk, leaf))
      BY <3>1, WalkFacts
    <3>4. Search!Walk[leaf] = leaf.text
      BY <3>1, <3>2, <3>3 DEF TextWith
    <3>5. QED
      BY <3>4 DEF leaf
  <2>4. Parts(Search!Walk, node) = [i \in 1..Len(node.children) |-> node.children[i].text]
    BY <2>3 DEF Parts
  <2>5. l = Search!FlattenSeq([i \in 1..Len(node.children) |-> node.children[i].text])
    BY <1>6 DEF Search!LeafText
  <2>6. w = l
    BY <2>2, <2>4, <2>5 DEF Yield
  <2>7. QED
    BY <1>2, <2>6
<1>7. QED
  BY <1>3, <1>4, <1>5, <1>6 DEF Search!InBlock

LEMMA BlockWords ==
    ASSUME NEW block \in Nodes, Search!IsBlock(block),
           \A j \in 1..Len(block.children) : Search!InBlock(block.children[j])
    PROVE  /\ Search!BlockText(block) \in Seq(Characters)
           /\ Search!BlockText(block) \o <<" ">> \in Seq(Characters)
           /\ Same(Search!Walk[block], Search!BlockText(block) \o <<" ">>)
<1> DEFINE V == Characters   kids == block.children   n == Len(kids)
           p == Parts(Search!Walk, block)   r == [j \in 1..n |-> Search!LeafText(kids[j])]
           x == Yield(Search!Walk, block)   y == Search!BlockText(block)
<1>1. n \in Nat /\ \A j \in 1..n : kids[j] \in Nodes
  BY NodeFacts
<1>2. \A j \in 1..n : /\ Search!Walk[kids[j]] \in Seq(V)
                     /\ Search!LeafText(kids[j]) \in Seq(V)
                     /\ Same(Search!Walk[kids[j]], Search!LeafText(kids[j]))
  BY <1>1, WalkFacts, LeafWords
<1>3. /\ p \in Seq(Seq(V)) /\ Len(p) = n /\ \A j \in 1..n : p[j] = Search!Walk[kids[j]]
      /\ x \in Seq(V) /\ x = Search!FlattenSeq(p)
  BY <1>2, PartsFacts DEF Yield
<1>4. r \in Seq(Seq(V)) /\ Len(r) = n /\ \A j \in 1..n : r[j] = Search!LeafText(kids[j])
  BY <1>1, <1>2
<1>5. y = Search!FlattenSeq(r)
  BY DEF Search!BlockText
<1>6. Search!Walk[block] = x \o <<"\n">>
  <2>1. /\ block.type # "linebreak" /\ block.type # "tab" /\ block.type \notin Search!TextLeaf
        /\ block.type \notin Search!Decorators /\ block.type \notin Search!Inline
    BY DEF Search!IsBlock, Search!Breaks
  <2>2. Search!Walk[block] = TextWith(block, x)
    BY WalkFacts
  <2> HIDE DEF x
  <2>3. QED
    BY <2>1, <2>2 DEF TextWith
<1> HIDE DEF p, r, x, y, n, kids
<1>7. y \in Seq(V)
  BY <1>4, <1>5, FlattenIsSeq
<1>8. Same(x, y)
  <2>1. \A j \in 1..Len(p) : Same(p[j], r[j])
    BY <1>2, <1>3, <1>4
  <2>2. QED
    BY <1>3, <1>4, <1>5, <2>1, SameFlattened
<1> DEFINE line == <<"\n">>   space == <<" ">>
<1>9. line \in Seq(V) /\ space \in Seq(V) /\ Same(line, space)
  <2> DEFINE c == "\n"   d == " "
  <2>1. c \in Search!Blanks /\ d \in Search!Blanks
    BY DEF Search!Blanks
  <2>2. c \in V /\ d \in V
    BY <2>1, CharacterFacts
  <2> HIDE DEF c, d
  <2>3. /\ <<c>> \in Seq(V) /\ <<d>> \in Seq(V) /\ Len(<<c>>) = 1 /\ Len(<<d>>) = 1
        /\ <<c>>[1] = c /\ <<d>>[1] = d /\ \A i \in 1..1 : i = 1
    BY <2>2
  <2>4. Same(<<c>>, <<d>>)
    BY <2>1, <2>3 DEF Same, Alike
  <2>5. QED
    BY <2>3, <2>4 DEF c, d
<1> HIDE DEF line, space
<1>10. Same(x \o line, y \o space)
  BY <1>3, <1>7, <1>8, <1>9, SameCat, Zenon
<1>11. y \o space \in Seq(V)
  BY <1>7, <1>9, CatFacts
<1>12. QED
  BY <1>6, <1>7, <1>10, <1>11 DEF line, space, y

LEMMA BlocksSeparate ==
    ASSUME NEW root \in Nodes, Search!OfBlocks(root)
    PROVE  Search!LexicalText(root) = Search!Collapse(Search!Separated(root.children))
<1> DEFINE V == Characters   blocks == root.children   n == Len(blocks)   c == "\n"   d == " "
           p == Parts(Search!Walk, root)
           r == [i \in 1..n |-> Search!BlockText(blocks[i]) \o <<d>>]
           x == Yield(Search!Walk, root)   y == Search!Separated(blocks)   s == Search!Walk[root]
<1>1. n \in Nat /\ \A i \in 1..n : blocks[i] \in Nodes
  BY NodeFacts
<1>2. \A i \in 1..n : /\ Search!Walk[blocks[i]] \in Seq(V)
                     /\ Search!BlockText(blocks[i]) \in Seq(V)
                     /\ Search!BlockText(blocks[i]) \o <<d>> \in Seq(V)
                     /\ Same(Search!Walk[blocks[i]], Search!BlockText(blocks[i]) \o <<d>>)
  BY <1>1, WalkFacts, BlockWords DEF Search!OfBlocks
<1>3. /\ p \in Seq(Seq(V)) /\ Len(p) = n /\ \A i \in 1..n : p[i] = Search!Walk[blocks[i]]
      /\ x \in Seq(V) /\ x = Search!FlattenSeq(p)
  BY <1>2, PartsFacts DEF Yield
<1>4. y = Search!FlattenSeq(r)
  BY DEF Search!Separated
<1>5. s = x \o <<c>> /\ s \in Seq(V)
  <2>1. /\ root.type # "linebreak" /\ root.type # "tab" /\ root.type \notin Search!TextLeaf
        /\ root.type \notin Search!Decorators /\ root.type \notin Search!Inline
    BY DEF Search!OfBlocks, Search!IsBlock, Search!Breaks
  <2>2. s = TextWith(root, x) /\ s \in Seq(V)
    BY WalkFacts
  <2> HIDE DEF x, s
  <2>3. QED
    BY <2>1, <2>2 DEF TextWith
<1>6. c \in Search!Blanks /\ d \in Search!Blanks
  BY DEF Search!Blanks
<1>7. c \in V /\ d \in V
  BY <1>6, CharacterFacts
<1> HIDE DEF c, d
<1>8. r \in Seq(Seq(V)) /\ Len(r) = n
      /\ \A i \in 1..n : r[i] = Search!BlockText(blocks[i]) \o <<d>>
  BY <1>1, <1>2
<1> HIDE DEF p, r, x, y, s, n, blocks
<1>9. y \in Seq(V)
  BY <1>4, <1>8, FlattenIsSeq
<1>10. Same(x, y)
  <2>1. \A i \in 1..Len(p) : Same(p[i], r[i])
    BY <1>2, <1>3, <1>8
  <2>2. QED
    BY <1>3, <1>4, <1>8, <2>1, SameFlattened
<1>11. y # <<>> => y[Len(y)] = d
  <2>1. \A i \in 1..Len(r) : \E b \in Seq(V) : r[i] = b \o <<d>>
    BY <1>2, <1>8
  <2>2. QED
    BY <1>4, <1>7, <1>8, <2>1, FlattenedEnd
<1>12. Len(y) > 0 => y[Len(y)] \in Search!Blanks
  <2>1. Len(y) > 0 => y # <<>>
    OBVIOUS
  <2>2. QED
    BY <1>6, <1>11, <2>1
<1> DEFINE end == <<c>>
<1>13. end \in Seq(V) /\ s = x \o end
  BY <1>5, <1>7
<1>14. Cat(s, x, end)
  BY <1>3, <1>13, CatFacts
<1>15. Search!Collapse(s) = Search!Collapse(y)
  BY <1>3, <1>5, <1>6, <1>9, <1>10, <1>12, <1>14, CollapseAlike
<1>16. QED
  BY <1>15 DEF Search!LexicalText, s, y, blocks

(* OnlyBlocksSeparate: for every document that is made of blocks, of any   *)
(* length and with any texts, formatting and links leave the words of a    *)
(* block as they are, and blocks, line breaks and tabs part them by one    *)
(* space (lexicalText).                                                    *)
THEOREM OnlyBlocksPart == Search!Spec => []OnlyBlocksSeparate
<1>1. PagingInv => OnlyBlocksSeparate
  <2> SUFFICES ASSUME PagingInv, NEW n \in 1..Len(posts), Search!Lexical(posts[n].content),
                      Search!OfBlocks(posts[n].content.root)
               PROVE  Search!VisibleText(posts[n].content)
                        = Search!Collapse(Search!Separated(posts[n].content.root.children))
    BY DEF OnlyBlocksSeparate, Search!OnlyBlocksSeparate
  <2>1. Search!IsPost(posts[n])
    BY SearchAssumption DEF PagingInv, Search!ConstantsAssumption
  <2>2. posts[n].content.root \in Nodes
    BY <2>1 DEF Search!IsPost
  <2>3. QED
    BY <2>2, BlocksSeparate DEF Search!VisibleText
<1>2. QED
  BY <1>1, PagingInductive, PTL
=============================================================================
