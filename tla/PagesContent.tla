---------------------------- MODULE PagesContent -----------------------------
(***************************************************************************)
(* The migration that wraps the content of each page in a document of the  *)
(* page builder, and its revert, beside editors that save pages. ALTER     *)
(* commits by itself: the rows of up are written one by one, outside any   *)
(* transaction, and the run may die between any two of them.               *)
(***************************************************************************)
EXTENDS Naturals

CONSTANTS
    Pages,
    Texts,          \* what editors write
    MaxEdits, MaxRuns   \* bounds: saves of pages; runs and reverts

(* Text may be stored raw (an editor state), alone in a block of rich text,*)
(* or among other blocks. Large documents do not fit a TEXT column.        *)
Forms   == {"raw", "single", "blocks"}
Content == [form: Forms, text: Texts, large: BOOLEAN]
Nothing == [form |-> "empty"]

ASSUME ConstantsAssumption == MaxEdits \in Nat /\ MaxRuns \in Nat

VARIABLES
    content,        \* column content of table pages
    wide,           \* the column is MEDIUMTEXT
    recorded,       \* the migration is in table migrations
    run,            \* the run in progress
    before,         \* content as it was when the transaction of a revert began
    edits, runs,
    latest,         \* history: the text that was saved last
    clobbered,      \* history: saved while a run held the row it had read before
    unwrapped       \* history: saved in raw form after the last run had read it
vars == <<content, wide, recorded, run, before, edits, runs, latest, clobbered, unwrapped>>

Idle == [at |-> "idle"]
Reading == [at: {"altered", "revert"}]
Holding == [at: {"up", "down"}, rows: UNION {[S -> Content \cup {Nothing}] : S \in SUBSET Pages}]

TypeOK ==
    /\ content \in [Pages -> Content \cup {Nothing}]
    /\ wide \in BOOLEAN /\ recorded \in BOOLEAN
    /\ run \in Reading \cup Holding \cup {Idle}
    /\ before \in [Pages -> Content \cup {Nothing}]
    /\ edits \in 0..MaxEdits /\ runs \in 0..MaxRuns
    /\ latest \in [Pages -> Texts \cup {"empty"}]
    /\ clobbered \subseteq Pages /\ unwrapped \subseteq Pages

TextOf(c) == IF c = Nothing THEN "empty" ELSE c.text

Init ==
    /\ content \in [Pages -> [form: {"raw"}, text: Texts, large: {FALSE}] \cup {Nothing}]
    /\ wide = FALSE /\ recorded = FALSE /\ run = Idle /\ before = content
    /\ edits = 0 /\ runs = 0
    /\ latest = [p \in Pages |-> TextOf(content[p])]
    /\ clobbered = {} /\ unwrapped = {}

-----------------------------------------------------------------------------
(* What the two directions make of a row.                                  *)
IsBuilderDocument(c) == c # Nothing /\ c.form \in {"single", "blocks"}
Skipped(c) == c = Nothing \/ IsBuilderDocument(c)
(* What is in a block is a string, a document or not.                      *)
Wrap(c) == [form |-> "single", large |-> c.large,
            text |-> IF IsBuilderDocument(c) THEN "a document as text" ELSE c.text]

UnwrappedAll(c) ==      \* mutant: the first block is taken for the whole document
    IF IsBuilderDocument(c)
    THEN [c EXCEPT !.form = "raw", !.text = IF c.form = "single" THEN @ ELSE "first"] ELSE c
Unwrap(c) ==
    IF IsBuilderDocument(c) /\ c.form = "single" THEN [c EXCEPT !.form = "raw"] ELSE c

(* The rows that the run in progress has yet to rewrite, and those that    *)
(* the transaction of a revert has written, and locks.                     *)
Pending == {p \in DOMAIN run.rows : IF run.at = "up" THEN ~Skipped(run.rows[p])
                                    ELSE Unwrap(run.rows[p]) # run.rows[p]}
Locked  == {p \in Pages \ DOMAIN run.rows : Unwrap(before[p]) # before[p]}

(* PATCH /pages, by an editor that knows the builder or one that does not. *)
(* The column refuses what it cannot hold.                                 *)
Edit(p, c) ==
    /\ edits < MaxEdits /\ edits' = edits + 1
    /\ c.large => wide
    /\ run.at = "down" => p \notin Locked
    /\ content' = [content EXCEPT ![p] = c]
    /\ latest' = [latest EXCEPT ![p] = c.text]
    /\ clobbered' = IF run.at \in {"up", "down"} /\ p \in Pending THEN clobbered \cup {p}
                    ELSE clobbered
    /\ unwrapped' = IF c.form = "raw" THEN unwrapped \cup {p} ELSE unwrapped \ {p}
    /\ UNCHANGED <<wide, recorded, run, before, runs>>

-----------------------------------------------------------------------------
(* migration:run, while the migration is not recorded.                     *)
Alter ==
    /\ runs < MaxRuns /\ runs' = runs + 1
    /\ run = Idle /\ ~recorded
    /\ wide' = TRUE /\ run' = [at |-> "altered"]
    /\ UNCHANGED <<content, recorded, before, edits, latest, clobbered, unwrapped>>

Select ==
    /\ run.at = "altered"
    /\ run' = [at |-> "up", rows |-> content]
    /\ unwrapped' = {}
    /\ UNCHANGED <<content, wide, recorded, before, edits, runs, latest, clobbered>>

Without(rows, p) == [q \in DOMAIN rows \ {p} |-> rows[q]]

UpRow(p) ==
    /\ run.at = "up" /\ p \in DOMAIN run.rows
    /\ content' = IF Skipped(run.rows[p]) THEN content
                  ELSE [content EXCEPT ![p] = Wrap(run.rows[p])]
    /\ run' = [run EXCEPT !.rows = Without(@, p)]
    /\ UNCHANGED <<wide, recorded, before, edits, runs, latest, clobbered, unwrapped>>

RecordEarly ==      \* mutant: the run is recorded before its last row
    /\ run.at = "up"
    /\ recorded' = TRUE /\ run' = Idle
    /\ UNCHANGED <<content, wide, before, edits, runs, latest, clobbered, unwrapped>>
Record ==
    /\ run.at = "up" /\ DOMAIN run.rows = {}
    /\ recorded' = TRUE /\ run' = Idle
    /\ UNCHANGED <<content, wide, before, edits, runs, latest, clobbered, unwrapped>>

-----------------------------------------------------------------------------
(* migration:revert: its rows are written in a transaction, which ALTER    *)
(* commits before it fails for what does not fit, or narrows the column.   *)
Revert ==
    /\ runs < MaxRuns /\ runs' = runs + 1
    /\ run = Idle /\ recorded
    /\ before' = content
    /\ run' = [at |-> "down", rows |-> content]
    /\ UNCHANGED <<content, wide, recorded, edits, latest, clobbered, unwrapped>>

DownRow(p) ==
    /\ run.at = "down" /\ p \in DOMAIN run.rows
    /\ content' = IF Unwrap(run.rows[p]) = run.rows[p] THEN content
                  ELSE [content EXCEPT ![p] = Unwrap(run.rows[p])]
    /\ run' = [run EXCEPT !.rows = Without(@, p)]
    /\ UNCHANGED <<wide, recorded, before, edits, runs, latest, clobbered, unwrapped>>

Fits == \A p \in Pages : content[p] # Nothing => ~content[p].large
Narrow ==
    /\ run.at = "down" /\ DOMAIN run.rows = {}
    /\ IF Fits THEN wide' = FALSE /\ run' = [at |-> "revert"]
       ELSE wide' = wide /\ run' = Idle
    /\ UNCHANGED <<content, recorded, before, edits, runs, latest, clobbered, unwrapped>>

Unrecord ==
    /\ run.at = "revert"
    /\ recorded' = FALSE /\ run' = Idle
    /\ UNCHANGED <<content, wide, before, edits, runs, latest, clobbered, unwrapped>>

(* The process dies: a revert before its ALTER is rolled back.             *)
Crash ==
    /\ run # Idle
    /\ content' = IF run.at # "down" THEN content
                  ELSE [p \in Pages |-> IF p \in Locked THEN before[p] ELSE content[p]]
    /\ run' = Idle
    /\ UNCHANGED <<wide, recorded, before, edits, runs, latest, clobbered, unwrapped>>

Next ==
    \/ Alter \/ Select \/ Record \/ Revert \/ Narrow \/ Unrecord \/ Crash
    \/ \E p \in Pages :
            \/ UpRow(p) \/ DownRow(p)
            \/ \E c \in Content : Edit(p, c)

Spec == Init /\ [][Next]_vars

-----------------------------------------------------------------------------
(* Properties.                                                             *)

(* However often the migration and its revert run, and die, the text saved *)
(* last is the text of its page, unless it was saved between the moment a  *)
(* run read the row and the moment it wrote it. No document is wrapped.    *)
TextKept == \A p \in Pages \ clobbered : TextOf(content[p]) = latest[p]

(* When the migration is recorded, every page that has content is in the   *)
(* form of the builder, but those saved in the old form since it was read. *)
RecordedIsWrapped ==
    [][~recorded /\ recorded' =>
        \A p \in Pages : content[p] = Nothing \/ IsBuilderDocument(content[p]) \/ p \in unwrapped]_vars
=============================================================================
