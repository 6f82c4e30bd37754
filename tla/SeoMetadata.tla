----------------------------- MODULE SeoMetadata -----------------------------
(***************************************************************************)
(* The metadata rows of posts, pages and topics: SeoService.update, which  *)
(* edits the SEO fields of a material in place, beside the ordinary PATCH  *)
(* of that material, which cascades a metadata object of its own.          *)
(*                                                                         *)
(* SeoService.update awaits a find, then either a save of what it has read *)
(* with the new fields laid over it, or an insert and the update of the    *)
(* foreign key.  Repository.save itself reads the row again, and writes    *)
(* the columns in which the two differ.  Nothing locks the row.            *)
(***************************************************************************)
EXTENDS Naturals, Functions

CONSTANTS
    Materials,      \* posts, pages and topics
    SeoFields,      \* columns that SeoMetadataFieldsDto may carry
    OtherColumns,   \* the other columns of metadata, ogImage for one
    Texts,          \* trimmed, non-empty values of a column
    Null,           \* SQL null: what a blank text is stored as
    Requests,       \* SEO updates that may run at the same time
    MaxRows,        \* bound: metadata rows ever inserted
    MaxEdits,       \* bound: PATCHes that carry a metadata object
    MaxFailures     \* bound: failed awaits and crashes

ASSUME ConstantsAssumption ==
    /\ SeoFields \cap OtherColumns = {}
    /\ Null \notin Texts
    /\ MaxRows \in Nat /\ MaxEdits \in Nat /\ MaxFailures \in Nat

VARIABLES
    link,           \* metadataId of each material, 0 when it is null
    rows,           \* table metadata: the columns of each row
    lastRow,        \* rows 1..lastRow have been inserted
    deleted,        \* materials that are soft-deleted
    requests,       \* what each running SEO update has read and where it stands
    edits, failures,
    disturbed       \* history: updates overtaken by a write to what they had read

vars == <<link, rows, lastRow, deleted, requests, edits, failures, disturbed>>

Columns == SeoFields \cup OtherColumns
Values  == Texts \cup {Null}
RowIds  == 1..MaxRows
Blank   == [c \in Columns |-> Null]

(* Objects with some of the columns, as a request body has them.           *)
Bodies(C) == UNION {[S -> Values] : S \in SUBSET C}

(* Object spread: body laid over row.                                      *)
OverlayNothing(row, body) ==    \* mutant: without ...target.metadata
    [c \in Columns |-> IF c \in DOMAIN body THEN body[c] ELSE Null]
OverlaySwapped(row, body) == row    \* mutant: {...values, ...target.metadata}
Overlay(row, body) == [c \in Columns |-> IF c \in DOMAIN body THEN body[c] ELSE row[c]]

Idle == [at |-> "idle"]

(* An update: material, body, the row it works on and the columns it knows *)
(* of it.  "select" and "write" are the two halves of save().              *)
Request == {Idle} \cup
    [at: {"select", "write", "insert", "link"}, material: Materials,
     body: Bodies(SeoFields), row: 0..MaxRows, columns: Bodies(Columns)]

TypeOK ==
    /\ link \in [Materials -> 0..MaxRows]
    /\ rows \in [RowIds -> [Columns -> Values]]
    /\ lastRow \in 0..MaxRows
    /\ deleted \subseteq Materials
    /\ requests \in [Requests -> Request]
    /\ edits \in 0..MaxEdits /\ failures \in 0..MaxFailures
    /\ disturbed \subseteq Requests

Init ==
    /\ link = [m \in Materials |-> 0]
    /\ rows = [i \in RowIds |-> Blank]
    /\ lastRow = 0 /\ deleted = {}
    /\ requests = [r \in Requests |-> Idle]
    /\ edits = 0 /\ failures = 0
    /\ disturbed = {}

-----------------------------------------------------------------------------
At(r, step) == requests[r].at = step
Goto(r, q)  == requests' = [requests EXCEPT ![r] = q]

(* Updates that still rely on what they read of row i, or of material m.   *)
ReliantOnRow(i) ==
    {x \in Requests : (At(x, "select") \/ At(x, "write")) /\ requests[x].row = i}
ReliantOnLink(m) ==
    {x \in Requests : ~At(x, "idle") /\ requests[x].material = m}

InsertRow(body) ==
    /\ lastRow < MaxRows
    /\ lastRow' = lastRow + 1
    /\ rows' = [rows EXCEPT ![lastRow + 1] = Overlay(Blank, body)]

(* PATCH /seo/:type/:id: read the material and its metadata; 404 without.  *)
SeoFind(r, m, body) ==
    /\ At(r, "idle")
    /\ m \notin deleted
    /\ Goto(r, IF link[m] = 0
               THEN [at |-> "insert", material |-> m, body |-> body, row |-> 0,
                     columns |-> body]
               ELSE [at |-> "select", material |-> m, body |-> body, row |-> link[m],
                     columns |-> Overlay(rows[link[m]], body)])
    /\ disturbed' = disturbed \ {r}
    /\ UNCHANGED <<link, rows, lastRow, deleted, edits, failures>>

(* save() of the whole object: which columns differ from the row as it is? *)
Differences(q) ==
    Restrict(q.columns, {c \in Columns : q.columns[c] # rows[q.row][c]})

SeoSelect(r) ==
    LET q == requests[r] IN
    /\ At(r, "select")
    /\ Goto(r, [q EXCEPT !.at = "write", !.columns = Differences(q)])
    /\ UNCHANGED <<link, rows, lastRow, deleted, edits, failures, disturbed>>

SeoWrite(r) ==
    LET q == requests[r] IN
    /\ At(r, "write")
    /\ rows' = [rows EXCEPT ![q.row] = Overlay(@, q.columns)]
    /\ disturbed' = IF DOMAIN q.columns = {} THEN disturbed
                    ELSE disturbed \cup (ReliantOnRow(q.row) \ {r})
    /\ Goto(r, Idle)
    /\ UNCHANGED <<link, lastRow, deleted, edits, failures>>

SeoInsert(r) ==
    LET q == requests[r] IN
    /\ At(r, "insert")
    /\ InsertRow(q.body)
    /\ Goto(r, [q EXCEPT !.at = "link", !.row = lastRow + 1])
    /\ UNCHANGED <<link, deleted, edits, failures, disturbed>>

(* UPDATE ... SET metadataId WHERE id: a material deleted since, included. *)
SeoLinkAll(r) ==            \* mutant: WHERE metadataId IS NULL
    LET q == requests[r] IN
    /\ At(r, "link")
    /\ link' = [m \in Materials |-> IF link[m] = 0 THEN q.row ELSE link[m]]
    /\ Goto(r, Idle)
    /\ UNCHANGED <<rows, lastRow, deleted, edits, failures, disturbed>>
SeoLink(r) ==
    LET q == requests[r] IN
    /\ At(r, "link")
    /\ link' = [link EXCEPT ![q.material] = q.row]
    /\ disturbed' = disturbed \cup (ReliantOnLink(q.material) \ {r})
    /\ Goto(r, Idle)
    /\ UNCHANGED <<rows, lastRow, deleted, edits, failures>>

(* PATCH /posts, /pages or /topics with a metadata object.  The object has *)
(* no id, so the cascade inserts a row and points the material to it, in   *)
(* the transaction of one save().                                          *)
EditMaterial(m, body) ==
    /\ edits < MaxEdits
    /\ edits' = edits + 1
    /\ InsertRow(body)
    /\ link' = [link EXCEPT ![m] = lastRow + 1]
    /\ disturbed' = disturbed \cup ReliantOnLink(m)
    /\ UNCHANGED <<deleted, requests, failures>>

(* DELETE of the material, a soft delete: its metadata stays.              *)
DeleteMaterial(m) ==
    /\ deleted' = deleted \cup {m}
    /\ UNCHANGED <<link, rows, lastRow, requests, edits, failures, disturbed>>

(* An await rejects or the process dies; what was written stays.           *)
Fail(r) ==
    /\ ~At(r, "idle")
    /\ failures < MaxFailures
    /\ failures' = failures + 1
    /\ Goto(r, Idle)
    /\ UNCHANGED <<link, rows, lastRow, deleted, edits, disturbed>>

HandlerStep(r) == SeoSelect(r) \/ SeoWrite(r) \/ SeoInsert(r) \/ SeoLink(r)

Next ==
    \/ \E r \in Requests :
        \/ \E m \in Materials, body \in Bodies(SeoFields) : SeoFind(r, m, body)
        \/ HandlerStep(r) \/ Fail(r)
    \/ \E m \in Materials :
        \/ \E body \in Bodies(Columns) : EditMaterial(m, body)
        \/ DeleteMaterial(m)

Spec == Init /\ [][Next]_vars
FairSpec == Spec /\ \A r \in Requests : WF_vars(HandlerStep(r))

-----------------------------------------------------------------------------
(* Properties.                                                             *)

(* Two materials never share a metadata row, so that an edit of one cannot *)
(* show on another, whatever inserts and links overlap.                    *)
RowsNotShared ==
    \A m, n \in Materials : link[m] = link[n] /\ link[m] # 0 => m = n

(* A SEO update that nothing overtakes changes no column but those it was  *)
(* sent, ogImage and the other non-SEO columns included.                   *)
LeavesRest(r) ==
    SeoWrite(r) => LET q == requests[r] IN
        \A c \in Columns \ DOMAIN q.body : rows'[q.row][c] = rows[q.row][c]
UndisturbedLeavesRest == [][\A r \in Requests \ disturbed : LeavesRest(r)]_vars

(* When a SEO update that nothing has overtaken answers, the row that the  *)
(* material points to holds every value it was sent.                       *)
AcknowledgedIsShown ==
    [][\A r \in Requests \ disturbed : SeoWrite(r) \/ SeoLink(r) =>
            LET q == requests[r] IN
            /\ link'[q.material] = q.row
            /\ \A c \in DOMAIN q.body : rows'[q.row][c] = q.body[c]]_vars

(* What the comment on SeoService.update says: the fields that were not    *)
(* sent are left as they were.                                             *)
RestLeftAsWas == [][\A r \in Requests : LeavesRest(r)]_vars
=============================================================================
