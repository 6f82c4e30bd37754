----------------------------- MODULE UniqueNames -----------------------------
(***************************************************************************)
(* Titles and slugs of posts, topics, pages and categories: the validator  *)
(* IsNotExist looks for each of them when a body comes in, the entity's    *)
(* hook derives the slug, and the row is written later. Posts and topics   *)
(* have unique indexes on both columns, pages and categories on none.      *)
(***************************************************************************)
EXTENDS Naturals, FiniteSets

CONSTANTS
    Rows,           \* identifiers of rows, used or not
    Names,          \* strings that are sent as titles and slugs
    Slug,           \* stringToSlugTransform
    Entities,       \* the tables looked at, each by itself
    Requests,       \* places for concurrent requests
    MaxRequests     \* bound: bodies that come in

Empty   == "empty"      \* the empty string, a falsy value
Omitted == "omitted"
New     == "new"        \* a body of POST has no id

ConstantsAssumption ==
    /\ Slug \in [Names -> Names] /\ Empty \in Names
    /\ \A n \in Names : Slug[Slug[n]] = Slug[n]
    /\ Slug[Empty] = Empty
    /\ Omitted \notin Names /\ New \notin Rows
    /\ Entities \subseteq {"post", "topic", "page", "category"} /\ MaxRequests \in Nat

VARIABLES
    entity,     \* what the table holds
    table,      \* the rows, deleted ones included
    req,        \* requests between their awaits
    requests,
    late,       \* history: rows written after another request had written
    derived     \* history: rows whose slug was made of the title
vars == <<entity, table, req, requests, late, derived>>

(* Which columns are unique, and which titles are validated.               *)
Indexed      == entity \in {"post", "topic"}
TitleChecked == entity # "category"

NoRow == [title |-> "no row"]
Row   == [title: Names, slug: Names, deleted: BOOLEAN]
Body  == [id: Rows \cup {New}, title: Names \cup {Omitted}, slug: Names \cup {Omitted}]
Idle    == [at |-> "idle"]
Request == [at: {"open"}, body: Body, unchecked: SUBSET {"title", "slug"}, overtaken: BOOLEAN]
           \cup [at: {"failed"}, body: Body, overtaken: BOOLEAN]

TypeOK ==
    /\ entity \in Entities
    /\ table \in [Rows -> Row \cup {NoRow}]
    /\ req \in [Requests -> Request \cup {Idle}]
    /\ requests \in 0..MaxRequests
    /\ late \subseteq Rows /\ derived \subseteq Rows

Init ==
    /\ entity \in Entities
    /\ table = [i \in Rows |-> NoRow] /\ req = [r \in Requests |-> Idle]
    /\ requests = 0 /\ late = {} /\ derived = {}

Used == {i \in Rows : table[i] # NoRow}
Value(body, column) == IF column = "title" THEN body.title ELSE body.slug
Column(i, column)   == IF column = "title" THEN table[i].title ELSE table[i].slug
HoldersShown(column, name) ==   \* mutant: the rows that are deleted do not count
    {i \in Used : Column(i, column) = name /\ ~table[i].deleted}
Holders(column, name) == {i \in Used : Column(i, column) = name}

-----------------------------------------------------------------------------
(* A body comes in; the dto turns the slug it names into a slug. What the  *)
(* body leaves out is not validated.                                       *)
Come(r, body) ==
    LET sent == [body EXCEPT !.slug = IF @ = Omitted THEN @ ELSE Slug[@]] IN
    /\ requests < MaxRequests /\ requests' = requests + 1
    /\ req[r].at # "open"
    /\ req' = [req EXCEPT ![r] =
                [at |-> "open", body |-> sent, overtaken |-> FALSE,
                 unchecked |-> {c \in {"title", "slug"} :
                                    Value(sent, c) # Omitted /\ (c = "title" => TitleChecked)}]]
    /\ UNCHANGED <<entity, table, late, derived>>

(* POST needs a title; PATCH may leave it out. Empty ones are left out.    *)
Acceptable(body) ==
    /\ body.id = New => body.title # Omitted
    /\ body.title # Empty

(* IsNotExist: any one of the rows that hold the name, or none, is found.  *)
NotExist(body, found) == found = {} \/ found = {body.id}

Check(r, column) ==
    LET body == req[r].body  held == Holders(column, Value(body, column)) IN
    /\ req[r].at = "open" /\ column \in req[r].unchecked
    /\ \E found \in IF held = {} THEN {{}} ELSE {{i} : i \in held} :
            req' = [req EXCEPT ![r] = IF NotExist(body, found)
                                      THEN [req[r] EXCEPT !.unchecked = @ \ {column}] ELSE Idle]
    /\ UNCHANGED <<entity, table, requests, late, derived>>

-----------------------------------------------------------------------------
(* createSlug, the hook of the entity: BeforeInsert and BeforeUpdate.      *)
CreateSlug(body) ==
    IF body.slug \notin {Omitted, Empty} THEN Slug[body.slug]
    ELSE IF body.title # Omitted THEN Slug[body.title] ELSE body.slug
Derived(body) == body.slug \in {Omitted, Empty}

Merged(old, body) ==
    [title |-> IF body.title = Omitted THEN old.title ELSE body.title,
     slug  |-> IF CreateSlug(body) = Omitted THEN old.slug ELSE CreateSlug(body),
     deleted |-> old # NoRow /\ old.deleted]
Fits(i, row) ==
    Indexed => \A j \in Used \ {i} : table[j].title # row.title /\ table[j].slug # row.slug

(* A write overtakes every request that is still between its awaits.       *)
Overtake(r, next) ==
    [q \in Requests |-> IF q = r THEN next
                        ELSE IF req[q].at = "open" THEN [req[q] EXCEPT !.overtaken = TRUE]
                        ELSE req[q]]

(* create and update: save inserts or updates, or an index refuses.        *)
Save(r, i) ==
    LET body == req[r].body  row == Merged(table[i], body) IN
    /\ req[r].at = "open" /\ req[r].unchecked = {}
    /\ IF body.id = New THEN table[i] = NoRow ELSE i = body.id /\ table[i] # NoRow
    /\ IF Fits(i, row)
       THEN /\ table' = [table EXCEPT ![i] = row]
            /\ late' = IF req[r].overtaken THEN late \cup {i} ELSE late
            /\ derived' = IF Derived(body) THEN derived \cup {i} ELSE derived
            /\ req' = Overtake(r, Idle)
       ELSE /\ req' = [req EXCEPT ![r] =
                        [at |-> "failed", body |-> body, overtaken |-> req[r].overtaken]]
            /\ UNCHANGED <<table, late, derived>>
    /\ UNCHANGED <<entity, requests>>

(* softDelete: the row keeps its title and its slug.                       *)
SoftDelete(i) ==
    /\ i \in Used /\ ~table[i].deleted
    /\ table' = [table EXCEPT ![i].deleted = TRUE]
    /\ UNCHANGED <<entity, req, requests, late, derived>>

Next ==
    \/ \E i \in Rows : SoftDelete(i)
    \/ \E r \in Requests :
            \/ \E body \in Body : Acceptable(body) /\ (body.id # New => body.id \in Used) /\ Come(r, body)
            \/ \E column \in {"title", "slug"} : Check(r, column)
            \/ \E i \in Rows : Save(r, i)

Spec == Init /\ [][Next]_vars

-----------------------------------------------------------------------------
(* Properties.                                                             *)

(* Two rows have the same slug only if the slug of one was made of its     *)
(* title, or one was written after another request had written in between; *)
(* the same title only for the second reason. Deleted rows count.          *)
SharedOnlyIfExposed ==
    \A i, j \in Used : i # j =>
        /\ table[i].slug = table[j].slug => {i, j} \cap (late \cup derived) # {}
        /\ TitleChecked /\ table[i].title = table[j].title => {i, j} \cap late # {}

(* Where there are indexes, they refuse (an error of the server) only what *)
(* the validators could not see: a slug that was derived, or a row that    *)
(* another request wrote after the check.                                  *)
ErrorOnlyIfExposed ==
    \A r \in Requests : req[r].at = "failed" => req[r].overtaken \/ Derived(req[r].body)

(* Two rows share a name, and an index refuses a write, only for reasons   *)
(* that no validator could see.                                            *)
NamesExplained == TypeOK /\ SharedOnlyIfExposed /\ ErrorOnlyIfExposed
=============================================================================
