--------------------------- MODULE StorageMigration ---------------------------
(***************************************************************************)
(* The move from local uploads to a bucket, beside an app that goes on:    *)
(* one of the two copy scripts puts the files of ./uploads, then           *)
(* migrate-db-refs-to-r2.js rewrites the references, field by field, with  *)
(* one SELECT and then an UPDATE per row.  Either may die anywhere and is  *)
(* run again.  What becomes of one reference is RefRewrite's business;     *)
(* here it has one of four forms.                                          *)
(***************************************************************************)
EXTENDS Naturals

CONSTANTS
    Keys,           \* object keys: paths under uploads/
    Rows,           \* rows that hold a reference, of every table
    KeyOf,          \* the key that a row refers to
    Corrections,    \* a key that a file comes under, and that of its real extension
    FieldOf,        \* the position of the row's column in main's list
    Fields,         \* number of columns; 1 is files.path
    MaxVersions,    \* bound: files ever uploaded
    MaxEdits,       \* bound: edits of texts
    MaxRuns         \* bound: script runs started

ASSUME ConstantsAssumption ==
    /\ KeyOf \in [Rows -> Keys] /\ FieldOf \in [Rows -> 1..Fields]
    /\ Corrections \subseteq Keys \X Keys
    /\ Fields \in Nat \ {0} /\ MaxVersions \in Nat \ {0} /\ MaxEdits \in Nat /\ MaxRuns \in Nat

VARIABLES
    disk, bucket,   \* content version of each key, 0 when there is none
    version,        \* last content version that was uploaded
    rows,           \* form of each row's reference and version of its text
    driver,         \* FILE_STORAGE_DRIVER of the running app
    copy,           \* the run of a copy script
    refs,           \* the run of migrate-db-refs-to-r2.js
    copied,         \* a copy script has ended with exit code 0
    runs, edits,
    late,           \* history: uploads to the disk that no successful copy has listed
    gone,           \* history: keys whose file a later upload took from the disk
    exposed,        \* history: texts saved while the script was at their column
    lost,           \* history: texts that the script has overwritten
    touched         \* history: rows written by the app since the last run began

vars == <<disk, bucket, version, rows, driver, copy, refs, copied, runs, edits,
          late, gone, exposed, lost, touched>>
appVars  == <<version, driver, edits>>
history  == <<late, gone, exposed, lost, touched>>

(* "local" is /uploads/key, "stale" a URL of another host or with a broken *)
(* scheme, "moved" the bare key or the URL of the bucket.                  *)
Forms    == {"none", "local", "stale", "moved"}
Texts    == Rows \X (0..MaxEdits)
Versions == 0..MaxVersions
Ended    == [at |-> "ended"]
Copy == {Ended} \cup
    [at: {"put", "smoke"}, tool: {"node", "sync"}, execute: BOOLEAN,
     listed: SUBSET Keys, todo: SUBSET Keys]
Refs == {Ended} \cup
    [at: {"select", "update", "verify"}, execute: BOOLEAN, field: 1..Fields + 1,
     changes: SUBSET Texts]

TypeOK ==
    /\ disk \in [Keys -> Versions] /\ bucket \in [Keys -> Versions]
    /\ version \in Versions
    /\ rows \in [Rows -> [form: Forms, text: 0..MaxEdits]]
    /\ driver \in {"local", "s3"}
    /\ copy \in Copy /\ refs \in Refs
    /\ copied \in BOOLEAN
    /\ runs \in 0..MaxRuns /\ edits \in 0..MaxEdits
    /\ late \subseteq Keys /\ gone \subseteq Keys /\ touched \subseteq Rows
    /\ exposed \subseteq Texts /\ lost \subseteq Texts

WasStored(k) == disk[k] # 0 \/ k \in gone

(* Rows of an earlier, botched migration may be there from the start, and  *)
(* rows whose file an earlier upload took.                                 *)
Init ==
    /\ disk \in [Keys -> {0, 1}] /\ gone \in SUBSET {k \in Keys : disk[k] = 0}
    /\ bucket = [k \in Keys |-> 0] /\ version = 1
    /\ rows \in [Rows -> [form: {"none", "local", "stale"}, text: {0}]]
    /\ \A r \in Rows : rows[r].form # "none" => WasStored(KeyOf[r])
    /\ driver = "local"
    /\ copy = Ended /\ refs = Ended
    /\ copied = FALSE /\ runs = 0 /\ edits = 0
    /\ late = {} /\ exposed = {} /\ lost = {} /\ touched = {}

-----------------------------------------------------------------------------
(* The app.                                                                *)

(* Does the script hold a value that it has read of this row's column?     *)
AtColumnOf(r) == refs.at = "update" /\ refs.field = FieldOf[r]

(* reconcileExtension: a file keeps the name it came under, or takes that  *)
(* of the type of its bytes.                                               *)
Reconciles(name, k) == name = k \/ <<name, k>> \in Corrections

(* An upload and the row that refers to it; the file is stored first. A    *)
(* topic image keeps the name its client gives it: it is written over what *)
(* is there, is renamed when its bytes are of another type, and the object *)
(* driver unlinks it, or fails to, once it is in the bucket.               *)
Upload(r, name) ==
    LET k == KeyOf[r] IN
    /\ rows[r].form = "none"
    /\ Reconciles(name, k)
    /\ version < MaxVersions
    /\ version' = version + 1
    /\ \E kept \in IF driver = "local" THEN {version + 1} ELSE {0, version + 1} :
            disk' = [disk EXCEPT ![name] = 0, ![k] = kept]
    /\ gone' = {x \in Keys : WasStored(x) /\ disk'[x] = 0}
    /\ IF driver = "local"
       THEN late' = late \cup {k} /\ UNCHANGED bucket
       ELSE bucket' = [bucket EXCEPT ![k] = version + 1] /\ UNCHANGED late
    /\ rows' = [rows EXCEPT ![r] =
                    [form |-> IF driver = "local" THEN "local" ELSE "moved",
                     text |-> 0]]
    /\ touched' = touched \cup {r}
    /\ UNCHANGED <<driver, copy, refs, copied, runs, edits, exposed, lost>>

(* An editor saves a text; it may have been loaded before the migration.   *)
Edit(r, form) ==
    /\ rows[r].form # "none" /\ FieldOf[r] # 1
    /\ edits < MaxEdits
    /\ form \in {rows[r].form, "local"} /\ (form = "local" => WasStored(KeyOf[r]))
    /\ edits' = edits + 1
    /\ rows' = [rows EXCEPT ![r] = [form |-> form, text |-> edits + 1]]
    /\ exposed' = IF AtColumnOf(r) THEN exposed \cup {<<r, edits + 1>>} ELSE exposed
    /\ touched' = touched \cup {r}
    /\ UNCHANGED <<disk, bucket, version, driver, copy, refs, copied, runs, late, gone, lost>>

Deploy ==
    /\ driver = "local" /\ copied
    /\ driver' = "s3"
    /\ UNCHANGED <<disk, bucket, version, rows, copy, refs, copied, runs, edits, history>>

-----------------------------------------------------------------------------
(* migrate-uploads-to-r2-node.js and migrate-uploads-to-r2.sh.             *)

StartRun == runs < MaxRuns /\ runs' = runs + 1

Listed == {k \in Keys : disk[k] # 0}

CopyStart(tool, execute) ==
    /\ copy = Ended /\ Listed # {}
    /\ StartRun
    /\ copy' = [at |-> IF execute THEN "put" ELSE "smoke", tool |-> tool,
                execute |-> execute, listed |-> Listed, todo |-> Listed]
    /\ UNCHANGED <<disk, bucket, appVars, rows, refs, copied, history>>

CopyPutSkips(k) ==          \* mutant: a failed put is logged and skipped
    /\ copy.at = "put" /\ k \in copy.todo
    /\ bucket' = bucket \/ (disk[k] # 0 /\ bucket' = [bucket EXCEPT ![k] = disk[k]])
    /\ copy' = [copy EXCEPT !.todo = @ \ {k},
                            !.at = IF copy.todo = {k} THEN "smoke" ELSE "put"]
    /\ UNCHANGED <<disk, appVars, rows, refs, copied, runs, history>>
(* The node script puts every file, and rejects when one has gone; aws s3  *)
(* sync leaves an object alone that is as large and as recent, and lists   *)
(* as it goes: it never meets a file that has gone before.                 *)
CopyPut(k) ==
    /\ copy.at = "put" /\ k \in copy.todo
    /\ \/ disk[k] # 0 /\ bucket' = [bucket EXCEPT ![k] = disk[k]]
       \/ copy.tool = "sync" /\ bucket[k] >= disk[k] /\ UNCHANGED bucket
    /\ copy' = [copy EXCEPT !.todo = @ \ {k},
                            !.listed = IF disk[k] = 0 THEN @ \ {k} ELSE @,
                            !.at = IF copy.todo = {k} THEN "smoke" ELSE "put"]
    /\ UNCHANGED <<disk, appVars, rows, refs, copied, runs, history>>

(* A sample of the listed keys is fetched through the CDN, which may fail  *)
(* for reasons of its own.                                                 *)
CopySmoke(ok) ==
    /\ copy.at = "smoke"
    /\ ok => \E sample \in SUBSET copy.listed \ {{}} : \A k \in sample : bucket[k] # 0
    /\ copied' = (copied \/ (copy.execute /\ ok))
    /\ late' = IF copy.execute /\ ok THEN late \ copy.listed ELSE late
    /\ copy' = Ended
    /\ UNCHANGED <<disk, bucket, appVars, rows, refs, runs, gone, exposed, lost, touched>>

(* A rejected request or the end of the process: nothing is undone.        *)
CopyCrash ==
    /\ copy.at \in {"put", "smoke"}
    /\ copy' = Ended
    /\ UNCHANGED <<disk, bucket, appVars, rows, refs, copied, runs, history>>

-----------------------------------------------------------------------------
(* migrate-db-refs-to-r2.js, started by an operator who follows the README *)
(* and copies the files first.                                             *)

RefsStart(execute) ==
    /\ refs = Ended /\ (execute => copied)
    /\ StartRun
    /\ refs' = [at |-> "select", execute |-> execute, field |-> 1, changes |-> {}]
    /\ touched' = {}
    /\ UNCHANGED <<disk, bucket, appVars, rows, copy, copied, late, gone, exposed, lost>>

ChangesLocal(field) ==      \* mutant: only rows with /uploads/ are looked for
    {<<r, rows[r].text>> : r \in {x \in Rows : FieldOf[x] = field /\ rows[x].form = "local"}}
ChangesAll(field) ==        \* mutant: every column is read before the first UPDATE
    IF field > 1 THEN refs.changes
    ELSE {<<r, rows[r].text>> : r \in {x \in Rows : rows[x].form \in {"local", "stale"}}}
Changes(field) ==
    {<<r, rows[r].text>> : r \in {x \in Rows : FieldOf[x] = field
                                        /\ rows[x].form \in {"local", "stale"}}}

ToUpdate == {c \in refs.changes : FieldOf[c[1]] = refs.field}
NextFieldSelect == [refs EXCEPT !.at = "select", !.field = @ + 1]   \* mutant: no end
NextField == [refs EXCEPT !.at = IF refs.field = Fields THEN "verify" ELSE "select",
                          !.field = @ + 1]

RefsSelect ==
    /\ refs.at = "select"
    /\ refs' = [refs EXCEPT !.at = "update", !.changes = Changes(refs.field)]
    /\ UNCHANGED <<disk, bucket, appVars, rows, copy, copied, runs, history>>

(* UPDATE ... SET column = after WHERE id: the whole text as it was read.  *)
RefsUpdate(c) ==
    /\ refs.at = "update" /\ refs.execute /\ c \in ToUpdate
    /\ rows' = [rows EXCEPT ![c[1]] = [form |-> "moved", text |-> c[2]]]
    /\ refs' = [refs EXCEPT !.changes = @ \ {c}]
    /\ lost' = IF rows[c[1]].text = c[2] THEN lost
               ELSE lost \cup {<<c[1], rows[c[1]].text>>}
    /\ UNCHANGED <<disk, bucket, appVars, copy, copied, runs, late, gone, exposed, touched>>

RefsField ==
    /\ refs.at = "update" /\ (refs.execute => ToUpdate = {})
    /\ refs' = NextField
    /\ UNCHANGED <<disk, bucket, appVars, rows, copy, copied, runs, history>>

(* Exit code 2 when verifyNoMalformedRefs finds a broken scheme.           *)
RefsVerify ==
    /\ refs.at = "verify"
    /\ refs' = Ended
    /\ UNCHANGED <<disk, bucket, appVars, rows, copy, copied, runs, history>>

RefsCrash ==
    /\ refs.at \in {"select", "update", "verify"}
    /\ refs' = Ended
    /\ UNCHANGED <<disk, bucket, appVars, rows, copy, copied, runs, history>>

Next ==
    \/ \E r \in Rows : (\E name \in Keys : Upload(r, name)) \/ \E form \in Forms : Edit(r, form)
    \/ Deploy
    \/ \E tool \in {"node", "sync"}, execute \in BOOLEAN : CopyStart(tool, execute)
    \/ \E k \in Keys : CopyPut(k)
    \/ \E ok \in BOOLEAN : CopySmoke(ok)
    \/ CopyCrash
    \/ \E execute \in BOOLEAN : RefsStart(execute)
    \/ RefsSelect \/ RefsField \/ RefsVerify \/ RefsCrash
    \/ \E c \in Texts : RefsUpdate(c)

Spec == Init /\ [][Next]_vars

-----------------------------------------------------------------------------
(* Properties.                                                             *)

(* Copying before rewriting is enough: at every moment of the procedure,   *)
(* through crashes, dry runs and a change of driver, a reference leads to  *)
(* a file, but for files uploaded to the disk after it was listed, and for *)
(* those that a later upload of the same name took from the disk: renamed  *)
(* for their type, or unlinked after it went to the bucket.                *)
ReferencesResolve ==
    \A r \in Rows :
        /\ rows[r].form = "moved" => \/ bucket[KeyOf[r]] # 0
                                    \/ KeyOf[r] \in late \cup gone
        /\ rows[r].form = "local" => WasStored(KeyOf[r])

(* A run that goes through leaves no reference behind, whatever earlier    *)
(* runs left half done, except on rows that the app wrote meanwhile.       *)
RerunCompletes ==
    refs.at = "verify" /\ refs.execute =>
        \A r \in Rows \ touched : rows[r].form \in {"none", "moved"}

(* An edit is lost to the script only if it was saved between the SELECT   *)
(* of its own column and the UPDATE of its row.                            *)
LostOnlyIfExposed == lost \subseteq exposed
=============================================================================
