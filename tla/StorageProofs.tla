---------------------------- MODULE StorageProofs ----------------------------
(* Theorems about the scripts around the bucket, for every set of keys and *)
(* rows and every number of runs: the move of files and references, and    *)
(* the repair of Content-Types.                                            *)
EXTENDS StorageScripts, TLAPS, WellFoundedInduction, SequenceTheorems

USE ConstantsAssumption

-----------------------------------------------------------------------------
(* The shape of a run.                                                     *)

LEMMA CopyFacts ==
    ASSUME TypeOK, copy.at \in {"put", "smoke"}
    PROVE  /\ copy = [at |-> copy.at, tool |-> copy.tool, execute |-> copy.execute,
                      listed |-> copy.listed, todo |-> copy.todo]
           /\ copy.tool \in {"node", "sync"} /\ copy.execute \in BOOLEAN
           /\ copy.listed \subseteq Keys /\ copy.todo \subseteq Keys
  BY DEF TypeOK, Copy, Ended

LEMMA RefsFacts ==
    ASSUME TypeOK, refs.at \in {"select", "update", "verify"}
    PROVE  /\ refs = [at |-> refs.at, execute |-> refs.execute, field |-> refs.field,
                      changes |-> refs.changes]
           /\ refs.execute \in BOOLEAN /\ refs.field \in 1..Fields + 1
           /\ refs.changes \subseteq Texts
  BY DEF TypeOK, Refs, Ended

LEMMA EndedFacts == Ended \in Copy /\ Ended \in Refs /\ Ended.at = "ended"
  BY DEF Ended, Copy, Refs

LEMMA RowFacts ==
    ASSUME TypeOK, NEW r \in Rows
    PROVE  /\ rows[r] = [form |-> rows[r].form, text |-> rows[r].text]
           /\ rows[r].form \in Forms /\ rows[r].text \in 0..MaxEdits
           /\ KeyOf[r] \in Keys /\ FieldOf[r] \in 1..Fields
  BY DEF TypeOK

LEMMA TextFacts ==
    ASSUME NEW c \in Texts
    PROVE  c = <<c[1], c[2]>> /\ c[1] \in Rows /\ c[2] \in 0..MaxEdits
  BY DEF Texts

-----------------------------------------------------------------------------
(* Types.                                                                  *)

(* A run has a column at hand until it verifies; what is gone is not on    *)
(* the disk.                                                               *)
FieldAtHand == refs.at \in {"select", "update"} => refs.field <= Fields
GoneApart   == \A k \in gone : disk[k] = 0
TypeInv == TypeOK /\ FieldAtHand /\ GoneApart

LEMMA CountRuns ==
    ASSUME TypeOK, StartRun
    PROVE  runs' \in 0..MaxRuns
  BY DEF TypeOK, StartRun

LEMMA UploadType ==
    ASSUME TypeInv, NEW r \in Rows, NEW name \in Keys, Upload(r, name)
    PROVE  TypeInv'
<1>1. /\ version \in Versions /\ version + 1 \in Versions /\ KeyOf[r] \in Keys
      /\ 0 \in 0..MaxEdits /\ 0 \in Versions
  BY DEF Upload, TypeInv, TypeOK, Versions
<1>2. /\ disk' \in [Keys -> Versions] /\ bucket' \in [Keys -> Versions]
      /\ late' \subseteq Keys /\ gone' \subseteq Keys
  <2>1. PICK kept \in {0, version + 1} :
            disk' = [disk EXCEPT ![name] = 0, ![KeyOf[r]] = kept]
    BY DEF Upload
  <2>2. disk' \in [Keys -> Versions]
    BY <1>1, <2>1 DEF TypeInv, TypeOK
  <2>3. QED
    BY <1>1, <2>2 DEF Upload, TypeInv, TypeOK
<1>3. rows' \in [Rows -> [form: Forms, text: 0..MaxEdits]]
  BY <1>1 DEF Upload, TypeInv, TypeOK, Forms
<1>4. GoneApart'
  BY DEF Upload, GoneApart
<1>5. QED
  BY <1>1, <1>2, <1>3, <1>4 DEF Upload, TypeInv, TypeOK, FieldAtHand

LEMMA EditType == ASSUME TypeInv, NEW r \in Rows, NEW form \in Forms, Edit(r, form) PROVE TypeInv'
<1>1. edits + 1 \in 0..MaxEdits
  BY DEF Edit, TypeInv, TypeOK
<1>2. rows' \in [Rows -> [form: Forms, text: 0..MaxEdits]]
  BY <1>1 DEF Edit, TypeInv, TypeOK
<1>3. exposed' \subseteq Texts
  BY <1>1 DEF Edit, TypeInv, TypeOK, Texts
<1>4. QED
  BY <1>1, <1>2, <1>3 DEF Edit, TypeInv, TypeOK, FieldAtHand, GoneApart

(* What a copy may change, and what it leaves alone.                       *)
LEMMA CopyTyped ==
    ASSUME TypeInv, copy' \in Copy, bucket' \in [Keys -> Versions], copied' \in BOOLEAN,
           runs' \in 0..MaxRuns, late' \subseteq Keys,
           UNCHANGED <<disk, version, rows, driver, refs, edits, gone, exposed, lost, touched>>
    PROVE  TypeInv'
  BY Zenon DEF TypeInv, TypeOK, FieldAtHand, GoneApart

LEMMA CopyType ==
    ASSUME TypeInv,
           \/ \E tool \in {"node", "sync"}, execute \in BOOLEAN : CopyStart(tool, execute)
           \/ \E k \in Keys : CopyPut(k)
           \/ \E ok \in BOOLEAN : CopySmoke(ok)
           \/ CopyCrash
    PROVE  TypeInv'
<1>1. ASSUME NEW tool \in {"node", "sync"}, NEW execute \in BOOLEAN, CopyStart(tool, execute)
      PROVE  TypeInv'
  <2>1. copy' \in Copy
    <3>1. /\ copy' = [at |-> IF execute THEN "put" ELSE "smoke", tool |-> tool,
                      execute |-> execute, listed |-> Listed, todo |-> Listed]
          /\ Listed \subseteq Keys
      BY <1>1, Zenon DEF CopyStart, Listed
    <3>2. QED
      BY <3>1 DEF Copy
  <2>2. QED
    BY <1>1, <2>1, CountRuns, CopyTyped DEF CopyStart, TypeInv, TypeOK, appVars, history
<1>2. ASSUME NEW k \in Keys, CopyPut(k) PROVE TypeInv'
  <2>1. copy' \in Copy
    <3>1. TypeOK /\ copy.at = "put"
      BY <1>2, Zenon DEF CopyPut, TypeInv
    <3>2. copy' = [copy EXCEPT !.todo = @ \ {k},
                               !.listed = IF disk[k] = 0 THEN @ \ {k} ELSE @,
                               !.at = IF copy.todo = {k} THEN "smoke" ELSE "put"]
      BY <1>2 DEF CopyPut
    <3>3. /\ copy = [at |-> copy.at, tool |-> copy.tool, execute |-> copy.execute,
                      listed |-> copy.listed, todo |-> copy.todo]
          /\ copy.tool \in {"node", "sync"} /\ copy.execute \in BOOLEAN
          /\ copy.listed \subseteq Keys /\ copy.todo \subseteq Keys
      BY <3>1, CopyFacts
    <3>4. copy' = [at |-> IF copy.todo = {k} THEN "smoke" ELSE "put", tool |-> copy.tool,
                   execute |-> copy.execute,
                   listed |-> IF disk[k] = 0 THEN copy.listed \ {k} ELSE copy.listed,
                   todo |-> copy.todo \ {k}]
      BY <3>2, <3>3
    <3>5. copy' \in [at: {"put", "smoke"}, tool: {"node", "sync"}, execute: BOOLEAN,
                     listed: SUBSET Keys, todo: SUBSET Keys]
      BY <3>3, <3>4
    <3>6. QED
      BY <3>5 DEF Copy
  <2>2. bucket' \in [Keys -> Versions]
    <3>1. disk \in [Keys -> Versions] /\ bucket \in [Keys -> Versions]
      BY Zenon DEF TypeInv, TypeOK
    <3>2. bucket' = [bucket EXCEPT ![k] = disk[k]] \/ bucket' = bucket
      BY <1>2, Zenon DEF CopyPut
    <3>3. QED
      BY <3>1, <3>2
  <2>3. QED
    BY <1>2, <2>1, <2>2, CopyTyped DEF CopyPut, TypeInv, TypeOK, appVars, history
<1>3. ASSUME NEW ok \in BOOLEAN, CopySmoke(ok) PROVE TypeInv'
  <2>1. copied' \in BOOLEAN /\ late' \subseteq Keys
    BY <1>3, CopyFacts DEF CopySmoke, TypeInv, TypeOK
  <2>2. QED
    BY <1>3, <2>1, EndedFacts, CopyTyped DEF CopySmoke, TypeInv, TypeOK, appVars
<1>4. CASE CopyCrash
  BY <1>4, EndedFacts, CopyTyped DEF CopyCrash, TypeInv, TypeOK, appVars, history
<1>5. QED
  BY <1>1, <1>2, <1>3, <1>4

LEMMA ChangesType == ASSUME TypeOK, NEW field PROVE Changes(field) \subseteq Texts
<1>1. \A r \in Rows : <<r, rows[r].text>> \in Texts
  BY RowFacts DEF Texts
<1>2. QED
  BY <1>1 DEF Changes

LEMMA RefsType ==
    ASSUME TypeInv,
           \/ \E execute \in BOOLEAN : RefsStart(execute)
           \/ RefsSelect \/ RefsField \/ RefsVerify \/ RefsCrash
           \/ \E c \in Texts : RefsUpdate(c)
    PROVE  TypeInv'
<1>1. ASSUME NEW execute \in BOOLEAN, RefsStart(execute) PROVE TypeInv'
  <2>1. refs' \in Refs /\ FieldAtHand'
    BY <1>1 DEF RefsStart, Refs, FieldAtHand
  <2>2. QED
    BY <1>1, <2>1, CountRuns DEF RefsStart, TypeInv, TypeOK, GoneApart, appVars
<1>2. CASE RefsSelect
  <2>1. /\ refs' = [at |-> "update", execute |-> refs.execute, field |-> refs.field,
                    changes |-> Changes(refs.field)]
        /\ refs.field <= Fields
    BY <1>2, RefsFacts DEF RefsSelect, TypeInv, FieldAtHand
  <2>2. refs' \in Refs /\ FieldAtHand'
    BY <1>2, <2>1, RefsFacts, ChangesType DEF RefsSelect, Refs, FieldAtHand, TypeInv
  <2>3. QED
    BY <1>2, <2>2 DEF RefsSelect, TypeInv, TypeOK, GoneApart, appVars, history
<1>3. CASE RefsField
  <2>1. /\ refs' = [at |-> IF refs.field = Fields THEN "verify" ELSE "select",
                    execute |-> refs.execute, field |-> refs.field + 1,
                    changes |-> refs.changes]
        /\ refs.field <= Fields
    BY <1>3, RefsFacts DEF RefsField, NextField, TypeInv, FieldAtHand
  <2>2. refs' \in Refs /\ FieldAtHand'
    BY <1>3, <2>1, RefsFacts DEF RefsField, Refs, FieldAtHand, TypeInv
  <2>3. QED
    BY <1>3, <2>2 DEF RefsField, TypeInv, TypeOK, GoneApart, appVars, history
<1>4. CASE RefsVerify \/ RefsCrash
  BY <1>4, EndedFacts
  DEF RefsVerify, RefsCrash, TypeInv, TypeOK, FieldAtHand, GoneApart, appVars, history
<1>5. ASSUME NEW c \in Texts, RefsUpdate(c) PROVE TypeInv'
  <2>1. refs' = [at |-> "update", execute |-> refs.execute, field |-> refs.field,
                 changes |-> refs.changes \ {c}]
    BY <1>5, RefsFacts DEF RefsUpdate, TypeInv
  <2>2. refs' \in Refs /\ FieldAtHand'
    <3>1. /\ refs.at = "update" /\ refs.execute \in BOOLEAN /\ refs.field \in 1..Fields + 1
          /\ refs.changes \subseteq Texts /\ refs.field <= Fields
      BY <1>5, RefsFacts DEF RefsUpdate, FieldAtHand, TypeInv
    <3>2. refs' \in Refs
      BY <2>1, <3>1 DEF Refs
    <3>3. refs'.field = refs.field
      BY <2>1
    <3>4. QED
      BY <3>1, <3>2, <3>3 DEF FieldAtHand
  <2>3. rows' \in [Rows -> [form: Forms, text: 0..MaxEdits]]
    BY <1>5, TextFacts DEF RefsUpdate, TypeInv, TypeOK, Forms
  <2>4. lost' \subseteq Texts
    BY <1>5, TextFacts, RowFacts DEF RefsUpdate, TypeInv, TypeOK, Texts
  <2>5. QED
    BY <1>5, <2>2, <2>3, <2>4 DEF RefsUpdate, TypeInv, TypeOK, GoneApart, appVars
<1>6. QED
  BY <1>1, <1>2, <1>3, <1>4, <1>5

LEMMA TypeStep == ASSUME TypeInv, [Next]_vars PROVE TypeInv'
<1>1. CASE Deploy
  BY <1>1 DEF Deploy, TypeInv, TypeOK, FieldAtHand, GoneApart, history
<1>2. CASE UNCHANGED vars
  BY <1>2 DEF vars, TypeInv, TypeOK, FieldAtHand, GoneApart
<1>3. QED
  BY <1>1, <1>2, UploadType, EditType, CopyType, RefsType DEF Next

LEMMA Typed == Spec => []TypeInv
<1>1. ASSUME Init PROVE TypeInv
  <2>1. disk \in [Keys -> Versions] /\ bucket \in [Keys -> Versions] /\ version \in Versions
    BY <1>1 DEF Init, Versions
  <2>2. rows \in [Rows -> [form: Forms, text: 0..MaxEdits]]
    BY <1>1 DEF Init, Forms
  <2>3. copy \in Copy /\ refs \in Refs /\ FieldAtHand
    BY <1>1, EndedFacts DEF Init, FieldAtHand
  <2>4. runs \in 0..MaxRuns /\ edits \in 0..MaxEdits
    BY <1>1 DEF Init
  <2>5. QED
    BY <1>1, <2>1, <2>2, <2>3, <2>4 DEF Init, TypeInv, TypeOK, GoneApart
<1>2. QED
  BY <1>1, TypeStep, PTL DEF Spec

-----------------------------------------------------------------------------
(* References resolve. Three facts carry it: a copy has in its list every  *)
(* file of the disk that the bucket or a history does not account for;     *)
(* once a copy has succeeded, nothing else is on the disk; and the script  *)
(* that moves a reference runs after one, and moves only what had its file *)
(* on the disk, before an upload took it or still.                         *)

Reached(k) == bucket[k] # 0 \/ k \in late \cup gone

CopyHolds ==
    copy.at \in {"put", "smoke"} =>
        /\ copy.todo \subseteq copy.listed
        /\ copy.execute => \A k \in copy.listed \ copy.todo : bucket[k] # 0
        /\ copy.at = "smoke" /\ copy.execute => copy.todo = {}
        /\ \A k \in Keys : disk[k] # 0 => k \in copy.listed \/ Reached(k)

CopiedReached == copied => \A k \in Keys : disk[k] # 0 => Reached(k)

OldOnDisk ==
    /\ \A r \in Rows : rows[r].form \in {"local", "stale"} => WasStored(KeyOf[r])
    /\ refs.at = "update" => \A c \in refs.changes : WasStored(KeyOf[c[1]])

MovedReached == \A r \in Rows : rows[r].form = "moved" => Reached(KeyOf[r])

RefsAfterCopy == refs.at \in {"select", "update", "verify"} /\ refs.execute => copied

ResolveInv == CopyHolds /\ CopiedReached /\ OldOnDisk /\ MovedReached /\ RefsAfterCopy

-----------------------------------------------------------------------------
(* Nothing is left behind, and nothing is lost unseen: a change at hand is *)
(* the only one of its row, which still has the text that was read, or was *)
(* saved since and is exposed.                                             *)

ChangesHold ==
    refs.at = "update" =>
        \A c \in refs.changes :
            /\ FieldOf[c[1]] = refs.field /\ rows[c[1]].form # "none"
            /\ rows[c[1]].text = c[2] \/ <<c[1], rows[c[1]].text>> \in exposed
            /\ \A d \in refs.changes : d[1] = c[1] => d = c

LostInv == ChangesHold /\ LostOnlyIfExposed

(* Columns are done in order: an old reference of a row that the app left  *)
(* alone is in a column to come, or among the changes of this one.         *)
ColumnsDone ==
    refs.at \in {"select", "update", "verify"} /\ refs.execute =>
        \A r \in Rows \ touched : rows[r].form \in {"local", "stale"} =>
            /\ FieldOf[r] >= refs.field
            /\ refs.at = "update" /\ FieldOf[r] = refs.field =>
                    \E c \in refs.changes : c[1] = r
VerifyLast == refs.at = "verify" => refs.field = Fields + 1

IInv == TypeInv /\ ResolveInv /\ LostInv /\ ColumnsDone /\ VerifyLast

(* Objects stay in the bucket, files on the disk unless an upload takes    *)
(* them, and only a copy that has put what it listed takes keys out of     *)
(* late; what is new on the disk is late, or in the bucket as well.        *)
FilesStay ==
    \A k \in Keys :
        /\ WasStored(k) => disk'[k] # 0 \/ k \in gone'
        /\ bucket[k] # 0 => bucket'[k] # 0
        /\ Reached(k) => bucket'[k] # 0 \/ k \in late' \cup gone'
        /\ disk'[k] # 0 => \/ disk[k] # 0
                            \/ bucket'[k] # 0 \/ k \in late' \cup gone'

LEMMA SameFiles == ASSUME UNCHANGED <<disk, bucket, late, gone>> PROVE FilesStay
  BY DEF FilesStay, Reached, WasStored

(* What becomes of each key in an upload; k is the one that is stored.     *)
LEMMA UploadFiles ==
    ASSUME TypeInv, NEW r \in Rows, NEW name \in Keys, Upload(r, name)
    PROVE  /\ KeyOf[r] \in Keys
           /\ \/ driver = "local" /\ disk'[KeyOf[r]] # 0 /\ KeyOf[r] \in late'
              \/ driver # "local" /\ bucket'[KeyOf[r]] # 0
           /\ late \subseteq late'
           /\ \A x \in Keys : bucket[x] # 0 => bucket'[x] # 0
           /\ \A x \in Keys \ {KeyOf[r]} : disk'[x] \in {0, disk[x]}
           /\ \A x \in Keys : WasStored(x) => disk'[x] # 0 \/ x \in gone'
<1> DEFINE k == KeyOf[r]
<1>1. k \in Keys /\ version + 1 # 0
  BY RowFacts DEF TypeInv, TypeOK, Versions
<1>2. disk \in [Keys -> Versions] /\ bucket \in [Keys -> Versions]
  BY DEF TypeInv, TypeOK
<1>3. PICK kept \in IF driver = "local" THEN {version + 1} ELSE {0, version + 1} :
          disk' = [disk EXCEPT ![name] = 0, ![k] = kept]
  BY DEF Upload
<1>4. disk'[k] = kept /\ \A x \in Keys \ {k} : disk'[x] \in {0, disk[x]}
  BY <1>1, <1>2, <1>3
<1>5. \A x \in Keys : WasStored(x) => disk'[x] # 0 \/ x \in gone'
  BY DEF Upload
<1>6. CASE driver = "local"
  <2>1. late' = late \cup {k} /\ bucket' = bucket /\ disk'[k] # 0
    BY <1>1, <1>3, <1>4, <1>6 DEF Upload
  <2>2. QED
    BY <1>1, <1>4, <1>5, <1>6, <2>1
<1>7. CASE driver # "local"
  <2>1. bucket' = [bucket EXCEPT ![k] = version + 1] /\ late' = late
    BY <1>7 DEF Upload
  <2>2. QED
    BY <1>1, <1>2, <1>4, <1>5, <1>7, <2>1
<1>8. QED
  BY <1>6, <1>7

LEMMA StayStep == ASSUME TypeInv, CopyHolds, [Next]_vars PROVE FilesStay
<1>1. ASSUME NEW r \in Rows, NEW name \in Keys, Upload(r, name) PROVE FilesStay
  <2>1. ASSUME NEW x \in Keys, Reached(x)
        PROVE  bucket'[x] # 0 \/ x \in late' \cup gone'
    <3>1. CASE bucket[x] # 0 \/ x \in late
      BY <1>1, <3>1, UploadFiles
    <3>2. CASE x \in gone /\ disk'[x] = 0
      BY <1>1, <3>2, UploadFiles DEF WasStored
    <3>3. CASE x \in gone /\ disk'[x] # 0 /\ disk[x] = 0
      BY <1>1, <3>3, UploadFiles
    <3>4. x \in gone => disk[x] = 0
      BY DEF TypeInv, GoneApart
    <3>5. QED
      BY <2>1, <3>1, <3>2, <3>3, <3>4 DEF Reached
  <2>2. ASSUME NEW x \in Keys, disk'[x] # 0, disk[x] = 0
        PROVE  bucket'[x] # 0 \/ x \in late'
    BY <1>1, <2>2, UploadFiles
  <2>3. QED
    BY <1>1, <2>1, <2>2, UploadFiles DEF FilesStay
<1>2. ASSUME NEW k \in Keys, CopyPut(k) PROVE FilesStay
  <2>1. /\ bucket' = bucket \/ (disk[k] # 0 /\ bucket' = [bucket EXCEPT ![k] = disk[k]])
        /\ disk' = disk /\ late' = late /\ gone' = gone
    BY <1>2 DEF CopyPut, history
  <2>2. QED
    BY <2>1 DEF FilesStay, Reached, WasStored, TypeInv, TypeOK
<1>3. ASSUME NEW ok \in BOOLEAN, CopySmoke(ok) PROVE FilesStay
  <2>1. disk' = disk /\ bucket' = bucket /\ gone' = gone
    BY <1>3 DEF CopySmoke
  <2>2. CASE late' = late
    BY <2>1, <2>2, SameFiles
  <2>3. CASE copy.execute /\ late' = late \ copy.listed
    <3>1. \A k \in copy.listed : bucket[k] # 0
      BY <1>3, <2>3 DEF CopySmoke, CopyHolds
    <3>2. QED
      BY <2>1, <2>3, <3>1 DEF FilesStay, Reached, WasStored
  <2>4. QED
    BY <1>3, <2>2, <2>3 DEF CopySmoke
<1>4. ASSUME NEW r \in Rows, NEW form \in Forms, Edit(r, form) PROVE FilesStay
  BY <1>4, SameFiles DEF Edit
<1>5. ASSUME NEW tool, NEW execute, CopyStart(tool, execute) PROVE FilesStay
  BY <1>5, SameFiles DEF CopyStart, history
<1>6. ASSUME NEW execute, RefsStart(execute) PROVE FilesStay
  BY <1>6, SameFiles DEF RefsStart
<1>7. ASSUME NEW c, RefsUpdate(c) PROVE FilesStay
  BY <1>7, SameFiles DEF RefsUpdate
<1>8. CASE Deploy \/ CopyCrash \/ RefsSelect \/ RefsField \/ RefsVerify \/ RefsCrash
  BY <1>8, SameFiles DEF Deploy, CopyCrash, RefsSelect, RefsField, RefsVerify, RefsCrash, history
<1>9. CASE UNCHANGED vars
  BY <1>9, SameFiles DEF vars
<1>10. QED
  BY <1>1, <1>2, <1>3, <1>4, <1>5, <1>6, <1>7, <1>8, <1>9 DEF Next

(* While the same copy goes on with what it has listed, it holds.          *)
LEMMA SameCopy ==
    ASSUME TypeInv, CopyHolds, FilesStay, copy' = copy
    PROVE  CopyHolds'
<1>1. SUFFICES ASSUME copy.at \in {"put", "smoke"} PROVE CopyHolds'
  BY DEF CopyHolds
<1>2. copy.listed \subseteq Keys
  BY <1>1, CopyFacts DEF TypeInv
<1>3. QED
  BY <1>1, <1>2 DEF CopyHolds, FilesStay, Reached

LEMMA NoCopy == ASSUME copy' = Ended PROVE CopyHolds'
  BY EndedFacts DEF CopyHolds

LEMMA CopyStep == ASSUME TypeInv, CopyHolds, [Next]_vars PROVE CopyHolds'
<1>0. FilesStay
  BY StayStep
<1>1. ASSUME NEW tool \in {"node", "sync"}, NEW execute \in BOOLEAN, CopyStart(tool, execute)
      PROVE  CopyHolds'
  <2>1. /\ copy' = [at |-> IF execute THEN "put" ELSE "smoke", tool |-> tool,
                    execute |-> execute, listed |-> Listed, todo |-> Listed]
        /\ UNCHANGED <<disk, bucket, late>>
    BY <1>1 DEF CopyStart, history
  <2>2. QED
    BY <2>1 DEF CopyHolds, Listed
<1>2. ASSUME NEW k \in Keys, CopyPut(k) PROVE CopyHolds'
  <2>1. /\ copy' = [at |-> IF copy.todo = {k} THEN "smoke" ELSE "put", tool |-> copy.tool,
                    execute |-> copy.execute,
                    listed |-> IF disk[k] = 0 THEN copy.listed \ {k} ELSE copy.listed,
                    todo |-> copy.todo \ {k}]
        /\ copy.listed \subseteq Keys
    BY <1>2, CopyFacts DEF CopyPut, TypeInv
  <2>2. UNCHANGED <<disk, late, gone>> /\ (disk[k] # 0 => bucket'[k] # 0)
    <3>1. disk \in [Keys -> Nat] /\ bucket \in [Keys -> Nat]
      BY DEF TypeInv, TypeOK, Versions
    <3>2. /\ \/ disk[k] # 0 /\ bucket' = [bucket EXCEPT ![k] = disk[k]]
             \/ bucket' = bucket /\ bucket[k] >= disk[k]
          /\ UNCHANGED <<disk, late, gone>>
      BY <1>2, Zenon DEF CopyPut, history
    <3>3. QED
      BY <3>1, <3>2
  <2>3. copy.at = "put" /\ k \in copy.todo
    BY <1>2 DEF CopyPut
  <2>4. \A x \in Keys : disk'[x] # 0 => x \in copy'.listed \/ Reached(x)'
    <3>1. \A x \in Keys : disk[x] # 0 => x \in copy.listed \/ Reached(x)
      BY <2>3 DEF CopyHolds
    <3>2. ASSUME NEW x \in Keys, disk[x] # 0, x \in copy.listed
          PROVE  x \in copy'.listed
      BY <2>1, <3>2
    <3>3. QED
      BY <1>0, <2>2, <3>1, <3>2 DEF FilesStay, Reached
  <2>5. copy'.todo \subseteq copy'.listed
    BY <2>1, <2>2, <2>3 DEF CopyHolds
  <2>6. copy'.execute => \A x \in copy'.listed \ copy'.todo : bucket'[x] # 0
    <3>1. ASSUME copy.execute, NEW x \in copy'.listed, x \notin copy'.todo
          PROVE  bucket'[x] # 0
      <4>1. x \in copy.listed /\ (x = k => disk[k] # 0) /\ (x # k => x \notin copy.todo)
        BY <2>1, <3>1
      <4>2. x # k => bucket[x] # 0 /\ x \in Keys
        BY <2>1, <2>3, <3>1, <4>1 DEF CopyHolds
      <4>3. QED
        BY <1>0, <2>2, <4>1, <4>2 DEF FilesStay
    <3>2. copy'.execute = copy.execute
      BY <2>1
    <3>3. QED
      BY <3>1, <3>2
  <2>7. copy'.at = "smoke" => copy'.todo = {}
    BY <2>1
  <2>8. QED
    BY <2>4, <2>5, <2>6, <2>7 DEF CopyHolds
<1>3. ASSUME NEW ok \in BOOLEAN, CopySmoke(ok) PROVE CopyHolds'
  BY <1>3, NoCopy DEF CopySmoke
<1>4. CASE CopyCrash
  BY <1>4, NoCopy DEF CopyCrash
<1>5. ASSUME NEW r \in Rows, NEW name \in Keys, Upload(r, name) PROVE CopyHolds'
  BY <1>0, <1>5, SameCopy DEF Upload
<1>6. ASSUME NEW r \in Rows, NEW form \in Forms, Edit(r, form) PROVE CopyHolds'
  BY <1>0, <1>6, SameCopy DEF Edit
<1>7. ASSUME NEW execute, RefsStart(execute) PROVE CopyHolds'
  BY <1>0, <1>7, SameCopy DEF RefsStart
<1>8. ASSUME NEW c, RefsUpdate(c) PROVE CopyHolds'
  BY <1>0, <1>8, SameCopy DEF RefsUpdate
<1>9. CASE Deploy \/ RefsSelect \/ RefsField \/ RefsVerify \/ RefsCrash \/ UNCHANGED vars
  BY <1>0, <1>9, SameCopy DEF Deploy, RefsSelect, RefsField, RefsVerify, RefsCrash, history, vars
<1>10. QED
  BY <1>1, <1>2, <1>3, <1>4, <1>5, <1>6, <1>7, <1>8, <1>9 DEF Next

LEMMA AfterCopyStep == ASSUME TypeInv, RefsAfterCopy, [Next]_vars PROVE RefsAfterCopy'
<1>1. copied => copied'
  <2>1. ASSUME NEW ok \in BOOLEAN, CopySmoke(ok) PROVE copied => copied'
    BY <2>1 DEF CopySmoke
  <2>2. QED
    BY <2>1 DEF Next, Upload, Edit, Deploy, CopyStart, CopyPut, CopyCrash, RefsStart,
                RefsSelect, RefsField, RefsVerify, RefsCrash, RefsUpdate, vars
<1>2. CASE UNCHANGED refs
  BY <1>1, <1>2 DEF RefsAfterCopy
<1>3. ASSUME NEW execute \in BOOLEAN, RefsStart(execute) PROVE RefsAfterCopy'
  BY <1>3 DEF RefsStart, RefsAfterCopy
<1>4. CASE RefsSelect
  BY <1>1, <1>4, RefsFacts DEF RefsSelect, RefsAfterCopy, TypeInv
<1>5. CASE RefsField
  BY <1>1, <1>5, RefsFacts DEF RefsField, NextField, RefsAfterCopy, TypeInv
<1>6. CASE RefsVerify \/ RefsCrash
  BY <1>6, EndedFacts DEF RefsVerify, RefsCrash, RefsAfterCopy
<1>7. ASSUME NEW c, RefsUpdate(c) PROVE RefsAfterCopy'
  BY <1>1, <1>7, RefsFacts DEF RefsUpdate, RefsAfterCopy, TypeInv
<1>8. QED
  BY <1>2, <1>3, <1>4, <1>5, <1>6, <1>7
  DEF Next, Upload, Edit, Deploy, CopyStart, CopyPut, CopySmoke, CopyCrash, vars

LEMMA ReachedStep ==
    ASSUME TypeInv, CopyHolds, CopiedReached, [Next]_vars
    PROVE  CopiedReached'
<1>0. FilesStay
  BY StayStep
<1>1. CASE copied' = copied
  BY <1>0, <1>1 DEF CopiedReached, FilesStay, Reached
<1>2. ASSUME NEW ok \in BOOLEAN, CopySmoke(ok) PROVE CopiedReached'
  <2>1. CASE copy.execute /\ ok
    <3>1. /\ late' = late \ copy.listed /\ disk' = disk /\ bucket' = bucket
          /\ copy.at = "smoke"
      BY <1>2, <2>1 DEF CopySmoke
    <3>2. \A k \in copy.listed : bucket[k] # 0
      BY <2>1, <3>1 DEF CopyHolds
    <3>3. \A k \in Keys : disk[k] # 0 => k \in copy.listed \/ Reached(k)
      BY <3>1 DEF CopyHolds
    <3>4. gone' = gone
      BY <1>2 DEF CopySmoke
    <3>5. QED
      BY <3>1, <3>2, <3>3, <3>4 DEF CopiedReached, Reached
  <2>2. CASE ~(copy.execute /\ ok)
    BY <1>1, <1>2, <2>2 DEF CopySmoke, TypeInv, TypeOK
  <2>3. QED
    BY <2>1, <2>2
<1>3. QED
  BY <1>1, <1>2 DEF Next, Upload, Edit, Deploy, CopyStart, CopyPut, CopyCrash, RefsStart,
                    RefsSelect, RefsField, RefsVerify, RefsCrash, RefsUpdate, vars

(* What one row becomes; the others keep their form and text.              *)
LEMMA UploadRow ==
    ASSUME TypeInv, NEW r \in Rows, NEW name \in Keys, Upload(r, name)
    PROVE  /\ rows[r].form = "none" /\ \A x \in Rows \ {r} : rows'[x] = rows[x]
           /\ \/ rows'[r].form = "local" /\ disk'[KeyOf[r]] # 0
              \/ rows'[r].form = "moved" /\ bucket'[KeyOf[r]] # 0
           /\ touched' = touched \cup {r} /\ UNCHANGED <<refs, exposed, lost>>
<1>1. \A x \in Rows \ {r} : rows'[x] = rows[x]
  BY DEF Upload, TypeInv, TypeOK
<1>2. rows'[r].form = IF driver = "local" THEN "local" ELSE "moved"
  BY DEF Upload, TypeInv, TypeOK
<1>3. QED
  BY <1>1, <1>2, UploadFiles DEF Upload

LEMMA EditRow ==
    ASSUME TypeInv, NEW r \in Rows, NEW form \in Forms, Edit(r, form)
    PROVE  /\ rows'[r].form = form /\ rows'[r].text = edits + 1
           /\ rows[r].form # "none" /\ form \in {rows[r].form, "local"}
           /\ \A x \in Rows \ {r} : rows'[x] = rows[x]
           /\ form = "local" => WasStored(KeyOf[r])
           /\ exposed' = IF AtColumnOf(r) THEN exposed \cup {<<r, edits + 1>>} ELSE exposed
           /\ touched' = touched \cup {r} /\ UNCHANGED <<disk, bucket, late, gone, refs, lost>>
  BY DEF Edit, TypeInv, TypeOK

LEMMA UpdateRow ==
    ASSUME TypeInv, NEW c \in Texts, RefsUpdate(c)
    PROVE  /\ refs' = [at |-> "update", execute |-> TRUE, field |-> refs.field,
                       changes |-> refs.changes \ {c}]
           /\ refs.at = "update" /\ refs.execute /\ c \in refs.changes
           /\ c[1] \in Rows /\ rows'[c[1]].form = "moved" /\ rows'[c[1]].text = c[2]
           /\ \A x \in Rows \ {c[1]} : rows'[x] = rows[x]
           /\ UNCHANGED <<disk, bucket, late, gone, copied, exposed, touched>>
<1>1. refs' = [at |-> "update", execute |-> TRUE, field |-> refs.field,
               changes |-> refs.changes \ {c}]
  BY RefsFacts DEF RefsUpdate, TypeInv
<1>2. c[1] \in Rows
  BY TextFacts
<1>3. /\ rows' = [rows EXCEPT ![c[1]] = [form |-> "moved", text |-> c[2]]]
      /\ refs.at = "update" /\ refs.execute /\ c \in refs.changes
      /\ UNCHANGED <<disk, bucket, late, gone, copied, exposed, touched>>
  BY DEF RefsUpdate, ToUpdate
<1>4. QED
  BY <1>1, <1>2, <1>3 DEF TypeInv, TypeOK

LEMMA SelectRun ==
    ASSUME TypeInv, RefsSelect
    PROVE  /\ refs' = [at |-> "update", execute |-> refs.execute, field |-> refs.field,
                       changes |-> Changes(refs.field)]
           /\ refs.at = "select"
           /\ \A c \in Changes(refs.field) :
                  /\ c[1] \in Rows /\ FieldOf[c[1]] = refs.field
                  /\ rows[c[1]].form \in {"local", "stale"} /\ c[2] = rows[c[1]].text
                  /\ c = <<c[1], c[2]>>
           /\ \A r \in Rows : FieldOf[r] = refs.field /\ rows[r].form \in {"local", "stale"}
                  => <<r, rows[r].text>> \in Changes(refs.field)
<1>1. refs' = [at |-> "update", execute |-> refs.execute, field |-> refs.field,
               changes |-> Changes(refs.field)] /\ refs.at = "select"
  BY RefsFacts DEF RefsSelect, TypeInv
<1>2. ASSUME NEW c \in Changes(refs.field)
      PROVE  /\ c[1] \in Rows /\ FieldOf[c[1]] = refs.field
             /\ rows[c[1]].form \in {"local", "stale"} /\ c[2] = rows[c[1]].text
             /\ c = <<c[1], c[2]>>
  BY <1>2 DEF Changes
<1>3. \A r \in Rows : FieldOf[r] = refs.field /\ rows[r].form \in {"local", "stale"}
          => <<r, rows[r].text>> \in Changes(refs.field)
  BY DEF Changes
<1>4. QED
  BY <1>1, <1>2, <1>3

LEMMA FieldRun ==
    ASSUME TypeInv, RefsField
    PROVE  /\ refs' = [at |-> IF refs.field = Fields THEN "verify" ELSE "select",
                       execute |-> refs.execute, field |-> refs.field + 1,
                       changes |-> refs.changes]
           /\ refs.at = "update" /\ refs.field \in 1..Fields
<1>1. refs.at = "update" /\ refs' = NextField
  BY DEF RefsField
<1>2. refs = [at |-> refs.at, execute |-> refs.execute, field |-> refs.field,
              changes |-> refs.changes]
  BY <1>1, RefsFacts DEF TypeInv
<1>3. refs.field \in 1..Fields
  BY <1>1, RefsFacts DEF TypeInv, FieldAtHand
<1>4. QED
  BY <1>1, <1>2, <1>3 DEF NextField

(* The steps that leave the rows, the script's run and the history of      *)
(* edits alone.                                                            *)
Elsewhere == UNCHANGED <<rows, refs, exposed, lost, touched>>

LEMMA Steps ==
    ASSUME TypeInv, [Next]_vars
    PROVE  \/ Elsewhere
           \/ \E r \in Rows, name \in Keys : Upload(r, name)
           \/ \E r \in Rows, form \in Forms : Edit(r, form)
           \/ \E execute \in BOOLEAN : RefsStart(execute)
           \/ RefsSelect \/ RefsField \/ RefsVerify \/ RefsCrash
           \/ \E c \in Texts : RefsUpdate(c)
  BY DEF Next, Elsewhere, Deploy, CopyStart, CopyPut, CopySmoke, CopyCrash, vars, history

LEMMA OldStep == ASSUME TypeInv, CopyHolds, OldOnDisk, [Next]_vars PROVE OldOnDisk'
<1>0. \A k \in Keys : WasStored(k) => WasStored(k)'
  BY StayStep DEF FilesStay, WasStored
<1>1. /\ \A r \in Rows : KeyOf[r] \in Keys
      /\ refs.at = "update" => \A c \in refs.changes : c[1] \in Rows
  BY RowFacts, RefsFacts, TextFacts DEF TypeInv
<1>2. CASE Elsewhere
  BY <1>0, <1>1, <1>2 DEF Elsewhere, OldOnDisk
<1>3. ASSUME NEW r \in Rows, NEW name \in Keys, Upload(r, name) PROVE OldOnDisk'
  BY <1>0, <1>1, <1>3, UploadRow DEF OldOnDisk, WasStored
<1>4. ASSUME NEW r \in Rows, NEW form \in Forms, Edit(r, form) PROVE OldOnDisk'
  BY <1>0, <1>1, <1>4, EditRow DEF OldOnDisk
<1>5. ASSUME NEW execute \in BOOLEAN, RefsStart(execute) PROVE OldOnDisk'
  BY <1>0, <1>1, <1>5 DEF RefsStart, OldOnDisk
<1>6. CASE RefsSelect
  <2>1. rows' = rows
    BY <1>6 DEF RefsSelect
  <2>2. QED
    BY <1>0, <1>1, <1>6, <2>1, SelectRun DEF OldOnDisk
<1>7. CASE RefsField
  BY <1>0, <1>1, <1>7, FieldRun DEF RefsField, OldOnDisk
<1>8. CASE RefsVerify \/ RefsCrash
  BY <1>0, <1>1, <1>8, EndedFacts DEF RefsVerify, RefsCrash, OldOnDisk
<1>9. ASSUME NEW c \in Texts, RefsUpdate(c) PROVE OldOnDisk'
  BY <1>0, <1>1, <1>9, UpdateRow DEF OldOnDisk
<1>10. QED
  BY <1>2, <1>3, <1>4, <1>5, <1>6, <1>7, <1>8, <1>9, Steps

LEMMA MovedStep ==
    ASSUME TypeInv, ResolveInv, [Next]_vars
    PROVE  MovedReached'
<1>0. \A k \in Keys : Reached(k) => bucket'[k] # 0 \/ k \in late' \cup gone'
  BY StayStep DEF FilesStay, ResolveInv
<1>1. \A r \in Rows : KeyOf[r] \in Keys
  BY RowFacts DEF TypeInv
<1>2. CASE rows' = rows
  BY <1>0, <1>1, <1>2 DEF MovedReached, ResolveInv, Reached
<1>3. ASSUME NEW r \in Rows, NEW name \in Keys, Upload(r, name) PROVE MovedReached'
  BY <1>0, <1>1, <1>3, UploadRow DEF MovedReached, ResolveInv, Reached
<1>4. ASSUME NEW r \in Rows, NEW form \in Forms, Edit(r, form) PROVE MovedReached'
  BY <1>0, <1>1, <1>4, EditRow DEF MovedReached, ResolveInv, Reached
<1>5. ASSUME NEW c \in Texts, RefsUpdate(c) PROVE MovedReached'
  <2>1. Reached(KeyOf[c[1]])
    <3>1. copied
      BY <1>5, UpdateRow DEF ResolveInv, RefsAfterCopy
    <3>2. WasStored(KeyOf[c[1]]) /\ KeyOf[c[1]] \in Keys
      BY <1>1, <1>5, UpdateRow DEF ResolveInv, OldOnDisk
    <3>3. QED
      BY <3>1, <3>2 DEF ResolveInv, CopiedReached, WasStored, Reached
  <2>2. QED
    BY <1>0, <1>1, <1>5, <2>1, UpdateRow DEF MovedReached, ResolveInv, Reached
<1>6. QED
  BY <1>2, <1>3, <1>4, <1>5, Steps
  DEF Elsewhere, RefsStart, RefsSelect, RefsField, RefsVerify, RefsCrash

LEMMA ResolveStep == ASSUME TypeInv, ResolveInv, [Next]_vars PROVE ResolveInv'
  BY CopyStep, AfterCopyStep, ReachedStep, OldStep, MovedStep DEF ResolveInv

LEMMA ChangesStep == ASSUME TypeInv, ChangesHold, [Next]_vars PROVE ChangesHold'
<1>1. refs.at = "update" => \A c \in refs.changes : c[1] \in Rows
  BY RefsFacts, TextFacts DEF TypeInv
<1>2. CASE Elsewhere
  BY <1>2 DEF Elsewhere, ChangesHold
<1>3. ASSUME NEW r \in Rows, NEW name \in Keys, Upload(r, name) PROVE ChangesHold'
  <2>1. rows[r].form = "none" /\ \A x \in Rows \ {r} : rows'[x] = rows[x]
    BY <1>3, UploadRow
  <2>2. ASSUME refs.at = "update", NEW c \in refs.changes PROVE rows'[c[1]] = rows[c[1]]
    <3>1. rows[c[1]].form # "none"
      BY <2>2 DEF ChangesHold
    <3>2. c[1] \in Rows \ {r}
      BY <1>1, <2>1, <2>2, <3>1
    <3>3. QED
      BY <2>1, <3>2
  <2>3. UNCHANGED <<refs, exposed>>
    BY <1>3, UploadRow
  <2>4. QED
    BY <2>2, <2>3 DEF ChangesHold
<1>4. ASSUME NEW r \in Rows, NEW form \in Forms, Edit(r, form) PROVE ChangesHold'
  <2>1. refs' = refs /\ exposed \subseteq exposed'
    BY <1>4, EditRow
  <2>2. ASSUME refs.at = "update", NEW c \in refs.changes, c[1] # r
        PROVE  rows'[c[1]] = rows[c[1]]
    BY <1>1, <1>4, <2>2, EditRow
  <2>3. ASSUME refs.at = "update", NEW c \in refs.changes, c[1] = r
        PROVE  rows'[c[1]].form # "none" /\ <<c[1], rows'[c[1]].text>> \in exposed'
    <3>1. AtColumnOf(r)
      BY <2>3 DEF ChangesHold, AtColumnOf
    <3>2. form # "none"
      BY <1>4, EditRow
    <3>3. QED
      BY <1>4, <2>3, <3>1, <3>2, EditRow
  <2>4. ASSUME refs.at = "update", NEW c \in refs.changes
        PROVE  /\ rows'[c[1]].form # "none"
               /\ rows'[c[1]].text = c[2] \/ <<c[1], rows'[c[1]].text>> \in exposed'
    BY <2>1, <2>2, <2>3, <2>4 DEF ChangesHold
  <2>5. QED
    BY <2>1, <2>4 DEF ChangesHold
<1>5. ASSUME NEW execute \in BOOLEAN, RefsStart(execute) PROVE ChangesHold'
  BY <1>5 DEF RefsStart, ChangesHold
<1>6. CASE RefsSelect
  <2>1. rows' = rows
    BY <1>6 DEF RefsSelect
  <2>2. QED
    BY <1>6, <2>1, SelectRun DEF ChangesHold
<1>7. CASE RefsField
  BY <1>7, FieldRun DEF ChangesHold
<1>8. CASE RefsVerify \/ RefsCrash
  BY <1>8, EndedFacts DEF RefsVerify, RefsCrash, ChangesHold
<1>9. ASSUME NEW c \in Texts, RefsUpdate(c) PROVE ChangesHold'
  <2>1. /\ refs.at = "update" /\ c \in refs.changes /\ exposed' = exposed
        /\ refs'.at = "update" /\ refs'.field = refs.field /\ refs'.changes = refs.changes \ {c}
        /\ \A x \in Rows \ {c[1]} : rows'[x] = rows[x]
    BY <1>9, UpdateRow
  <2>2. \A d \in refs.changes \ {c} : d[1] \in Rows /\ d[1] # c[1]
    BY <1>1, <2>1 DEF ChangesHold
  <2>3. \A d \in refs.changes \ {c} : rows'[d[1]] = rows[d[1]]
    BY <2>1, <2>2
  <2>4. QED
    BY <2>1, <2>3 DEF ChangesHold
<1>10. QED
  BY <1>2, <1>3, <1>4, <1>5, <1>6, <1>7, <1>8, <1>9, Steps

LEMMA LostStep == ASSUME TypeInv, LostInv, [Next]_vars PROVE LostInv'
<1>1. ASSUME NEW c \in Texts, RefsUpdate(c) PROVE LostOnlyIfExposed'
  <2>1. rows[c[1]].text = c[2] \/ <<c[1], rows[c[1]].text>> \in exposed
    BY <1>1, UpdateRow DEF LostInv, ChangesHold
  <2>2. QED
    BY <1>1, <2>1 DEF RefsUpdate, LostInv, LostOnlyIfExposed
<1>2. ASSUME NEW r \in Rows, NEW form \in Forms, Edit(r, form) PROVE LostOnlyIfExposed'
  BY <1>2, EditRow DEF LostInv, LostOnlyIfExposed
<1>3. ASSUME NEW r \in Rows, NEW name \in Keys, Upload(r, name) PROVE LostOnlyIfExposed'
  BY <1>3 DEF Upload, LostInv, LostOnlyIfExposed
<1>4. LostOnlyIfExposed'
  BY <1>1, <1>2, <1>3, Steps
  DEF Elsewhere, RefsStart, RefsSelect, RefsField, RefsVerify, RefsCrash, history,
      LostInv, LostOnlyIfExposed
<1>5. QED
  BY <1>4, ChangesStep DEF LostInv

LEMMA ColumnsStep ==
    ASSUME TypeInv, ColumnsDone, VerifyLast, [Next]_vars
    PROVE  ColumnsDone' /\ VerifyLast'
<1>0. refs.at \in {"select", "update", "verify"} => refs.field \in Nat
  BY RefsFacts DEF TypeInv
<1>1. \A r \in Rows : FieldOf[r] \in 1..Fields
  BY RowFacts DEF TypeInv
<1>2. CASE Elsewhere
  BY <1>2 DEF Elsewhere, ColumnsDone, VerifyLast
<1>3. ASSUME NEW r \in Rows, NEW name \in Keys, Upload(r, name) PROVE ColumnsDone' /\ VerifyLast'
  BY <1>3, UploadRow DEF ColumnsDone, VerifyLast
<1>4. ASSUME NEW r \in Rows, NEW form \in Forms, Edit(r, form)
      PROVE  ColumnsDone' /\ VerifyLast'
  BY <1>4, EditRow DEF ColumnsDone, VerifyLast
<1>5. ASSUME NEW execute \in BOOLEAN, RefsStart(execute) PROVE ColumnsDone' /\ VerifyLast'
  BY <1>1, <1>5 DEF RefsStart, ColumnsDone, VerifyLast
<1>6. CASE RefsSelect
  <2>1. rows' = rows /\ touched' = touched
    BY <1>6 DEF RefsSelect, history
  <2>2. \A r \in Rows : FieldOf[r] = refs.field /\ rows[r].form \in {"local", "stale"}
            => \E c \in Changes(refs.field) : c[1] = r
    BY <1>6, SelectRun
  <2>3. QED
    BY <1>6, <2>1, <2>2, SelectRun DEF ColumnsDone, VerifyLast
<1>7. CASE RefsField
  <2>1. UNCHANGED <<rows, touched>> /\ (refs.execute => ToUpdate = {})
    BY <1>7 DEF RefsField, history
  <2>2. ASSUME refs.execute, NEW r \in Rows \ touched, rows[r].form \in {"local", "stale"}
        PROVE  FieldOf[r] >= refs.field + 1
    <3>1. FieldOf[r] >= refs.field
      BY <1>7, <2>2, FieldRun DEF ColumnsDone
    <3>2. FieldOf[r] # refs.field
      BY <1>7, <2>1, <2>2, FieldRun DEF ColumnsDone, ToUpdate
    <3>3. QED
      BY <1>1, <1>7, <3>1, <3>2, FieldRun
  <2>3. QED
    BY <1>7, <2>1, <2>2, FieldRun DEF ColumnsDone, VerifyLast
<1>8. CASE RefsVerify \/ RefsCrash
  BY <1>8, EndedFacts DEF RefsVerify, RefsCrash, ColumnsDone, VerifyLast
<1>9. ASSUME NEW c \in Texts, RefsUpdate(c) PROVE ColumnsDone' /\ VerifyLast'
  BY <1>9, UpdateRow DEF ColumnsDone, VerifyLast
<1>10. QED
  BY <1>2, <1>3, <1>4, <1>5, <1>6, <1>7, <1>8, <1>9, Steps

LEMMA Inductive == Spec => []IInv
<1>1. ASSUME Init PROVE ResolveInv /\ LostInv /\ ColumnsDone /\ VerifyLast
  <2>1. OldOnDisk /\ MovedReached
    BY <1>1, EndedFacts DEF Init, OldOnDisk, MovedReached
  <2>2. QED
    BY <1>1, <2>1, EndedFacts
    DEF Init, ResolveInv, CopyHolds, CopiedReached, RefsAfterCopy,
        LostInv, ChangesHold, LostOnlyIfExposed, ColumnsDone, VerifyLast
<1>2. ASSUME IInv, [Next]_vars PROVE IInv'
  BY <1>2, TypeStep, ResolveStep, LostStep, ColumnsStep DEF IInv
<1>3. Init /\ TypeInv => IInv
  BY <1>1 DEF IInv
<1>4. QED
  BY <1>2, <1>3, Typed, PTL DEF Spec

-----------------------------------------------------------------------------
(* Every state of the two scripts and the app beside them has its type.    *)
THEOREM TypeCorrect == Spec => []TypeOK
  BY Typed, PTL DEF TypeInv

(* A row that points at the bucket has its object there, unless its file   *)
(* went to the disk after the last successful copy had listed it, or a     *)
(* later upload of the same name has taken it from the disk; a row that    *)
(* points at /uploads has its file on the disk, unless such an upload has  *)
(* taken it.                                                               *)
THEOREM References == Spec => []ReferencesResolve
<1>1. IInv => ReferencesResolve
  BY DEF IInv, ResolveInv, OldOnDisk, MovedReached, Reached, ReferencesResolve
<1>2. QED
  BY <1>1, Inductive, PTL

(* A run of migrate-db-refs-to-r2.js that comes to its verification has    *)
(* moved every old reference of the rows that the app left alone, whatever *)
(* earlier runs, dry runs and crashes had done.                            *)
THEOREM Rerun == Spec => []RerunCompletes
<1>1. ASSUME IInv PROVE RerunCompletes
  <2>1. SUFFICES ASSUME refs.at = "verify", refs.execute, NEW r \in Rows \ touched,
                        rows[r].form \notin {"none", "moved"}
                 PROVE  FALSE
    BY DEF RerunCompletes
  <2>2. rows[r].form \in {"local", "stale"} /\ FieldOf[r] \in 1..Fields
    BY <1>1, <2>1, RowFacts DEF IInv, TypeInv, Forms
  <2>3. FieldOf[r] >= Fields + 1
    BY <1>1, <2>1, <2>2 DEF IInv, ColumnsDone, VerifyLast
  <2>4. QED
    BY <2>2, <2>3
<1>2. QED
  BY <1>1, Inductive, PTL

(* A text is overwritten unseen only when it was saved between the SELECT  *)
(* of its column and the UPDATE of its row.                                *)
THEOREM Lost == Spec => []LostOnlyIfExposed
<1>1. IInv => LostOnlyIfExposed
  BY DEF IInv, LostInv
<1>2. QED
  BY <1>1, Inductive, PTL

-----------------------------------------------------------------------------
(* ContentTypes: the script's table of signatures tells the same types as  *)
(* the app's conditions.                                                   *)

First  == {"jpeg", "png", "gif", "webp"}
Fits(b, t) ==
    \/ t = "jpeg" /\ b.at0 = "ffd8ff"
    \/ t = "png" /\ b.at0 = "PNG"
    \/ t = "gif" /\ b.at0 = "GIF"
    \/ t = "webp" /\ b.at0 = "RIFF" /\ b.at8 = "WEBP"
    \/ t = "avif" /\ b.at4 = "ftyp" /\ b.at8 \in {"avif", "avis"}
    \/ t = "heic" /\ b.at4 = "ftyp" /\ b.at8 \in {"heic", "heix", "mif1"}

LEMMA CarriesFacts ==
    ASSUME NEW b, NEW v, NEW w
    PROVE  /\ Types!Carries(b, [at0 |-> v]) <=> b.at0 = v
           /\ Types!Carries(b, [at0 |-> v, at8 |-> w]) <=> b.at0 = v /\ b.at8 = w
           /\ Types!Carries(b, [at4 |-> v, at8 |-> w]) <=> b.at4 = v /\ b.at8 = w
  BY DEF Types!Carries

LEMMA SignatureFits ==
    ASSUME NEW b, NEW x \in Types!Signatures, Types!Carries(b, x[2])
    PROVE  Fits(b, x[1])
<1>1. CASE x = <<"jpeg", [at0 |-> "ffd8ff"]>>
  BY <1>1, CarriesFacts DEF Fits
<1>2. CASE x = <<"png", [at0 |-> "PNG"]>>
  BY <1>2, CarriesFacts DEF Fits
<1>3. CASE x = <<"gif", [at0 |-> "GIF"]>>
  BY <1>3, CarriesFacts DEF Fits
<1>4. CASE x = <<"webp", [at0 |-> "RIFF", at8 |-> "WEBP"]>>
  BY <1>4, CarriesFacts DEF Fits
<1>5. ASSUME NEW brand \in {"avif", "avis"}, x = <<"avif", [at4 |-> "ftyp", at8 |-> brand]>>
      PROVE  Fits(b, x[1])
  BY <1>5, CarriesFacts DEF Fits
<1>6. ASSUME NEW brand \in {"heic", "heix", "mif1"},
             x = <<"heic", [at4 |-> "ftyp", at8 |-> brand]>>
      PROVE  Fits(b, x[1])
  BY <1>6, CarriesFacts DEF Fits
<1>7. QED
  BY <1>1, <1>2, <1>3, <1>4, <1>5, <1>6 DEF Types!Signatures

LEMMA FitsSignature ==
    ASSUME NEW b, NEW t, Fits(b, t)
    PROVE  \E x \in Types!Signatures : t = x[1] /\ Types!Carries(b, x[2])
<1>1. CASE t = "jpeg"
  <2>1. <<"jpeg", [at0 |-> "ffd8ff"]>> \in Types!Signatures
    BY DEF Types!Signatures
  <2>2. QED
    BY <1>1, <2>1, CarriesFacts DEF Fits
<1>2. CASE t = "png"
  <2>1. <<"png", [at0 |-> "PNG"]>> \in Types!Signatures
    BY DEF Types!Signatures
  <2>2. QED
    BY <1>2, <2>1, CarriesFacts DEF Fits
<1>3. CASE t = "gif"
  <2>1. <<"gif", [at0 |-> "GIF"]>> \in Types!Signatures
    BY DEF Types!Signatures
  <2>2. QED
    BY <1>3, <2>1, CarriesFacts DEF Fits
<1>4. CASE t = "webp"
  <2>1. <<"webp", [at0 |-> "RIFF", at8 |-> "WEBP"]>> \in Types!Signatures
    BY DEF Types!Signatures
  <2>2. QED
    BY <1>4, <2>1, CarriesFacts DEF Fits
<1>5. CASE t = "avif"
  <2>1. <<"avif", [at4 |-> "ftyp", at8 |-> b.at8]>> \in Types!Signatures
    BY <1>5 DEF Types!Signatures, Fits
  <2>2. QED
    BY <1>5, <2>1, CarriesFacts DEF Fits
<1>6. CASE t = "heic"
  <2>1. <<"heic", [at4 |-> "ftyp", at8 |-> b.at8]>> \in Types!Signatures
    BY <1>6 DEF Types!Signatures, Fits
  <2>2. QED
    BY <1>6, <2>1, CarriesFacts DEF Fits
<1>7. QED
  BY <1>1, <1>2, <1>3, <1>4, <1>5, <1>6 DEF Fits

THEOREM SameSniff ==
    ASSUME NEW b \in Types!Buffers
    PROVE  Types!ScriptSniff(b) = Types!SniffImageType(b)
<1> DEFINE types == {s[1] : s \in {x \in Types!Signatures : Types!Carries(b, x[2])}}
<1>1. \A t : t \in types <=> Fits(b, t)
  <2>1. \A t : t \in types <=> \E x \in Types!Signatures : t = x[1] /\ Types!Carries(b, x[2])
    OBVIOUS
  <2> HIDE DEF types
  <2>2. QED
    BY <2>1, SignatureFits, FitsSignature
<1>2. Types!ScriptSniff(b) =
        IF b.short THEN Types!Unknown
        ELSE IF types \cap First # {} THEN CHOOSE t \in types : t \in First
        ELSE IF types # {} THEN CHOOSE t \in types : TRUE
        ELSE IF Types!IsSvg(b) THEN "svg" ELSE Types!Unknown
  BY DEF Types!ScriptSniff, First
<1> HIDE DEF types
<1>3. \A t, u : Fits(b, t) /\ Fits(b, u) /\ (t \in First <=> u \in First) => t = u
  BY DEF Fits, First
<1>4. CASE b.short
  BY <1>2, <1>4 DEF Types!SniffImageType
<1>5. ASSUME ~b.short, NEW t \in First, Fits(b, t) PROVE Types!ScriptSniff(b) = t
  <2>1. t \in types /\ \A u \in types : u \in First => u = t
    BY <1>1, <1>3, <1>5
  <2>2. QED
    BY <1>2, <1>5, <2>1
<1>6. ASSUME ~b.short, \A u \in First : ~Fits(b, u), NEW t, Fits(b, t)
      PROVE  Types!ScriptSniff(b) = t
  <2>1. types \cap First = {} /\ t \in types
    BY <1>1, <1>6
  <2>2. \A u \in types : u = t
    BY <1>1, <1>3, <1>6, <2>1
  <2>3. QED
    BY <1>2, <1>6, <2>1, <2>2
<1>7. ASSUME ~b.short, \A u : ~Fits(b, u)
      PROVE  Types!ScriptSniff(b) = IF Types!IsSvg(b) THEN "svg" ELSE Types!Unknown
  <2>1. types = {}
    BY <1>1, <1>7
  <2>2. QED
    BY <1>2, <1>7, <2>1
<1>8. CASE ~b.short /\ \E t \in First : Fits(b, t)
  <2>1. PICK t \in First : Fits(b, t)
    BY <1>8
  <2>2. Types!SniffImageType(b) = t
    BY <1>8, <2>1 DEF Types!SniffImageType, Fits, First
  <2>3. QED
    BY <1>5, <1>8, <2>1, <2>2
<1>9. CASE ~b.short /\ \A t \in First : ~Fits(b, t)
  <2>1. /\ b.at0 # "ffd8ff" /\ b.at0 # "PNG" /\ b.at0 # "GIF"
        /\ ~(b.at0 = "RIFF" /\ b.at8 = "WEBP")
    <3>1. ~Fits(b, "jpeg") /\ ~Fits(b, "png") /\ ~Fits(b, "gif") /\ ~Fits(b, "webp")
      BY <1>9 DEF First
    <3>2. QED
      BY <3>1 DEF Fits
  <2>2. CASE b.at4 = "ftyp" /\ b.at8 \in {"avif", "avis"}
    <3>1. Fits(b, "avif") /\ Types!SniffImageType(b) = "avif"
      BY <1>9, <2>1, <2>2 DEF Fits, Types!SniffImageType
    <3>2. QED
      BY <1>6, <1>9, <3>1
  <2>3. CASE b.at4 = "ftyp" /\ b.at8 \in {"heic", "heix", "mif1"}
    <3>1. Fits(b, "heic") /\ Types!SniffImageType(b) = "heic"
      BY <1>9, <2>1, <2>3 DEF Fits, Types!SniffImageType
    <3>2. QED
      BY <1>6, <1>9, <3>1
  <2>4. CASE ~(b.at4 = "ftyp" /\ b.at8 \in {"avif", "avis", "heic", "heix", "mif1"})
    <3>1. \A t : ~Fits(b, t)
      BY <2>1, <2>4 DEF Fits
    <3>2. Types!SniffImageType(b) = IF Types!IsSvg(b) THEN "svg" ELSE Types!Unknown
      BY <1>9, <2>1, <2>4 DEF Types!SniffImageType
    <3>3. QED
      BY <1>7, <1>9, <3>1, <3>2
  <2>5. QED
    BY <2>2, <2>3, <2>4
<1>10. QED
  BY <1>4, <1>8, <1>9

-----------------------------------------------------------------------------
(* A page of the listing has a last key, and what follows it is not in it. *)

LEMMA LeastOf == ASSUME NEW S \in SUBSET Nat, S # {} PROVE \E m \in S : \A l \in S : m <= l
<1> DEFINE R == {ss \in Nat \X Nat : ss[1] < ss[2]}
<1>1. IsWellFoundedOn(R, Nat)
  BY NatLessThanWellFounded DEF OpToRel
<1>2. \A x, y \in Nat : <<y, x>> \notin R => x <= y
  OBVIOUS
<1> HIDE DEF R
<1>3. \E x \in S : \A y \in S : <<y, x>> \notin R
  BY <1>1, WFMin, Zenon
<1>4. QED
  BY <1>2, <1>3

LEMMA GreatestOf ==
    ASSUME NEW n \in Nat, NEW S \in SUBSET (0..n), S # {}
    PROVE  \E m \in S : \A l \in S : l <= m
<1> DEFINE T == {k \in Nat : k <= n /\ n - k \in S}
<1>1. T \in SUBSET Nat /\ T # {}
  <2>1. PICK l \in S : TRUE
    OBVIOUS
  <2>2. n - l \in T
    BY <2>1
  <2>3. QED
    BY <2>2
<1>2. PICK t \in T : \A k \in T : t <= k
  BY <1>1, LeastOf
<1>3. ASSUME NEW l \in S PROVE l <= n - t
  <2>1. n - l \in T /\ l \in Nat /\ t \in Nat
    OBVIOUS
  <2>2. t <= n - l
    BY <1>2, <2>1
  <2> HIDE DEF T
  <2>3. QED
    BY <2>1, <2>2
<1>4. QED
  BY <1>2, <1>3

Page(after, size) == {k \in after : \A l \in 1..k : l \in after => l > k - size}

(* The last key of a page is the greatest, and what is not in it follows.  *)
HasLast(page, after) ==
    \E last \in page : /\ \A l \in page : l <= last
                       /\ \A k \in after : k \in page \/ k > last

LEMMA PageFacts ==
    ASSUME NEW n \in Nat, NEW size \in Nat \ {0}, NEW after \in SUBSET (1..n), after # {},
           NEW page, page = Page(after, size)
    PROVE  page \subseteq after /\ HasLast(page, after)
<1>1. PICK first \in after : \A l \in after : first <= l
  BY LeastOf
<1>2. page \subseteq after /\ page \in SUBSET (0..n)
  <2>1. \A k \in page : k \in after
    BY DEF Page
  <2>2. \A k \in after : k \in 0..n
    OBVIOUS
  <2>3. QED
    BY <2>1, <2>2
<1>3. \E m \in page : \A l \in page : l <= m
  <2>1. \A l \in 1..first : l \in after => l > first - size
    BY <1>1
  <2>2. page # {}
    BY <2>1 DEF Page
  <2>3. QED
    BY <1>2, <2>2, GreatestOf
<1>4. PICK last \in page : \A l \in page : l <= last
  BY <1>3
<1>5. ASSUME NEW k \in after, k \notin page PROVE k > last
  <2>1. PICK l \in 1..k : l \in after /\ ~(l > k - size)
    BY <1>5 DEF Page
  <2>2. last \in Nat /\ k \in Nat /\ l \in Nat
    BY <1>2, <1>4
  <2>3. CASE k <= last
    <3>1. l \in 1..last
      BY <2>1, <2>2, <2>3
    <3>2. l > last - size
      BY <1>4, <2>1, <3>1 DEF Page
    <3>3. QED
      BY <2>1, <2>2, <2>3, <3>2
  <2>4. QED
    BY <2>2, <2>3
<1>6. HasLast(page, after)
  BY <1>4, <1>5 DEF HasLast
<1>7. QED
  BY <1>2, <1>6

-----------------------------------------------------------------------------
(* Objects and the run of the script.                                      *)

LEMMA ScanConstants ==
    /\ N \in Nat /\ PageSize \in Nat \ {0} /\ Kinds \subseteq Types!Buffers
    /\ Types!Unknown \notin Declared
    /\ MaxWrites \in Nat /\ MaxScans \in Nat /\ MaxFailures \in Nat
  BY ScanAssumption DEF Types!ConstantsAssumption

LEMMA ObjectFacts ==
    ASSUME NEW o \in Types!Object
    PROVE  /\ o # Types!Absent /\ o = [bytes |-> o.bytes, type |-> o.type]
           /\ o.bytes \in Kinds /\ o.type \in Types!Types \ {Types!Unknown}
<1>1. "bytes" \in DOMAIN o
  BY DEF Types!Object
<1>2. "bytes" \notin DOMAIN Types!Absent
  BY DEF Types!Absent
<1>3. QED
  BY <1>1, <1>2 DEF Types!Object

LEMMA PresentFacts ==
    ASSUME Types!TypeOK, NEW k \in Types!Present
    PROVE  /\ k \in 1..N /\ objects[k] \in Types!Object
           /\ objects[k].bytes \in Kinds /\ objects[k].type \in Types!Types \ {Types!Unknown}
           /\ Types!ScriptSniff(objects[k].bytes) = Types!SniffImageType(objects[k].bytes)
           /\ Types!SniffImageType(objects[k].bytes) \in Types!Types
  BY ObjectFacts, SameSniff, ScanConstants
  DEF Types!Present, Types!TypeOK, Types!ObjectKeys, Types!Types

LEMMA ScanFacts ==
    ASSUME Types!TypeOK, scan # Types!Idle
    PROVE  /\ scan \in Types!Scan
           /\ scan = [at |-> scan.at, execute |-> scan.execute, token |-> scan.token,
                      todo |-> scan.todo, failed |-> scan.failed, key |-> scan.key,
                      type |-> scan.type]
           /\ scan.at \in {"list", "head", "read", "copy", "next"} /\ scan.execute \in BOOLEAN
           /\ scan.token \in 0..N /\ scan.todo \subseteq 1..N /\ scan.failed \in 0..MaxFailures
           /\ scan.key \in 0..N /\ scan.type \in Types!Types \cup {"none"}
  BY DEF Types!TypeOK, Types!Scan, Types!ObjectKeys

LEMMA IdleFacts == Types!Idle.at = "idle" /\ \A s \in Types!Scan : s # Types!Idle
  BY DEF Types!Idle, Types!Scan

(* Fixed is what the run has still to do: a key that it listed and that    *)
(* the app has left alone since lies only as long as it is to come or at   *)
(* hand.                                                                   *)
AtHand(k) == scan.at \in {"head", "read", "copy"} /\ k = scan.key
RunHolds ==
    scan # Types!Idle =>
        /\ exit = 1 /\ scan.failed <= failures /\ scan.todo \subseteq Types!Present
        /\ overtaken => scan.key \in written
        /\ scan.at \in {"head", "read", "copy"} => scan.key \in Types!Present
SeenHolds ==
    /\ scan.at = "read" /\ ~overtaken => scan.type = objects[scan.key].type
    /\ scan.at = "copy" => scan.execute /\ scan.type \in Types!Types \ {Types!Unknown}
    /\ scan.at = "copy" /\ ~overtaken =>
        /\ scan.type = Types!SniffImageType(objects[scan.key].bytes)
        /\ ~Types!Equivalent(objects[scan.key].type, scan.type)
LiesAhead ==
    scan # Types!Idle /\ scan.execute /\ scan.failed = 0 =>
        \A k \in Types!Present \ written : Types!Lies(objects[k]) =>
            \/ k \in scan.todo
            \/ scan.at = "list" /\ k > scan.token
            \/ AtHand(k)
ScanInv == Types!TypeOK /\ RunHolds /\ SeenHolds /\ LiesAhead /\ CleanExitLeavesNoLie

(* What each step makes of the objects and of the run.                     *)

LEMMA WriteStep ==
    ASSUME Types!TypeOK, NEW k \in Types!ObjectKeys, NEW bytes \in Kinds,
           NEW declared \in Declared, NEW presigned \in BOOLEAN,
           Types!AppWrite(k, bytes, declared, presigned)
    PROVE  /\ objects' \in [Types!ObjectKeys -> Types!Object \cup {Types!Absent}]
           /\ Types!Present' = Types!Present \cup {k}
           /\ \A l \in Types!ObjectKeys \ {k} : objects'[l] = objects[l]
           /\ writes' \in 0..MaxWrites /\ written' = written \cup {k}
           /\ overtaken' = (overtaken \/ (scan # Types!Idle /\ scan.key = k))
           /\ UNCHANGED <<scan, exit, scans, failures>>
<1> DEFINE sniffed == Types!SniffImageType(bytes)
           type == IF presigned \/ sniffed = Types!Unknown THEN declared ELSE sniffed
           written_k == [bytes |-> bytes, type |-> type]
<1>1. type \in Types!Types \ {Types!Unknown}
  BY ScanConstants DEF Types!Types
<1>2. objects' = [objects EXCEPT ![k] = written_k]
  BY DEF Types!AppWrite
<1>3. written_k \in Types!Object
  BY <1>1 DEF Types!Object
<1> HIDE DEF written_k
<1>4. /\ objects' \in [Types!ObjectKeys -> Types!Object \cup {Types!Absent}]
      /\ objects'[k] = written_k /\ \A l \in Types!ObjectKeys \ {k} : objects'[l] = objects[l]
  BY <1>2, <1>3 DEF Types!TypeOK
<1>5. Types!Present' = Types!Present \cup {k}
  BY <1>3, <1>4, ObjectFacts DEF Types!Present
<1>6. writes' \in 0..MaxWrites
  BY ScanConstants DEF Types!AppWrite, Types!TypeOK
<1>7. QED
  BY <1>4, <1>5, <1>6 DEF Types!AppWrite

LEMMA RetypeStep ==
    ASSUME Types!TypeOK, RunHolds, SeenHolds, Types!Copy
    PROVE  /\ scan.at = "copy" /\ scan # Types!Idle /\ scan.key \in Types!Present
           /\ objects' \in [Types!ObjectKeys -> Types!Object \cup {Types!Absent}]
           /\ Types!Present' = Types!Present
           /\ objects'[scan.key].type = scan.type
           /\ objects'[scan.key].bytes = objects[scan.key].bytes
           /\ \A l \in Types!ObjectKeys \ {scan.key} : objects'[l] = objects[l]
           /\ scan' \in Types!Scan /\ scan'.at = "next"
           /\ scan'.execute = scan.execute /\ scan'.todo = scan.todo
           /\ scan'.failed = scan.failed /\ scan'.key = scan.key
           /\ UNCHANGED <<exit, writes, scans, failures, written, overtaken>>
<1>1. scan.at = "copy" /\ scan # Types!Idle
  BY IdleFacts DEF Types!Copy
<1>2. scan.key \in Types!Present /\ scan.type \in Types!Types \ {Types!Unknown}
  BY <1>1 DEF RunHolds, SeenHolds
<1>3. objects[scan.key] \in Types!Object /\ scan.key \in Types!ObjectKeys
  BY <1>2, PresentFacts DEF Types!ObjectKeys
<1>4. objects' = [objects EXCEPT ![scan.key] = [objects[scan.key] EXCEPT !.type = scan.type]]
  BY DEF Types!Copy
<1>5. /\ objects'[scan.key] = [objects[scan.key] EXCEPT !.type = scan.type]
      /\ \A l \in Types!ObjectKeys \ {scan.key} : objects'[l] = objects[l]
  BY <1>3, <1>4 DEF Types!TypeOK
<1>6. /\ objects'[scan.key] \in Types!Object
      /\ objects'[scan.key].type = scan.type
      /\ objects'[scan.key].bytes = objects[scan.key].bytes
  BY <1>2, <1>3, <1>5 DEF Types!Object
<1>7. objects' \in [Types!ObjectKeys -> Types!Object \cup {Types!Absent}]
  BY <1>4, <1>5, <1>6 DEF Types!TypeOK
<1>8. Types!Present' = Types!Present
  BY <1>2, <1>5, <1>6, ObjectFacts DEF Types!Present
<1>9. /\ scan' \in Types!Scan /\ scan'.at = "next"
      /\ scan'.execute = scan.execute /\ scan'.todo = scan.todo
      /\ scan'.failed = scan.failed /\ scan'.key = scan.key
  BY <1>1, ScanFacts DEF Types!Copy, Types!Scan
<1>10. QED
  BY <1>1, <1>2, <1>5, <1>6, <1>7, <1>8, <1>9 DEF Types!Copy

(* The other steps of the script leave the bucket alone.                   *)
Bystanders == UNCHANGED <<objects, exit, writes, scans, written>>

LEMMA ListStep ==
    ASSUME Types!TypeOK, RunHolds, Types!ListPage
    PROVE  /\ Bystanders /\ UNCHANGED <<failures, overtaken>> /\ scan.at = "list"
           /\ scan' \in Types!Scan /\ scan'.at \in {"list", "next"}
           /\ scan'.execute = scan.execute /\ scan'.failed = scan.failed /\ scan'.key = scan.key
           /\ scan.todo \subseteq scan'.todo /\ scan'.todo \subseteq Types!Present
           /\ \A k \in Types!Present : k > scan.token =>
                  k \in scan'.todo \/ (scan'.at = "list" /\ k > scan'.token)
<1> DEFINE after == {k \in Types!Present : k > scan.token}
           page  == {k \in after : \A l \in 1..k : l \in after => l > k - PageSize}
           last  == CHOOSE k \in page : \A l \in page : l <= k
<1>1. /\ scan.at = "list" /\ scan # Types!Idle
      /\ scan' = IF after = {} THEN [scan EXCEPT !.at = "next"]
                 ELSE [scan EXCEPT !.todo = @ \cup page, !.token = last,
                                   !.at = IF page = after THEN "next" ELSE "list"]
      /\ Bystanders /\ UNCHANGED <<failures, overtaken>>
  BY IdleFacts DEF Types!ListPage, Bystanders
<1>2. /\ Types!Present \subseteq 1..N /\ scan.todo \subseteq Types!Present
      /\ scan \in Types!Scan
  BY <1>1, ScanFacts DEF Types!Present, Types!ObjectKeys, RunHolds
<1>3. CASE after = {}
  <2>1. scan' = [scan EXCEPT !.at = "next"]
    BY <1>1, <1>3
  <2>2. /\ scan' \in Types!Scan /\ scan'.at = "next" /\ scan'.todo = scan.todo
        /\ scan'.execute = scan.execute /\ scan'.failed = scan.failed /\ scan'.key = scan.key
    BY <1>2, <2>1 DEF Types!Scan
  <2>3. QED
    BY <1>1, <1>2, <1>3, <2>2
<1>4. CASE after # {}
  <2>1. page = Page(after, PageSize) /\ after \in SUBSET (1..N)
    BY <1>2 DEF Page
  <2>2. /\ last \in page /\ page \subseteq after
        /\ \A k \in after : k \in page \/ k > last
    <3> HIDE DEF after, page, last
    <3>0. N \in Nat /\ PageSize \in Nat \ {0}
      BY ScanConstants
    <3>1. page \subseteq after
      BY <1>4, <2>1, <3>0, PageFacts, Zenon
    <3>2. HasLast(page, after)
      BY <1>4, <2>1, <3>0, PageFacts, Zenon
    <3>3. PICK m \in page : /\ \A l \in page : l <= m
                             /\ \A k \in after : k \in page \/ k > m
      BY <3>2 DEF HasLast
    <3>4. last \in page /\ \A l \in page : l <= last
      BY <3>3 DEF last
    <3>5. last = m
      <4>1. last <= m /\ m <= last /\ last \in Nat /\ m \in Nat
        <5> HIDE DEF last
        <5>1. QED
          BY <2>1, <3>1, <3>3, <3>4
      <4>2. QED
        BY <4>1
    <3>6. QED
      BY <3>1, <3>3, <3>4, <3>5
  <2>3. scan' = [scan EXCEPT !.todo = @ \cup page, !.token = last,
                             !.at = IF page = after THEN "next" ELSE "list"]
    BY <1>1, <1>4
  <2>4. page \subseteq Types!Present /\ last \in 0..N /\ scan.todo \cup page \in SUBSET (1..N)
    <3> HIDE DEF after, page, last
    <3>1. last \in 0..N
      BY <2>1, <2>2
    <3>2. page \subseteq Types!Present
      BY <2>2 DEF after
    <3>3. QED
      BY <1>2, <3>1, <3>2
  <2>5. \A k \in Types!Present : k > scan.token => k \in after
    OBVIOUS
  <2> HIDE DEF after, page, last
  <2>6. /\ scan' \in Types!Scan /\ scan'.at = (IF page = after THEN "next" ELSE "list")
        /\ scan'.todo = scan.todo \cup page /\ scan'.token = last
        /\ scan'.execute = scan.execute /\ scan'.failed = scan.failed /\ scan'.key = scan.key
    BY <1>2, <2>3, <2>4 DEF Types!Scan, Types!ObjectKeys
  <2>7. QED
    BY <1>1, <1>2, <2>2, <2>4, <2>5, <2>6
<1>5. QED
  BY <1>3, <1>4

LEMMA RunStep ==
    ASSUME Types!TypeOK, RunHolds
    PROVE  /\ \A k \in Types!ObjectKeys : Types!NextKey(k) =>
                /\ Bystanders /\ failures' = failures /\ overtaken' = FALSE
                /\ scan.at = "next" /\ k \in scan.todo
                /\ scan' \in Types!Scan /\ scan'.at = "head" /\ scan'.key = k
                /\ scan'.execute = scan.execute /\ scan'.todo = scan.todo \ {k}
                /\ scan'.failed = scan.failed
           /\ Types!Head =>
                /\ Bystanders /\ UNCHANGED <<failures, overtaken>> /\ scan.at = "head"
                /\ scan' \in Types!Scan /\ scan'.at = "read"
                /\ scan'.type = objects[scan.key].type /\ scan'.key = scan.key
                /\ scan'.execute = scan.execute /\ scan'.todo = scan.todo
                /\ scan'.failed = scan.failed
           /\ Types!KeyFails =>
                /\ Bystanders /\ failures' = failures + 1 /\ overtaken' = overtaken
                /\ failures < MaxFailures /\ scan.at \in {"head", "read", "copy"}
                /\ scan' \in Types!Scan /\ scan'.at = "next" /\ scan'.key = scan.key
                /\ scan'.execute = scan.execute /\ scan'.todo = scan.todo
                /\ scan'.failed = scan.failed + 1
<1>1. ASSUME NEW k \in Types!ObjectKeys, Types!NextKey(k)
      PROVE  /\ Bystanders /\ failures' = failures /\ overtaken' = FALSE
             /\ scan.at = "next" /\ k \in scan.todo
             /\ scan' \in Types!Scan /\ scan'.at = "head" /\ scan'.key = k
             /\ scan'.execute = scan.execute /\ scan'.todo = scan.todo \ {k}
             /\ scan'.failed = scan.failed
  <2>1. scan.at = "next" /\ scan \in Types!Scan /\ k \in 0..N
    BY <1>1, IdleFacts, ScanFacts DEF Types!NextKey, Types!ObjectKeys
  <2>2. /\ scan' \in Types!Scan /\ scan'.at = "head" /\ scan'.key = k
        /\ scan'.execute = scan.execute /\ scan'.todo = scan.todo \ {k}
        /\ scan'.failed = scan.failed
    BY <1>1, <2>1 DEF Types!NextKey, Types!Scan
  <2>3. QED
    BY <1>1, <2>1, <2>2 DEF Types!NextKey, Bystanders
<1>2. ASSUME Types!Head
      PROVE  /\ Bystanders /\ UNCHANGED <<failures, overtaken>> /\ scan.at = "head"
             /\ scan' \in Types!Scan /\ scan'.at = "read"
             /\ scan'.type = objects[scan.key].type /\ scan'.key = scan.key
             /\ scan'.execute = scan.execute /\ scan'.todo = scan.todo
             /\ scan'.failed = scan.failed
  <2>1. scan.at = "head" /\ scan \in Types!Scan /\ scan # Types!Idle
    BY <1>2, IdleFacts, ScanFacts DEF Types!Head
  <2>2. objects[scan.key].type \in Types!Types
    BY <2>1, PresentFacts DEF RunHolds
  <2>3. /\ scan' \in Types!Scan /\ scan'.at = "read"
        /\ scan'.type = objects[scan.key].type /\ scan'.key = scan.key
        /\ scan'.execute = scan.execute /\ scan'.todo = scan.todo
        /\ scan'.failed = scan.failed
    BY <1>2, <2>1, <2>2 DEF Types!Head, Types!Scan
  <2>4. QED
    BY <1>2, <2>1, <2>3 DEF Types!Head, Bystanders
<1>3. ASSUME Types!KeyFails
      PROVE  /\ Bystanders /\ failures' = failures + 1 /\ overtaken' = overtaken
             /\ failures < MaxFailures /\ scan.at \in {"head", "read", "copy"}
             /\ scan' \in Types!Scan /\ scan'.at = "next" /\ scan'.key = scan.key
             /\ scan'.execute = scan.execute /\ scan'.todo = scan.todo
             /\ scan'.failed = scan.failed + 1
  <2>1. /\ scan.at \in {"head", "read", "copy"} /\ scan \in Types!Scan /\ scan # Types!Idle
        /\ failures < MaxFailures
    BY <1>3, IdleFacts, ScanFacts DEF Types!KeyFails
  <2>2. scan.failed + 1 \in 0..MaxFailures
    BY <2>1, ScanFacts, ScanConstants DEF RunHolds, Types!TypeOK
  <2>3. /\ scan' \in Types!Scan /\ scan'.at = "next" /\ scan'.key = scan.key
        /\ scan'.execute = scan.execute /\ scan'.todo = scan.todo
        /\ scan'.failed = scan.failed + 1
    BY <1>3, <2>1, <2>2 DEF Types!KeyFails, Types!Scan
  <2>4. QED
    BY <1>3, <2>1, <2>3 DEF Types!KeyFails, Bystanders
<1>4. QED
  BY <1>1, <1>2, <1>3

LEMMA ReadStep ==
    ASSUME Types!TypeOK, RunHolds, Types!Read,
           NEW actual, actual = Types!SniffImageType(objects[scan.key].bytes)
    PROVE  /\ Bystanders /\ UNCHANGED <<failures, overtaken>> /\ scan.at = "read"
           /\ scan' \in Types!Scan
           /\ scan'.execute = scan.execute /\ scan'.todo = scan.todo
           /\ scan'.failed = scan.failed /\ scan'.key = scan.key
           /\ IF ~scan.execute \/ actual = Types!Unknown \/ Types!Equivalent(scan.type, actual)
              THEN scan'.at = "next"
              ELSE scan'.at = "copy" /\ scan'.type = actual /\ actual \in Types!Types
<1>1. scan.at = "read" /\ scan \in Types!Scan /\ scan # Types!Idle
  BY IdleFacts, ScanFacts DEF Types!Read
<1>2. actual = Types!ScriptSniff(objects[scan.key].bytes) /\ actual \in Types!Types
  BY <1>1, PresentFacts DEF RunHolds
<1>3. scan' = IF ~scan.execute \/ actual = Types!Unknown \/ Types!Equivalent(scan.type, actual)
              THEN [scan EXCEPT !.at = "next"]
              ELSE [scan EXCEPT !.at = "copy", !.type = actual]
  BY <1>2 DEF Types!Read
<1>4. CASE ~scan.execute \/ actual = Types!Unknown \/ Types!Equivalent(scan.type, actual)
  <2>1. scan' = [scan EXCEPT !.at = "next"]
    BY <1>3, <1>4
  <2>2. /\ scan' \in Types!Scan /\ scan'.at = "next"
        /\ scan'.execute = scan.execute /\ scan'.todo = scan.todo
        /\ scan'.failed = scan.failed /\ scan'.key = scan.key
    BY <1>1, <2>1 DEF Types!Scan
  <2>3. QED
    BY <1>1, <1>4, <2>2 DEF Types!Read, Bystanders
<1>5. CASE ~(~scan.execute \/ actual = Types!Unknown \/ Types!Equivalent(scan.type, actual))
  <2>1. scan' = [scan EXCEPT !.at = "copy", !.type = actual]
    BY <1>3, <1>5
  <2>2. /\ scan' \in Types!Scan /\ scan'.at = "copy" /\ scan'.type = actual
        /\ scan'.execute = scan.execute /\ scan'.todo = scan.todo
        /\ scan'.failed = scan.failed /\ scan'.key = scan.key
    BY <1>1, <1>2, <2>1 DEF Types!Scan
  <2>3. QED
    BY <1>1, <1>2, <1>5, <2>2 DEF Types!Read, Bystanders
<1>6. QED
  BY <1>4, <1>5
(* One lemma for each kind of step: what the run reads, what it writes, and *)
(* what others do to it.                                                    *)

LEMMA LiesFacts ==
    ASSUME NEW o
    PROVE  Types!Lies(o) <=> /\ Types!SniffImageType(o.bytes) # Types!Unknown
                             /\ ~Types!Equivalent(o.type, Types!SniffImageType(o.bytes))
  BY DEF Types!Lies, Types!Equivalent

LEMMA RunTyped ==
    ASSUME Types!TypeOK, Bystanders, scan' \in Types!Scan \cup {Types!Idle},
           failures' \in 0..MaxFailures, overtaken' \in BOOLEAN
    PROVE  Types!TypeOK' /\ Types!Present' = Types!Present
  BY DEF Types!TypeOK, Bystanders, Types!Present

LEMMA WritePreserves ==
    ASSUME ScanInv, NEW k \in Types!ObjectKeys, NEW bytes \in Kinds,
           NEW declared \in Declared, NEW presigned \in BOOLEAN,
           Types!AppWrite(k, bytes, declared, presigned)
    PROVE  ScanInv'
<1>1. /\ Types!TypeOK /\ RunHolds /\ SeenHolds /\ LiesAhead /\ CleanExitLeavesNoLie
      /\ k \in Types!Present'
  BY WriteStep DEF ScanInv
<1>2. Types!TypeOK'
  <2>1. /\ objects' \in [Types!ObjectKeys -> Types!Object \cup {Types!Absent}]
        /\ writes' \in 0..MaxWrites /\ UNCHANGED <<scan, exit, scans, failures>>
    BY <1>1, WriteStep
  <2>2. written' \subseteq Types!ObjectKeys
    BY <1>1, WriteStep DEF Types!TypeOK
  <2>3. overtaken' \in BOOLEAN
    <3>1. overtaken \in BOOLEAN
      BY <1>1 DEF Types!TypeOK
    <3>2. overtaken' = (overtaken \/ (scan # Types!Idle /\ scan.key = k))
      BY DEF Types!AppWrite
    <3>3. QED
      BY <3>1, <3>2, Zenon
  <2>4. QED
    BY <1>1, <2>1, <2>2, <2>3 DEF Types!TypeOK
<1>3. RunHolds'
  <2>1. /\ scan' = scan /\ exit' = exit /\ failures' = failures /\ written' = written \cup {k}
        /\ Types!Present \subseteq Types!Present'
    BY <1>1, WriteStep
  <2>2. overtaken' => overtaken \/ scan.key = k
    BY Zenon DEF Types!AppWrite
  <2>3. CASE scan = Types!Idle
    BY <2>1, <2>3 DEF RunHolds
  <2>4. CASE scan # Types!Idle
    <3>1. /\ exit = 1 /\ scan.failed <= failures /\ scan.todo \subseteq Types!Present
          /\ overtaken => scan.key \in written
          /\ scan.at \in {"head", "read", "copy"} => scan.key \in Types!Present
      BY <1>1, <2>4 DEF RunHolds
    <3>2. overtaken' => scan.key \in written'
      BY <2>1, <2>2, <3>1
    <3>3. QED
      BY <2>1, <3>1, <3>2 DEF RunHolds
  <2>5. QED
    BY <2>3, <2>4
<1>4. \A l \in Types!Present' \ written' :
        l \in Types!Present \ written /\ objects'[l] = objects[l]
  BY <1>1, WriteStep DEF Types!Present
<1>5. SeenHolds'
  <2>1. CASE scan = Types!Idle
    BY <2>1, IdleFacts, WriteStep, <1>1 DEF SeenHolds
  <2>2. CASE scan # Types!Idle /\ scan.at \in {"read", "copy"}
    <3>1. scan.key \in Types!ObjectKeys
      BY <1>1, <2>2 DEF RunHolds, Types!Present
    <3>2. ~overtaken' => ~overtaken /\ objects'[scan.key] = objects[scan.key]
      BY <1>1, <2>2, <3>1, WriteStep
    <3>3. QED
      BY <1>1, <3>2, WriteStep DEF SeenHolds
  <2>3. CASE scan.at \notin {"read", "copy"}
    BY <2>3, WriteStep, <1>1 DEF SeenHolds
  <2>4. QED
    BY <2>1, <2>2, <2>3
<1>6. LiesAhead'
  BY <1>1, <1>4, WriteStep DEF LiesAhead, AtHand
<1>7. CleanExitLeavesNoLie'
  BY <1>1, <1>4, WriteStep DEF CleanExitLeavesNoLie, Types!CleanExitLeavesNoLie
<1>8. QED
  BY <1>2, <1>3, <1>5, <1>6, <1>7 DEF ScanInv

LEMMA StartPreserves ==
    ASSUME ScanInv, NEW execute \in BOOLEAN, Types!Start(execute)
    PROVE  ScanInv'
<1>1. Types!TypeOK /\ UNCHANGED <<objects, writes, failures>>
  BY DEF ScanInv, Types!Start
<1>2. /\ scan' \in Types!Scan /\ scan'.at = "list" /\ scan'.token = 0
      /\ scan'.todo = {} /\ scan'.failed = 0
      /\ exit' = 1 /\ written' = {} /\ overtaken' = FALSE
  <2>1. 0 \in 0..N /\ 0 \in 0..MaxFailures
    BY ScanConstants
  <2>2. QED
    BY <2>1 DEF Types!Start, Types!Scan
<1>3. Types!TypeOK'
  <2>1. scans' \in 0..MaxScans
    BY <1>1, ScanConstants DEF Types!Start, Types!TypeOK
  <2>2. exit' \in 0..2 /\ written' \subseteq Types!ObjectKeys
    BY <1>2
  <2>3. overtaken' \in BOOLEAN
    BY <1>2, Zenon
  <2>4. /\ objects' \in [Types!ObjectKeys -> Types!Object \cup {Types!Absent}]
        /\ writes' \in 0..MaxWrites /\ failures' \in 0..MaxFailures
    BY <1>1 DEF Types!TypeOK
  <2>5. QED
    BY <1>2, <2>1, <2>2, <2>3, <2>4 DEF Types!TypeOK
<1>4. RunHolds'
  BY <1>1, <1>2 DEF RunHolds, Types!TypeOK
<1>5. SeenHolds'
  BY <1>2 DEF SeenHolds
<1>6. LiesAhead'
  <2>1. \A k \in Types!Present' : k > scan'.token
    BY <1>2, ScanConstants DEF Types!Present, Types!ObjectKeys
  <2>2. QED
    BY <1>2, <2>1 DEF LiesAhead
<1>7. CleanExitLeavesNoLie'
  BY <1>2 DEF CleanExitLeavesNoLie, Types!CleanExitLeavesNoLie
<1>8. QED
  BY <1>3, <1>4, <1>5, <1>6, <1>7 DEF ScanInv

LEMMA ListPreserves ==
    ASSUME ScanInv, Types!ListPage
    PROVE  ScanInv'
<1>1. /\ Types!TypeOK /\ RunHolds /\ LiesAhead /\ scan.at = "list" /\ scan # Types!Idle
      /\ scan'.at \in {"list", "next"}
  BY IdleFacts, ListStep DEF ScanInv, Types!ListPage
<1>2. Types!TypeOK' /\ Types!Present' = Types!Present
  BY <1>1, ListStep, RunTyped DEF Types!TypeOK
<1>3. RunHolds'
  BY <1>1, <1>2, ListStep DEF RunHolds, Bystanders
<1>4. SeenHolds'
  BY <1>1 DEF SeenHolds
<1>5. LiesAhead'
  <2>1. SUFFICES ASSUME scan.execute, scan.failed = 0,
                        NEW k \in Types!Present \ written, Types!Lies(objects[k])
                 PROVE  k \in scan'.todo \/ (scan'.at = "list" /\ k > scan'.token)
    BY <1>1, <1>2, ListStep DEF LiesAhead, Bystanders
  <2>2. k \in scan.todo \/ k > scan.token
    BY <1>1, <2>1 DEF LiesAhead, AtHand
  <2>3. QED
    BY <1>1, <2>1, <2>2, ListStep
<1>6. CleanExitLeavesNoLie'
  BY <1>1, ListStep DEF RunHolds, Bystanders, CleanExitLeavesNoLie, Types!CleanExitLeavesNoLie
<1>7. QED
  BY <1>2, <1>3, <1>4, <1>5, <1>6 DEF ScanInv

LEMMA NextKeyPreserves ==
    ASSUME ScanInv, NEW k \in Types!ObjectKeys, Types!NextKey(k)
    PROVE  ScanInv'
<1>1. Types!TypeOK /\ RunHolds /\ LiesAhead /\ scan.at = "next" /\ scan # Types!Idle
  BY IdleFacts DEF ScanInv, Types!NextKey
<1>2. /\ Bystanders /\ failures' = failures /\ overtaken' = FALSE /\ k \in scan.todo
      /\ scan' \in Types!Scan /\ scan'.at = "head" /\ scan'.key = k
      /\ scan'.execute = scan.execute /\ scan'.todo = scan.todo \ {k}
      /\ scan'.failed = scan.failed
  BY <1>1, RunStep
<1>3. Types!TypeOK' /\ Types!Present' = Types!Present
  <2>1. overtaken' \in BOOLEAN
    BY <1>2, Zenon
  <2>2. QED
    BY <1>1, <1>2, <2>1, RunTyped DEF Types!TypeOK
<1>4. RunHolds'
  <2>1. exit' = 1 /\ scan'.failed <= failures' /\ scan'.todo \subseteq Types!Present
    BY <1>1, <1>2 DEF RunHolds, Bystanders
  <2>2. ~overtaken' /\ scan'.key \in Types!Present
    BY <1>1, <1>2 DEF RunHolds
  <2>3. QED
    BY <1>3, <2>1, <2>2 DEF RunHolds
<1>5. SeenHolds'
  BY <1>2 DEF SeenHolds
<1>6. LiesAhead'
  <2>1. SUFFICES ASSUME scan.execute, scan.failed = 0,
                        NEW l \in Types!Present \ written, Types!Lies(objects[l])
                 PROVE  l \in scan'.todo \/ l = scan'.key
    BY <1>2, <1>3 DEF LiesAhead, AtHand, Bystanders
  <2>2. l \in scan.todo
    BY <1>1, <2>1 DEF LiesAhead, AtHand
  <2>3. QED
    BY <1>2, <2>2
<1>7. CleanExitLeavesNoLie'
  BY <1>1, <1>2 DEF RunHolds, Bystanders, CleanExitLeavesNoLie, Types!CleanExitLeavesNoLie
<1>8. QED
  BY <1>3, <1>4, <1>5, <1>6, <1>7 DEF ScanInv

LEMMA HeadPreserves ==
    ASSUME ScanInv, Types!Head
    PROVE  ScanInv'
<1>1. Types!TypeOK /\ RunHolds /\ LiesAhead /\ scan.at = "head" /\ scan # Types!Idle
  BY IdleFacts DEF ScanInv, Types!Head
<1>2. /\ Bystanders /\ UNCHANGED <<failures, overtaken>>
      /\ scan' \in Types!Scan /\ scan'.at = "read"
      /\ scan'.type = objects[scan.key].type /\ scan'.key = scan.key
      /\ scan'.execute = scan.execute /\ scan'.todo = scan.todo
      /\ scan'.failed = scan.failed
  BY <1>1, RunStep
<1>3. Types!TypeOK' /\ Types!Present' = Types!Present
  BY <1>1, <1>2, RunTyped DEF Types!TypeOK
<1>4. RunHolds'
  BY <1>1, <1>2, <1>3 DEF RunHolds, Bystanders
<1>5. SeenHolds'
  BY <1>2 DEF SeenHolds, Bystanders
<1>6. LiesAhead'
  BY <1>1, <1>2, <1>3 DEF LiesAhead, AtHand, Bystanders
<1>7. CleanExitLeavesNoLie'
  BY <1>1, <1>2 DEF RunHolds, Bystanders, CleanExitLeavesNoLie, Types!CleanExitLeavesNoLie
<1>8. QED
  BY <1>3, <1>4, <1>5, <1>6, <1>7 DEF ScanInv

LEMMA ReadPreserves ==
    ASSUME ScanInv, Types!Read
    PROVE  ScanInv'
<1> DEFINE actual == Types!SniffImageType(objects[scan.key].bytes)
<1>1. /\ Types!TypeOK /\ RunHolds /\ SeenHolds /\ LiesAhead
      /\ scan.at = "read" /\ scan # Types!Idle /\ scan.key \in Types!Present
  BY IdleFacts DEF ScanInv, Types!Read, RunHolds
<1>2. /\ Bystanders /\ UNCHANGED <<failures, overtaken>> /\ scan' \in Types!Scan
      /\ scan'.execute = scan.execute /\ scan'.todo = scan.todo
      /\ scan'.failed = scan.failed /\ scan'.key = scan.key
      /\ IF ~scan.execute \/ actual = Types!Unknown \/ Types!Equivalent(scan.type, actual)
         THEN scan'.at = "next"
         ELSE scan'.at = "copy" /\ scan'.type = actual /\ actual \in Types!Types
  BY <1>1, ReadStep
<1>3. Types!TypeOK' /\ Types!Present' = Types!Present
  BY <1>1, <1>2, RunTyped DEF Types!TypeOK
<1>4. RunHolds'
  BY <1>1, <1>2, <1>3 DEF RunHolds, Bystanders
<1>5. ~overtaken => scan.type = objects[scan.key].type
  BY <1>1 DEF SeenHolds
<1>6. SeenHolds'
  <2> HIDE DEF actual
  <2>1. CASE scan'.at = "next"
    BY <2>1 DEF SeenHolds
  <2>2. CASE scan'.at # "next"
    <3>1. /\ scan'.at = "copy" /\ scan'.execute /\ scan'.type = actual
          /\ actual \in Types!Types \ {Types!Unknown}
          /\ ~overtaken => ~Types!Equivalent(objects[scan.key].type, actual)
      BY <1>2, <1>5, <2>2
    <3>2. QED
      BY <1>2, <3>1 DEF SeenHolds, Bystanders, actual
  <2>3. QED
    BY <2>1, <2>2
<1>7. LiesAhead'
  <2>1. SUFFICES ASSUME scan.execute, scan.failed = 0,
                        NEW k \in Types!Present \ written, Types!Lies(objects[k])
                 PROVE  k \in scan.todo \/ (scan'.at = "copy" /\ k = scan.key)
    BY <1>2, <1>3 DEF LiesAhead, AtHand, Bystanders
  <2>2. k \in scan.todo \/ k = scan.key
    BY <1>1, <2>1 DEF LiesAhead, AtHand
  <2>3. CASE k = scan.key
    <3>1. ~overtaken
      BY <1>1, <2>1, <2>3 DEF RunHolds
    <3>2. actual # Types!Unknown /\ ~Types!Equivalent(scan.type, actual)
      BY <1>5, <2>1, <2>3, <3>1, LiesFacts
    <3>3. QED
      BY <1>2, <2>1, <2>3, <3>2
  <2>4. QED
    BY <2>2, <2>3
<1>8. CleanExitLeavesNoLie'
  BY <1>1, <1>2 DEF RunHolds, Bystanders, CleanExitLeavesNoLie, Types!CleanExitLeavesNoLie
<1>9. QED
  BY <1>3, <1>4, <1>6, <1>7, <1>8 DEF ScanInv

LEMMA FailPreserves ==
    ASSUME ScanInv, Types!KeyFails
    PROVE  ScanInv'
<1>1. /\ Types!TypeOK /\ RunHolds /\ scan # Types!Idle
      /\ scan.at \in {"head", "read", "copy"}
  BY IdleFacts DEF ScanInv, Types!KeyFails
<1>2. /\ Bystanders /\ failures' = failures + 1 /\ overtaken' = overtaken
      /\ failures < MaxFailures
      /\ scan' \in Types!Scan /\ scan'.at = "next" /\ scan'.key = scan.key
      /\ scan'.todo = scan.todo /\ scan'.failed = scan.failed + 1
  BY <1>1, RunStep
<1>3. scan.failed \in Nat /\ failures \in Nat /\ failures' \in 0..MaxFailures
  BY <1>1, <1>2, ScanFacts, ScanConstants DEF Types!TypeOK
<1>4. Types!TypeOK' /\ Types!Present' = Types!Present
  BY <1>1, <1>2, <1>3, RunTyped DEF Types!TypeOK
<1>5. RunHolds'
  BY <1>1, <1>2, <1>3, <1>4 DEF RunHolds, Bystanders
<1>6. SeenHolds'
  BY <1>2 DEF SeenHolds
<1>7. LiesAhead'
  BY <1>2, <1>3 DEF LiesAhead
<1>8. CleanExitLeavesNoLie'
  BY <1>1, <1>2 DEF RunHolds, Bystanders, CleanExitLeavesNoLie, Types!CleanExitLeavesNoLie
<1>9. QED
  BY <1>4, <1>5, <1>6, <1>7, <1>8 DEF ScanInv

LEMMA CopyPreserves ==
    ASSUME ScanInv, Types!Copy
    PROVE  ScanInv'
<1>1. /\ Types!TypeOK /\ RunHolds /\ SeenHolds /\ LiesAhead
      /\ scan.at = "copy" /\ scan # Types!Idle /\ scan.key \in Types!Present
  BY RetypeStep DEF ScanInv
<1>2. /\ objects' \in [Types!ObjectKeys -> Types!Object \cup {Types!Absent}]
      /\ Types!Present' = Types!Present
      /\ objects'[scan.key].type = scan.type
      /\ objects'[scan.key].bytes = objects[scan.key].bytes
      /\ \A l \in Types!ObjectKeys \ {scan.key} : objects'[l] = objects[l]
      /\ scan' \in Types!Scan /\ scan'.at = "next"
      /\ scan'.execute = scan.execute /\ scan'.todo = scan.todo
      /\ scan'.failed = scan.failed /\ scan'.key = scan.key
      /\ UNCHANGED <<exit, writes, scans, failures, written, overtaken>>
  BY <1>1, RetypeStep
<1>3. Types!TypeOK'
  BY <1>1, <1>2 DEF Types!TypeOK
<1>4. RunHolds'
  BY <1>1, <1>2 DEF RunHolds
<1>5. SeenHolds'
  BY <1>2 DEF SeenHolds
<1>6. LiesAhead'
  <2>1. SUFFICES ASSUME scan.execute, scan.failed = 0,
                        NEW k \in Types!Present \ written, Types!Lies(objects'[k])
                 PROVE  k \in scan.todo
    BY <1>2 DEF LiesAhead
  <2>2. CASE k = scan.key
    <3>1. ~overtaken
      BY <1>1, <2>1, <2>2 DEF RunHolds
    <3>2. objects'[k].type = Types!SniffImageType(objects'[k].bytes)
      BY <1>1, <1>2, <2>2, <3>1 DEF SeenHolds
    <3>3. QED
      BY <2>1, <3>2, LiesFacts DEF Types!Equivalent
  <2>3. CASE k # scan.key
    <3>1. Types!Lies(objects[k])
      BY <1>2, <2>1, <2>3 DEF Types!Present
    <3>2. QED
      BY <1>1, <2>1, <2>3, <3>1 DEF LiesAhead, AtHand
  <2>4. QED
    BY <2>2, <2>3
<1>7. CleanExitLeavesNoLie'
  BY <1>1, <1>2 DEF RunHolds, CleanExitLeavesNoLie, Types!CleanExitLeavesNoLie
<1>8. QED
  BY <1>3, <1>4, <1>5, <1>6, <1>7 DEF ScanInv

LEMMA EndPreserves ==
    ASSUME ScanInv, Types!Finish \/ Types!Crash
    PROVE  ScanInv'
<1>1. /\ Types!TypeOK /\ RunHolds /\ LiesAhead /\ scan # Types!Idle
      /\ scan' = Types!Idle
      /\ UNCHANGED <<objects, writes, scans, failures, written, overtaken>>
  BY IdleFacts DEF ScanInv, Types!Finish, Types!Crash
<1>2. exit' \in 0..2
  BY <1>1 DEF Types!Finish, Types!Crash, Types!TypeOK
<1>3. Types!TypeOK' /\ Types!Present' = Types!Present
  BY <1>1, <1>2 DEF Types!TypeOK, Types!Present
<1>4. RunHolds' /\ SeenHolds' /\ LiesAhead'
  BY <1>1, IdleFacts DEF RunHolds, SeenHolds, LiesAhead
<1>5. CleanExitLeavesNoLie'
  <2>1. CASE Types!Crash
    BY <1>1, <2>1
    DEF RunHolds, Types!Crash, CleanExitLeavesNoLie, Types!CleanExitLeavesNoLie
  <2>2. CASE Types!Finish /\ exit' = 0
    <3>1. scan.execute /\ scan.failed = 0 /\ scan.at = "next" /\ scan.todo = {}
      BY <1>1, <2>2, ScanFacts DEF Types!Finish
    <3>2. \A k \in Types!Present \ written : ~Types!Lies(objects[k])
      BY <1>1, <3>1 DEF LiesAhead, AtHand
    <3>3. QED
      BY <1>1, <1>3, <3>2 DEF CleanExitLeavesNoLie, Types!CleanExitLeavesNoLie
  <2>3. CASE exit' # 0
    BY <2>3 DEF CleanExitLeavesNoLie, Types!CleanExitLeavesNoLie
  <2>4. QED
    BY <2>1, <2>2, <2>3
<1>6. QED
  BY <1>3, <1>4, <1>5 DEF ScanInv

LEMMA ScanInit == Types!Init => ScanInv
<1>1. ASSUME Types!Init PROVE Types!TypeOK
  <2>1. writes \in 0..MaxWrites /\ scans \in 0..MaxScans /\ failures \in 0..MaxFailures
    BY <1>1, ScanConstants DEF Types!Init
  <2>2. overtaken \in BOOLEAN
    BY <1>1, Zenon DEF Types!Init
  <2>3. QED
    BY <1>1, <2>1, <2>2 DEF Types!Init, Types!TypeOK
<1>2. Types!Init => RunHolds /\ SeenHolds /\ LiesAhead /\ CleanExitLeavesNoLie
  BY IdleFacts
  DEF Types!Init, RunHolds, SeenHolds, LiesAhead, CleanExitLeavesNoLie,
      Types!CleanExitLeavesNoLie
<1>3. QED
  BY <1>1, <1>2 DEF ScanInv

LEMMA ScanStep == ScanInv /\ [Types!Next]_(Types!vars) => ScanInv'
<1>1. SUFFICES ASSUME ScanInv, [Types!Next]_(Types!vars) PROVE ScanInv'
  OBVIOUS
<1>2. CASE \E k \in Types!ObjectKeys, bytes \in Kinds, declared \in Declared,
              presigned \in BOOLEAN : Types!AppWrite(k, bytes, declared, presigned)
  BY <1>1, <1>2, WritePreserves
<1>3. CASE \E execute \in BOOLEAN : Types!Start(execute)
  BY <1>1, <1>3, StartPreserves
<1>4. CASE \E k \in Types!ObjectKeys : Types!NextKey(k)
  BY <1>1, <1>4, NextKeyPreserves
<1>5. CASE UNCHANGED Types!vars
  BY <1>1, <1>5
  DEF Types!vars, ScanInv, Types!TypeOK, RunHolds, SeenHolds, LiesAhead, AtHand,
      Types!Present, CleanExitLeavesNoLie, Types!CleanExitLeavesNoLie
<1>6. QED
  BY <1>1, <1>2, <1>3, <1>4, <1>5, ListPreserves, HeadPreserves, ReadPreserves,
     CopyPreserves, FailPreserves, EndPreserves
  DEF Types!Next

LEMMA ScanInductive == Types!Spec => []ScanInv
  BY ScanInit, ScanStep, PTL DEF Types!Spec

-----------------------------------------------------------------------------
(* A run of fix-r2-content-types.js that applied its fixes and exits with 0 *)
(* leaves no lie but on keys that the app wrote meanwhile.                  *)
THEOREM CleanExit == Types!Spec => []CleanExitLeavesNoLie
  BY ScanInductive, PTL DEF ScanInv

(* Its copy onto itself changes nothing but a lie, and repairs it, unless  *)
(* the object is replaced between its HEAD and the copy.                   *)
THEOREM RepairsOnly == Types!Spec => OnlyLiesChange
<1>1. ASSUME ScanInv, Types!Copy, ~overtaken
      PROVE  Types!Lies(objects[scan.key]) /\ ~Types!Lies(objects'[scan.key])
  <2>1. /\ scan.at = "copy" /\ objects'[scan.key].type = scan.type
        /\ objects'[scan.key].bytes = objects[scan.key].bytes
        /\ RunHolds /\ SeenHolds
    BY <1>1, RetypeStep DEF ScanInv
  <2>2. /\ scan.type = Types!SniffImageType(objects[scan.key].bytes)
        /\ scan.type # Types!Unknown
        /\ ~Types!Equivalent(objects[scan.key].type, scan.type)
    BY <1>1, <2>1 DEF SeenHolds
  <2>3. QED
    BY <2>1, <2>2, LiesFacts DEF Types!Equivalent
<1>2. QED
  BY <1>1, ScanInductive, PTL DEF OnlyLiesChange, Types!OnlyLiesChange

(* The states of the move and of the repair, side by side, have their types. *)
THEOREM ScriptsTyped == Spec /\ Types!Spec => []TypesOK
  BY TypeCorrect, ScanInductive, PTL DEF ScanInv, TypesOK

-----------------------------------------------------------------------------
(* RefRewrite: the path of a files row. In every form that a row may have  *)
(* the key is the first of its kind and lasts to the end.                  *)

LEMMA KeyOfForm ==
    ASSUME NEW p \in Seq(Rewrite!Tokens), \A i \in 1..Len(p) : p[i] # "key",
           NEW n \in FileNames, Rewrite!Plain(n)
    PROVE  Rewrite!NormalizeFileKey(p \o <<"key">> \o n) = <<"key">> \o n
<1> DEFINE s == p \o <<"key">> \o n
           c == Len(p) + 1
           t == <<"key">> \o n
<1>1. /\ n \in Seq(Rewrite!Tokens) /\ Len(n) \in Nat \ {0} /\ Len(p) \in Nat
      /\ \A i \in 1..Len(n) : n[i] # "gap"
  BY RewriteAssumption DEF Rewrite!TextsAssumption, Rewrite!Plain
<1>2. /\ t \in Seq(Rewrite!Tokens) /\ Len(t) = Len(n) + 1 /\ t[1] = "key"
      /\ \A i \in 1..Len(n) : t[i + 1] = n[i]
  BY <1>1 DEF Rewrite!Tokens
<1>3. /\ s \in Seq(Rewrite!Tokens) /\ Len(s) = Len(p) + 1 + Len(n)
      /\ \A i \in 1..Len(p) : s[i] = p[i]
      /\ \A i \in 1..Len(t) : s[Len(p) + i] = t[i]
  BY <1>1, <1>2 DEF Rewrite!Tokens
<1> HIDE DEF s, t
<1>4. s[c] = "key" /\ \A i \in c..Len(s) : s[i] # "gap"
  <2>1. s[c] = "key"
    BY <1>1, <1>2, <1>3
  <2>2. ASSUME NEW i \in c..Len(s) PROVE s[i] # "gap"
    <3>1. CASE i = c
      BY <2>1, <3>1
    <3>2. CASE i # c
      <4>1. i - c \in 1..Len(n) /\ i = Len(p) + (i - c + 1) /\ i - c + 1 \in 1..Len(t)
        BY <1>1, <1>2, <1>3, <3>2
      <4>2. s[i] = t[i - c + 1] /\ t[i - c + 1] = n[i - c]
        BY <1>2, <1>3, <4>1
      <4>3. QED
        BY <1>1, <4>1, <4>2
    <3>3. QED
      BY <3>1, <3>2
  <2>3. QED
    BY <2>1, <2>2
<1>5. Rewrite!KeyAt(s, c) /\ c \in DOMAIN s /\ \A j \in DOMAIN s : Rewrite!KeyAt(s, j) => c <= j
  <2>1. c < Len(s) /\ c + 1 \in c..Len(s) /\ DOMAIN s = 1..Len(s)
    BY <1>1, <1>3
  <2>2. ASSUME NEW j \in DOMAIN s, Rewrite!KeyAt(s, j) PROVE c <= j
    <3>1. j \in 1..Len(s) /\ s[j] = "key"
      BY <2>1, <2>2 DEF Rewrite!KeyAt
    <3>2. j \notin 1..Len(p)
      BY <1>3, <3>1
    <3>3. QED
      BY <1>1, <1>3, <3>1, <3>2
  <2>3. QED
    BY <1>1, <1>4, <2>1, <2>2 DEF Rewrite!KeyAt
<1>6. Rewrite!FirstOf({j \in DOMAIN s : Rewrite!KeyAt(s, j)}) = c
  <2> DEFINE S == {j \in DOMAIN s : Rewrite!KeyAt(s, j)}
  <2>1. c \in S /\ (\A j \in S : c <= j) /\ S \subseteq Nat
    BY <1>3, <1>5
  <2> HIDE DEF S
  <2>2. \A i \in S : (\A j \in S : i <= j) => i = c
    BY <1>1, <2>1
  <2>3. Rewrite!FirstOf(S) = c
    BY <2>1, <2>2 DEF Rewrite!FirstOf
  <2>4. QED
    BY <2>3 DEF S
<1>7. Rewrite!KeyEnd(s, c) = Len(s)
  <2>1. Len(s) \in c..Len(s) /\ Rewrite!NoGap(s, c, Len(s))
    BY <1>1, <1>3, <1>4 DEF Rewrite!NoGap
  <2>2. ASSUME NEW e \in c..Len(s), e < Len(s) => s[e + 1] = "gap" PROVE e = Len(s)
    <3>1. e \in Nat /\ Len(s) \in Nat /\ e <= Len(s)
      BY <1>1, <1>3
    <3>2. CASE e < Len(s)
      <4>1. e + 1 \in c..Len(s)
        BY <1>1, <3>1, <3>2
      <4>2. QED
        BY <1>4, <2>2, <3>2, <4>1
    <3>3. QED
      BY <3>1, <3>2
  <2>3. QED
    BY <2>1, <2>2 DEF Rewrite!KeyEnd
<1>8. SubSeq(s, c, Len(s)) = t
  <2>1. /\ SubSeq(s, c, Len(s)) \in Seq(Rewrite!Tokens)
        /\ Len(SubSeq(s, c, Len(s))) = Len(t)
        /\ \A i \in 1..Len(t) : SubSeq(s, c, Len(s))[i] = t[i]
    <3>1. \A i \in c..Len(s) : s[i] \in Rewrite!Tokens
      BY <1>1, <1>3
    <3>2. c \in Int /\ Len(s) \in Int /\ c <= Len(s) /\ Len(s) - c + 1 = Len(t)
      BY <1>1, <1>2, <1>3
    <3>3. /\ SubSeq(s, c, Len(s)) \in Seq(Rewrite!Tokens)
          /\ Len(SubSeq(s, c, Len(s))) = Len(t)
          /\ \A i \in 1..Len(t) : SubSeq(s, c, Len(s))[i] = s[c + i - 1]
      BY <3>1, <3>2, SubSeqProperties
    <3>4. \A i \in 1..Len(t) : s[c + i - 1] = t[i]
      BY <1>1, <1>2, <1>3
    <3>5. QED
      BY <3>3, <3>4
  <2>2. QED
    BY <1>2, <2>1, SeqEqual
<1>9. Rewrite!NormalizeFileKey(s) = t
  BY <1>5, <1>6, <1>7, <1>8 DEF Rewrite!NormalizeFileKey, Rewrite!HasKey, Rewrite!Key
<1>10. QED
  BY <1>9 DEF s, t

LEMMA KeyOfStoredForm ==
    ASSUME NEW n \in FileNames, Rewrite!Plain(n), NEW s \in Rewrite!StoredForms(n)
    PROVE  Rewrite!NormalizeFileKey(s) = <<"key">> \o n
<1> DEFINE Prefixes == {<<"/", "uploads">>, <<"uploads">>, <<>>,
                        <<"http", "text", "/">>, <<"htp", "text", "/">>}
<1>1. PICK p \in Prefixes : s = p \o <<"key">> \o n
  BY DEF Rewrite!StoredForms
<1>2. p \in Seq(Rewrite!Tokens) /\ \A i \in 1..Len(p) : p[i] # "key"
  <2>1. CASE p = <<"/", "uploads">>
    BY <2>1 DEF Rewrite!Tokens
  <2>2. CASE p = <<"uploads">>
    BY <2>2 DEF Rewrite!Tokens
  <2>3. CASE p = <<>>
    BY <2>3
  <2>4. CASE p = <<"http", "text", "/">>
    BY <2>4 DEF Rewrite!Tokens, Rewrite!Schemes
  <2>5. CASE p = <<"htp", "text", "/">>
    BY <2>5 DEF Rewrite!Tokens, Rewrite!Schemes
  <2>6. QED
    BY <2>1, <2>2, <2>3, <2>4, <2>5
<1>3. QED
  BY <1>1, <1>2, KeyOfForm

LEMMA KeyIsForm ==
    ASSUME NEW n \in FileNames
    PROVE  <<"key">> \o n \in Rewrite!StoredForms(n)
<1>1. n \in Seq(Rewrite!Tokens)
  BY RewriteAssumption DEF Rewrite!TextsAssumption
<1>2. <<>> \o <<"key">> \o n = <<"key">> \o n
  BY <1>1 DEF Rewrite!Tokens
<1>3. QED
  BY <1>2 DEF Rewrite!StoredForms

(* A row keeps one of the forms of its name, and is bare after a run.      *)
RowHolds ==
    column = "files" =>
        \A n \in FileNames : Rewrite!Plain(n) /\ original \in Rewrite!StoredForms(n) =>
            /\ value \in Rewrite!StoredForms(n)
            /\ rewrites > 0 => value = <<"key">> \o n

LEMMA RowInductive == Rewrite!Spec => []RowHolds
<1>1. Rewrite!Init => RowHolds
  BY DEF Rewrite!Init, RowHolds
<1>2. ASSUME RowHolds, Rewrite!Migrate PROVE RowHolds'
  <2>1. SUFFICES ASSUME column = "files", NEW n \in FileNames, Rewrite!Plain(n),
                        original \in Rewrite!StoredForms(n)
                 PROVE  value' \in Rewrite!StoredForms(n) /\ value' = <<"key">> \o n
    BY <1>2 DEF RowHolds, Rewrite!Migrate
  <2>2. value \in Rewrite!StoredForms(n)
    BY <1>2, <2>1 DEF RowHolds
  <2>3. value' = <<"key">> \o n
    BY <1>2, <2>1, <2>2, KeyOfStoredForm DEF Rewrite!Migrate
  <2>4. QED
    BY <2>3, KeyIsForm
<1>3. RowHolds /\ UNCHANGED Rewrite!vars => RowHolds'
  BY DEF RowHolds, Rewrite!vars
<1>4. QED
  BY <1>1, <1>2, <1>3, PTL DEF Rewrite!Spec

(* Once migrated, the path of a files row is the bare key of its name,     *)
(* whichever of its forms the row had and however often the script runs,   *)
(* unless a character of the name ends a key.                              *)
THEOREM RowsMigrated == Rewrite!Spec => []KeyOfName
<1>1. RowHolds => KeyOfName
  BY DEF RowHolds, KeyOfName, Rewrite!KeyOfName
<1>2. QED
  BY <1>1, RowInductive, PTL

HIDE ConstantsAssumption

-----------------------------------------------------------------------------
(* RefRewrite: the references of a text. At a position of a text either a  *)
(* match begins, and Piece is what replaces it, or one token is copied.    *)

Match(s, i) == Rewrite!FirstOf(Rewrite!KeysFrom(s, i))
Piece(s, base, i) ==
    IF Rewrite!KeysFrom(s, i) = {} THEN <<s[i]>>
    ELSE base \o <<"/">> \o Rewrite!Key(s, Match(s, i))
After(s, i) ==
    IF Rewrite!KeysFrom(s, i) = {} THEN i + 1 ELSE Rewrite!KeyEnd(s, Match(s, i)) + 1

LEMMA Joined ==
    \A a, b \in Seq(Rewrite!Tokens) : a \o b \in Seq(Rewrite!Tokens)
BY ConcatProperties

LEMMA Regrouped ==
    \A a, b, c \in Seq(Rewrite!Tokens) : (a \o b) \o c = a \o (b \o c)
BY ConcatAssociative

(* The same, kept closed where a step only moves whole parts.              *)
Cat(a, b) == a \o b

LEMMA CatTyped ==
    \A a, b \in Seq(Rewrite!Tokens) :
        Cat(a, b) \in Seq(Rewrite!Tokens) /\ Len(Cat(a, b)) = Len(a) + Len(b)
BY ConcatProperties DEF Cat

LEMMA CatLeft ==
    \A a, b \in Seq(Rewrite!Tokens) : \A j \in 1..Len(a) : Cat(a, b)[j] = a[j]
BY ConcatProperties DEF Cat

LEMMA CatRight ==
    \A a, b \in Seq(Rewrite!Tokens) : \A j \in 1..Len(b) : Cat(a, b)[Len(a) + j] = b[j]
BY ConcatProperties DEF Cat

LEMMA CatGroups ==
    \A a, b, c \in Seq(Rewrite!Tokens) : Cat(Cat(a, b), c) = Cat(a, Cat(b, c))
BY ConcatAssociative DEF Cat

LEMMA CatEmpty == \A a \in Seq(Rewrite!Tokens) : Cat(a, <<>>) = a /\ Cat(<<>>, a) = a
BY ConcatEmptySeq DEF Cat

(* Cut at any place, a text is its two parts put together.                 *)
LEMMA Parts ==
    ASSUME NEW s \in Seq(Rewrite!Tokens), NEW m \in 0..Len(s)
    PROVE  \E a, b \in Seq(Rewrite!Tokens) : s = Cat(a, b) /\ Len(a) = m
<1> DEFINE a == [j \in 1..m |-> s[j]]
           b == [j \in 1..Len(s) - m |-> s[m + j]]
<1>1. /\ a \in Seq(Rewrite!Tokens) /\ Len(a) = m
      /\ \A j \in 1..m : a[j] = s[j]
  <2>1. \A j \in 1..m : s[j] \in Rewrite!Tokens
    OBVIOUS
  <2>2. QED
    BY <2>1
<1>2. /\ b \in Seq(Rewrite!Tokens) /\ Len(b) = Len(s) - m
      /\ \A j \in 1..Len(b) : b[j] = s[m + j]
  <2>1. \A j \in 1..Len(s) - m : s[m + j] \in Rewrite!Tokens
    OBVIOUS
  <2>2. QED
    BY <2>1
<1> HIDE DEF a, b
<1>3. Cat(a, b) \in Seq(Rewrite!Tokens) /\ Len(Cat(a, b)) = Len(s)
  <2>1. Cat(a, b) \in Seq(Rewrite!Tokens) /\ Len(Cat(a, b)) = Len(a) + Len(b)
    BY <1>1, <1>2, CatTyped
  <2>2. QED
    BY <1>1, <1>2, <2>1
<1>4. ASSUME NEW j \in 1..Len(s) PROVE s[j] = Cat(a, b)[j]
  <2>1. CASE j <= m
    <3>1. j \in 1..Len(a)
      BY <1>1, <2>1
    <3>2. QED
      BY <1>1, <1>2, <3>1, CatLeft
  <2>2. CASE ~(j <= m)
    <3>1. j - m \in 1..Len(b) /\ Len(a) + (j - m) = j /\ m + (j - m) = j
      BY <1>1, <1>2, <2>2
    <3>2. Cat(a, b)[Len(a) + (j - m)] = b[j - m] /\ b[j - m] = s[m + (j - m)]
      BY <1>1, <1>2, <3>1, CatRight
    <3>3. QED
      BY <3>1, <3>2
  <2>3. QED
    BY <2>1, <2>2
<1>5. s = Cat(a, b)
  BY <1>3, <1>4, SeqEqual
<1>6. QED
  BY <1>1, <1>2, <1>5

LEMMA Neutral == \A a \in Seq(Rewrite!Tokens) : a \o <<>> = a /\ <<>> \o a = a
BY ConcatEmptySeq

(* What is written for the text from each position on.                     *)
IsRest(g, s, base) ==
    /\ g \in [1..Len(s) + 1 -> Seq(Rewrite!Tokens)]
    /\ g[Len(s) + 1] = <<>>
    /\ \A i \in 1..Len(s) : g[i] = Piece(s, base, i) \o g[After(s, i)]

(* Pieces that lead from position to position make up one text: the        *)
(* recursion of RewriteImageRefs has a solution.                           *)
LEMMA Chain ==
    ASSUME NEW n \in Nat, NEW piece \in [1..n -> Seq(Rewrite!Tokens)], NEW next \in [1..n -> Nat],
           \A i \in 1..n : next[i] \in i+1..n+1
    PROVE  \E g \in [1..n+1 -> Seq(Rewrite!Tokens)] :
               g[n+1] = <<>> /\ \A i \in 1..n : g[i] = piece[i] \o g[next[i]]
<1> DEFINE Solves(g, k) ==
               /\ g \in [k..n+1 -> Seq(Rewrite!Tokens)] /\ g[n+1] = <<>>
               /\ \A i \in k..n : g[i] = piece[i] \o g[next[i]]
           Solved == {k \in 1..n+1 : \E g : Solves(g, k)}
<1>1. n + 1 \in Solved
  <2> DEFINE g == [k \in n+1..n+1 |-> <<>>]
  <2>1. <<>> \in Seq(Rewrite!Tokens) /\ n + 1 \in n+1..n+1
    OBVIOUS
  <2>2. g \in [n+1..n+1 -> Seq(Rewrite!Tokens)] /\ g[n+1] = <<>>
    BY <2>1
  <2>3. \A i \in n+1..n : FALSE
    OBVIOUS
  <2> HIDE DEF g
  <2>4. Solves(g, n + 1)
    BY <2>2, <2>3
  <2> HIDE DEF Solves
  <2>5. QED
    BY <2>4
<1>2. PICK k \in Solved : \A l \in Solved : k <= l
  <2> HIDE DEF Solves
  <2>1. Solved \in SUBSET Nat /\ Solved # {}
    <3>1. \A l \in 1..n+1 : l \in Nat
      OBVIOUS
    <3>2. QED
      BY <1>1, <3>1, Zenon
  <2> HIDE DEF Solved
  <2>2. QED
    BY <2>1, LeastOf
<1>3. k \in 1..n+1 /\ \E g : Solves(g, k)
  <2> HIDE DEF Solves
  <2>1. QED
    OBVIOUS
<1> HIDE DEF Solved
<1>4. PICK g : Solves(g, k)
  <2> HIDE DEF Solves
  <2>1. QED
    BY <1>3
<1>5. CASE k = 1
  BY <1>4, <1>5
<1>6. CASE k # 1
  <2> DEFINE h == [i \in k-1..n+1 |-> IF i = k - 1 THEN piece[i] \o g[next[i]] ELSE g[i]]
  <2>1. k - 1 \in 1..n /\ k \in 1..n+1
    BY <1>3, <1>6
  <2>2. next[k-1] \in k..n+1 /\ piece[k-1] \in Seq(Rewrite!Tokens)
    <3>1. next[k-1] \in (k-1)+1..n+1
      BY <2>1
    <3>2. QED
      BY <2>1, <3>1
  <2>3. /\ g \in [k..n+1 -> Seq(Rewrite!Tokens)] /\ g[n+1] = <<>>
        /\ \A i \in k..n : g[i] = piece[i] \o g[next[i]]
    BY <1>4
  <2>4. piece[k-1] \o g[next[k-1]] \in Seq(Rewrite!Tokens)
    <3>1. g[next[k-1]] \in Seq(Rewrite!Tokens)
      BY <2>2, <2>3
    <3>2. QED
      BY <2>2, <3>1, ConcatProperties
  <2>5. h \in [k-1..n+1 -> Seq(Rewrite!Tokens)]
    <3>1. ASSUME NEW i \in k-1..n+1 PROVE h[i] \in Seq(Rewrite!Tokens)
      <4>1. CASE i = k - 1
        BY <2>4, <4>1
      <4>2. CASE i # k - 1
        <5>1. i \in k..n+1
          BY <2>1, <4>2
        <5>2. QED
          BY <2>3, <4>2, <5>1
      <4>3. QED
        BY <4>1, <4>2
    <3>2. QED
      BY <3>1
  <2>6. \A i \in k..n+1 : i \in k-1..n+1 /\ h[i] = g[i]
    BY <2>1
  <2>7. h[k-1] = piece[k-1] \o g[next[k-1]]
    <3>1. k - 1 \in k-1..n+1
      BY <2>1
    <3>2. QED
      BY <3>1
  <2> HIDE DEF h
  <2>8. h[n+1] = <<>>
    <3>1. n + 1 \in k..n+1
      BY <2>1
    <3>2. QED
      BY <2>3, <2>6, <3>1
  <2>9. ASSUME NEW i \in k-1..n PROVE h[i] = piece[i] \o h[next[i]]
    <3>1. CASE i = k - 1
      BY <2>2, <2>6, <2>7, <3>1
    <3>2. CASE i # k - 1
      <4>1. i \in k..n /\ i \in k..n+1 /\ i \in 1..n
        BY <2>1, <3>2
      <4>2. next[i] \in i+1..n+1
        BY <4>1
      <4>3. next[i] \in k..n+1
        BY <2>1, <4>1, <4>2
      <4>4. h[i] = g[i] /\ h[next[i]] = g[next[i]]
        BY <2>6, <4>1, <4>3
      <4>5. QED
        BY <2>3, <4>1, <4>4
    <3>3. QED
      BY <3>1, <3>2
  <2>10. Solves(h, k - 1)
    BY <2>5, <2>8, <2>9
  <2> HIDE DEF Solves
  <2>11. k - 1 \in Solved
    <3>1. k - 1 \in 1..n+1
      BY <2>1
    <3>2. QED
      BY <2>10, <3>1 DEF Solved
  <2>12. QED
    BY <1>2, <2>1, <2>11
<1>7. QED
  BY <1>5, <1>6

(* The end of a key is where a gap or the end of the text follows.         *)
LEMMA KeyEndFacts ==
    ASSUME NEW s \in Seq(Rewrite!Tokens), NEW j \in 1..Len(s), Rewrite!KeyAt(s, j)
    PROVE  /\ Rewrite!KeyEnd(s, j) \in j+1..Len(s)
           /\ Rewrite!NoGap(s, j, Rewrite!KeyEnd(s, j))
           /\ Rewrite!KeyEnd(s, j) < Len(s) => s[Rewrite!KeyEnd(s, j) + 1] = "gap"
<1> DEFINE Ends == {e \in j..Len(s) : e < Len(s) => s[e+1] = "gap"}
           P(e) == Rewrite!NoGap(s, j, e) /\ (e < Len(s) => s[e+1] = "gap")
<1>1. PICK e \in Ends : \A l \in Ends : e <= l
  <2>1. Ends \in SUBSET Nat /\ Len(s) \in Ends
    OBVIOUS
  <2> HIDE DEF Ends
  <2>2. QED
    BY <2>1, LeastOf
<1>2. ASSUME NEW k \in j..e PROVE s[k] # "gap"
  <2>1. CASE k = j
    BY <2>1 DEF Rewrite!KeyAt
  <2>2. CASE k # j /\ s[k] = "gap"
    <3>1. k - 1 \in Ends
      BY <2>2
    <3> HIDE DEF Ends
    <3>2. e <= k - 1
      BY <1>1, <3>1
    <3>3. e \in Int /\ k <= e /\ k \in Int
      BY DEF Ends
    <3>4. QED
      BY <3>2, <3>3
  <2>3. QED
    BY <2>1, <2>2, Zenon
<1> HIDE DEF Ends
<1>3. e \in j..Len(s) /\ P(e)
  BY <1>2 DEF Rewrite!NoGap, Ends
<1>4. Rewrite!KeyEnd(s, j) \in j..Len(s) /\ P(Rewrite!KeyEnd(s, j))
  <2> HIDE DEF P
  <2>1. (CHOOSE x \in j..Len(s) : P(x)) \in j..Len(s) /\ P(CHOOSE x \in j..Len(s) : P(x))
    BY <1>3
  <2>2. QED
    BY <2>1 DEF Rewrite!KeyEnd, P
<1>5. Rewrite!KeyEnd(s, j) # j
  BY <1>4 DEF Rewrite!KeyAt
<1>6. QED
  BY <1>4, <1>5

LEMMA KeyEndUnique ==
    ASSUME NEW s \in Seq(Rewrite!Tokens), NEW j \in 1..Len(s), Rewrite!KeyAt(s, j),
           NEW e \in j..Len(s), Rewrite!NoGap(s, j, e), e < Len(s) => s[e+1] = "gap"
    PROVE  Rewrite!KeyEnd(s, j) = e
<1> DEFINE k == Rewrite!KeyEnd(s, j)
<1>1. k \in j..Len(s) /\ Rewrite!NoGap(s, j, k) /\ (k < Len(s) => s[k+1] = "gap")
  BY KeyEndFacts
<1> HIDE DEF k
<1>2. ~(k < e) /\ ~(e < k)
  <2>1. CASE k < e
    <3>1. k + 1 \in j..e /\ k < Len(s)
      BY <1>1, <2>1
    <3>2. QED
      BY <1>1, <3>1 DEF Rewrite!NoGap
  <2>2. CASE e < k
    <3>1. e + 1 \in j..k /\ e < Len(s)
      BY <1>1, <2>2
    <3>2. QED
      BY <1>1, <3>1 DEF Rewrite!NoGap
  <2>3. QED
    BY <2>1, <2>2
<1>3. QED
  BY <1>1, <1>2 DEF k

LEMMA MatchFacts ==
    ASSUME NEW s \in Seq(Rewrite!Tokens), NEW i \in 1..Len(s), Rewrite!KeysFrom(s, i) # {}
    PROVE  /\ Match(s, i) \in i..Len(s) /\ Rewrite!KeyAt(s, Match(s, i))
           /\ Match(s, i) \in Rewrite!KeysFrom(s, i)
           /\ \A j \in Rewrite!KeysFrom(s, i) : Match(s, i) <= j
<1> DEFINE K == Rewrite!KeysFrom(s, i)
<1>1. K \in SUBSET Nat /\ K # {} /\ \A j \in K : j \in i..Len(s) /\ Rewrite!KeyAt(s, j)
  BY DEF Rewrite!KeysFrom
<1> HIDE DEF K
<1>2. \E m \in K : \A j \in K : m <= j
  BY <1>1, LeastOf
<1>3. Rewrite!FirstOf(K) \in K /\ \A j \in K : Rewrite!FirstOf(K) <= j
  BY <1>2 DEF Rewrite!FirstOf
<1>4. QED
  BY <1>1, <1>3 DEF Match, K

LEMMA PieceFacts ==
    ASSUME NEW s \in Seq(Rewrite!Tokens), NEW base \in Seq(Rewrite!Tokens), NEW i \in 1..Len(s)
    PROVE  Piece(s, base, i) \in Seq(Rewrite!Tokens) /\ After(s, i) \in i+1..Len(s)+1
<1>1. CASE Rewrite!KeysFrom(s, i) = {}
  BY <1>1 DEF Piece, After
<1>2. CASE Rewrite!KeysFrom(s, i) # {}
  <2> DEFINE j == Match(s, i)
             e == Rewrite!KeyEnd(s, j)
  <2>1. j \in i..Len(s) /\ Rewrite!KeyAt(s, j)
    BY <1>2, MatchFacts
  <2>2. j \in 1..Len(s)
    BY <2>1
  <2> HIDE DEF j
  <2>3. e \in j+1..Len(s)
    BY <2>1, <2>2, KeyEndFacts
  <2> HIDE DEF e
  <2>4. SubSeq(s, j, e) \in Seq(Rewrite!Tokens)
    <3>1. \A k \in j..e : s[k] \in Rewrite!Tokens
      BY <2>2, <2>3
    <3>2. QED
      BY <2>2, <2>3, <3>1, SubSeqProperties
  <2>5. Piece(s, base, i) = base \o <<"/">> \o SubSeq(s, j, e)
    BY <1>2 DEF Piece, j, e, Rewrite!Key
  <2>6. <<"/">> \in Seq(Rewrite!Tokens)
    BY DEF Rewrite!Tokens
  <2>7. base \o <<"/">> \in Seq(Rewrite!Tokens)
    BY <2>6, ConcatProperties
  <2>8. Piece(s, base, i) \in Seq(Rewrite!Tokens)
    BY <2>4, <2>5, <2>7, ConcatProperties
  <2>9. After(s, i) = e + 1
    BY <1>2 DEF After, j, e
  <2>10. QED
    BY <2>1, <2>2, <2>3, <2>8, <2>9
<1>3. QED
  BY <1>1, <1>2

LEMMA RestExists ==
    ASSUME NEW s \in Seq(Rewrite!Tokens), NEW base \in Seq(Rewrite!Tokens)
    PROVE  \E g : IsRest(g, s, base) /\ Rewrite!RewriteImageRefs(s, base) = g[1]
<1> DEFINE n == Len(s)
           Body(g) ==
               [i \in 1..Len(s) + 1 |->
                   IF i > Len(s) THEN <<>>
                   ELSE IF Rewrite!KeysFrom(s, i) = {} THEN <<s[i]>> \o g[i + 1]
                   ELSE LET j == Rewrite!FirstOf(Rewrite!KeysFrom(s, i))
                        IN base \o <<"/">> \o Rewrite!Key(s, j) \o g[Rewrite!KeyEnd(s, j) + 1]]
           rest == CHOOSE g : g = Body(g)
<1>1. n \in Nat
  OBVIOUS
<1>2. PICK g \in [1..n+1 -> Seq(Rewrite!Tokens)] :
          g[n+1] = <<>> /\ \A i \in 1..n : g[i] = Piece(s, base, i) \o g[After(s, i)]
  <2> DEFINE piece == [i \in 1..n |-> Piece(s, base, i)]
             next  == [i \in 1..n |-> After(s, i)]
  <2>1. \A i \in 1..n : piece[i] = Piece(s, base, i) /\ next[i] = After(s, i)
    OBVIOUS
  <2>2. \A i \in 1..n : Piece(s, base, i) \in Seq(Rewrite!Tokens) /\ After(s, i) \in i+1..n+1
    BY PieceFacts
  <2>3. piece \in [1..n -> Seq(Rewrite!Tokens)]
    BY <2>2
  <2>4. next \in [1..n -> Nat] /\ \A i \in 1..n : next[i] \in i+1..n+1
    BY <1>1, <2>2
  <2> HIDE DEF piece, next, n
  <2>5. \E g \in [1..n+1 -> Seq(Rewrite!Tokens)] :
            g[n+1] = <<>> /\ \A i \in 1..n : g[i] = piece[i] \o g[next[i]]
    BY <1>1, <2>3, <2>4, Chain
  <2>6. QED
    BY <2>1, <2>5
<1>3. g = Body(g)
  <2> DEFINE E(i) == IF i > Len(s) THEN <<>>
                     ELSE IF Rewrite!KeysFrom(s, i) = {} THEN <<s[i]>> \o g[i + 1]
                     ELSE LET j == Rewrite!FirstOf(Rewrite!KeysFrom(s, i))
                          IN base \o <<"/">> \o Rewrite!Key(s, j) \o g[Rewrite!KeyEnd(s, j) + 1]
  <2>1. ASSUME NEW i \in 1..n+1 PROVE g[i] = E(i)
    <3>1. CASE i = n + 1
      BY <1>2, <3>1
    <3>2. CASE i # n + 1
      <4>1. i \in 1..n /\ ~(i > Len(s))
        BY <3>2
      <4>2. g[i] = Piece(s, base, i) \o g[After(s, i)]
        BY <1>2, <4>1
      <4>3. CASE Rewrite!KeysFrom(s, i) = {}
        BY <4>1, <4>2, <4>3 DEF Piece, After
      <4>4. CASE Rewrite!KeysFrom(s, i) # {}
        BY <4>1, <4>2, <4>4 DEF Piece, After, Match
      <4>5. QED
        BY <4>3, <4>4
    <3>3. QED
      BY <3>1, <3>2
  <2> HIDE DEF E
  <2>2. g = [i \in 1..n+1 |-> E(i)]
    BY <1>2, <2>1
  <2>3. QED
    BY <2>2, Zenon DEF E
<1>4. rest = Body(rest)
  <2> HIDE DEF Body
  <2>1. QED
    BY <1>3
<1>5. Rewrite!RewriteImageRefs(s, base) = rest[1]
  BY DEF Rewrite!RewriteImageRefs
<1> HIDE DEF rest
<1>6. /\ rest[n+1] = <<>> /\ rest = [i \in 1..n+1 |-> rest[i]]
      /\ \A i \in 1..n : rest[i] = Piece(s, base, i) \o rest[After(s, i)]
  <2>1. rest = [i \in 1..n+1 |-> rest[i]]
    BY <1>4
  <2>2. \A i \in 1..n+1 :
            rest[i] = IF i > Len(s) THEN <<>>
                      ELSE IF Rewrite!KeysFrom(s, i) = {} THEN <<s[i]>> \o rest[i + 1]
                      ELSE LET j == Rewrite!FirstOf(Rewrite!KeysFrom(s, i))
                           IN base \o <<"/">> \o Rewrite!Key(s, j) \o rest[Rewrite!KeyEnd(s, j) + 1]
    BY <1>4, Zenon
  <2> HIDE DEF Body
  <2>3. rest[n+1] = <<>>
    <3>1. n + 1 \in 1..n+1 /\ n + 1 > Len(s)
      BY <1>1
    <3>2. QED
      BY <2>2, <3>1, Zenon
  <2>4. ASSUME NEW i \in 1..n PROVE rest[i] = Piece(s, base, i) \o rest[After(s, i)]
    <3>1. i \in 1..n+1 /\ ~(i > Len(s))
      OBVIOUS
    <3>2. CASE Rewrite!KeysFrom(s, i) = {}
      BY <2>2, <3>1, <3>2, Zenon DEF Piece, After
    <3>3. CASE Rewrite!KeysFrom(s, i) # {}
      BY <2>2, <3>1, <3>3, Zenon DEF Piece, After, Match
    <3>4. QED
      BY <3>2, <3>3
  <2>5. QED
    BY <2>1, <2>3, <2>4
<1> HIDE DEF Body
<1>7. ASSUME NEW i \in 1..n+1 PROVE rest[i] \in Seq(Rewrite!Tokens)
  <2> DEFINE Bad == {k \in 1..n+1 : rest[k] \notin Seq(Rewrite!Tokens)}
  <2>1. SUFFICES ASSUME Bad # {} PROVE FALSE
    OBVIOUS
  <2>2. PICK m \in Bad : \A l \in Bad : l <= m
    <3>1. n + 1 \in Nat /\ Bad \in SUBSET (0..n+1)
      BY <1>1
    <3> HIDE DEF Bad, n
    <3>2. QED
      BY <2>1, <3>1, GreatestOf
  <2>3. m # n + 1
    <3>1. rest[m] \notin Seq(Rewrite!Tokens) /\ <<>> \in Seq(Rewrite!Tokens)
      OBVIOUS
    <3>2. QED
      BY <1>6, <3>1, Zenon
  <2>4. m \in 1..n /\ m \in 1..Len(s)
    BY <2>3
  <2>5. Piece(s, base, m) \in Seq(Rewrite!Tokens) /\ After(s, m) \in m+1..n+1
    BY <2>4, PieceFacts
  <2>6. After(s, m) \in 1..n+1 /\ ~(After(s, m) <= m)
    BY <2>4, <2>5
  <2>7. rest[After(s, m)] \in Seq(Rewrite!Tokens)
    BY <2>2, <2>6
  <2>8. rest[m] \in Seq(Rewrite!Tokens)
    BY <1>6, <2>4, <2>5, <2>7, Joined, Zenon
  <2>9. QED
    BY <2>8
<1>8. rest \in [1..n+1 -> Seq(Rewrite!Tokens)]
  BY <1>6, <1>7
<1>9. IsRest(rest, s, base)
  BY <1>6, <1>8 DEF IsRest
<1>10. QED
  BY <1>5, <1>9

(* A part of a text that begins at any place and ends at a gap, or with    *)
(* the text, is matched as if it stood alone.                              *)
Window(s, t, m) ==
    /\ m + Len(t) <= Len(s)
    /\ \A j \in 1..Len(t) : s[m + j] = t[j]
    /\ m + Len(t) < Len(s) => s[m + Len(t) + 1] = "gap"

LEMMA WindowGaps ==
    ASSUME NEW s, NEW t \in Seq(Rewrite!Tokens), NEW m \in Nat, Window(s, t, m),
           NEW l \in 1..Len(t), NEW j \in l..Len(t)
    PROVE  Rewrite!NoGap(s, m + l, m + j) <=> Rewrite!NoGap(t, l, j)
<1>1. ASSUME Rewrite!NoGap(s, m + l, m + j), NEW k \in l..j PROVE t[k] # "gap"
  <2>1. k \in 1..Len(t) /\ m + k \in m+l..m+j
    OBVIOUS
  <2>2. QED
    BY <1>1, <2>1 DEF Rewrite!NoGap, Window
<1>2. ASSUME Rewrite!NoGap(t, l, j), NEW k \in m+l..m+j PROVE s[k] # "gap"
  <2>1. k - m \in l..j /\ k - m \in 1..Len(t) /\ m + (k - m) = k
    OBVIOUS
  <2>2. QED
    BY <1>2, <2>1 DEF Rewrite!NoGap, Window
<1>3. QED
  BY <1>1, <1>2 DEF Rewrite!NoGap

LEMMA WindowKeyAt ==
    ASSUME NEW s \in Seq(Rewrite!Tokens), NEW t \in Seq(Rewrite!Tokens), NEW m \in Nat,
           Window(s, t, m), NEW j \in 1..Len(t)
    PROVE  Rewrite!KeyAt(s, m + j) <=> Rewrite!KeyAt(t, j)
<1> USE DEF Window
<1>1. CASE j < Len(t)
  <2>1. j + 1 \in 1..Len(t) /\ m + j < Len(s) /\ m + (j + 1) = (m + j) + 1
    BY <1>1
  <2>2. s[m + j] = t[j] /\ s[(m + j) + 1] = t[j + 1]
    BY <2>1
  <2>3. QED
    BY <1>1, <2>1, <2>2 DEF Rewrite!KeyAt
<1>2. CASE j = Len(t)
  BY <1>2 DEF Rewrite!KeyAt
<1>3. QED
  BY <1>1, <1>2

LEMMA WindowKeys ==
    ASSUME NEW s \in Seq(Rewrite!Tokens), NEW t \in Seq(Rewrite!Tokens), NEW m \in Nat,
           Window(s, t, m), NEW i \in 1..Len(t)
    PROVE  /\ \A j \in 1..Len(t) :
                  m + j \in Rewrite!KeysFrom(s, m + i) <=> j \in Rewrite!KeysFrom(t, i)
           /\ \A k \in Rewrite!KeysFrom(s, m + i) : k - m \in 1..Len(t)
<1> USE DEF Window
<1>3. ASSUME NEW j \in i..Len(t)
      PROVE  Rewrite!CanLead(s, m + i, m + j) <=> Rewrite!CanLead(t, i, j)
  <2>1. s[m + i] = t[i] /\ (m + j = m + i <=> j = i) /\ (m + j = (m + i) + 1 <=> j = i + 1)
    OBVIOUS
  <2>2. Rewrite!NoGap(s, m + i, m + j) <=> Rewrite!NoGap(t, i, j)
    BY WindowGaps
  <2>3. QED
    BY <2>1, <2>2 DEF Rewrite!CanLead
<1>4. ASSUME NEW j \in 1..Len(t)
      PROVE  m + j \in Rewrite!KeysFrom(s, m + i) <=> j \in Rewrite!KeysFrom(t, i)
  <2>1. m + j \in m+i..Len(s) <=> j \in i..Len(t)
    OBVIOUS
  <2>2. Rewrite!KeyAt(s, m + j) <=> Rewrite!KeyAt(t, j)
    BY WindowKeyAt
  <2>3. j \in i..Len(t) => (Rewrite!CanLead(s, m + i, m + j) <=> Rewrite!CanLead(t, i, j))
    BY <1>3
  <2> HIDE DEF Window
  <2>4. QED
    BY <2>1, <2>2, <2>3 DEF Rewrite!KeysFrom
<1>5. ASSUME NEW k \in Rewrite!KeysFrom(s, m + i) PROVE k - m \in 1..Len(t)
  <2>1. k \in m+i..Len(s) /\ s[k] = "key" /\ Rewrite!CanLead(s, m + i, k)
    BY DEF Rewrite!KeysFrom, Rewrite!KeyAt
  <2>2. CASE k > m + Len(t)
    <3>1. k # m + i /\ m + Len(t) < Len(s) /\ s[m + Len(t) + 1] = "gap"
      BY <2>1, <2>2
    <3>2. k # m + Len(t) + 1
      BY <2>1, <3>1
    <3>3. k # m + i + 1
      BY <2>1, <2>2, <3>2
    <3>4. m + Len(t) + 1 \in m+i..k
      BY <2>1, <2>2
    <3>5. ~Rewrite!NoGap(s, m + i, k)
      BY <3>1, <3>4 DEF Rewrite!NoGap
    <3>6. QED
      BY <2>1, <3>1, <3>3, <3>5 DEF Rewrite!CanLead
  <2>3. CASE ~(k > m + Len(t))
    BY <2>1, <2>3
  <2>4. QED
    BY <2>2, <2>3
<1>6. QED
  BY <1>4, <1>5

LEMMA SubSeqShift ==
    ASSUME NEW s \in Seq(Rewrite!Tokens), NEW t \in Seq(Rewrite!Tokens), NEW m \in Nat,
           Window(s, t, m), NEW i \in 1..Len(t), NEW e \in i..Len(t)
    PROVE  SubSeq(s, m + i, m + e) = SubSeq(t, i, e)
<1> DEFINE l == e - i + 1
           a == SubSeq(s, m + i, m + e)
           b == SubSeq(t, i, e)
<1>1. \A k \in i..e : t[k] \in Rewrite!Tokens
  OBVIOUS
<1>2. \A k \in m+i..m+e : s[k] \in Rewrite!Tokens
  BY DEF Window
<1>3. l = (m + e) - (m + i) + 1 /\ l \in Nat /\ i <= e /\ m + i <= m + e
  OBVIOUS
<1>4. /\ b \in Seq(Rewrite!Tokens) /\ Len(b) = l
      /\ \A k \in 1..l : b[k] = t[i + k - 1]
  BY <1>1, <1>3, SubSeqProperties
<1>5. /\ a \in Seq(Rewrite!Tokens) /\ Len(a) = l
      /\ \A k \in 1..l : a[k] = s[(m + i) + k - 1]
  BY <1>2, <1>3, SubSeqProperties
<1>6. ASSUME NEW k \in 1..l PROVE a[k] = b[k]
  <2>1. i + k - 1 \in 1..Len(t) /\ (m + i) + k - 1 = m + (i + k - 1)
    OBVIOUS
  <2>2. s[m + (i + k - 1)] = t[i + k - 1]
    BY <2>1 DEF Window
  <2>3. QED
    BY <1>4, <1>5, <2>1, <2>2
<1> HIDE DEF a, b
<1>7. a = b
  BY <1>4, <1>5, <1>6, SeqEqual
<1>8. QED
  BY <1>7 DEF a, b

LEMMA WindowPiece ==
    ASSUME NEW s \in Seq(Rewrite!Tokens), NEW t \in Seq(Rewrite!Tokens), NEW m \in Nat,
           Window(s, t, m), NEW base, NEW i \in 1..Len(t)
    PROVE  Piece(s, base, m + i) = Piece(t, base, i) /\ After(s, m + i) = m + After(t, i)
<1> DEFINE K == Rewrite!KeysFrom(s, m + i)
           L == Rewrite!KeysFrom(t, i)
<1>1. /\ \A j \in 1..Len(t) : m + j \in K <=> j \in L
      /\ \A k \in K : k - m \in 1..Len(t)
      /\ \A j \in 1..Len(t) : Rewrite!KeyAt(s, m + j) <=> Rewrite!KeyAt(t, j)
  BY WindowKeyAt, WindowKeys
<1>2. L \subseteq 1..Len(t) /\ K \subseteq Int
  BY DEF Rewrite!KeysFrom
<1>3. m + i \in 1..Len(s) /\ s[m + i] = t[i] /\ m + Len(t) <= Len(s)
  BY DEF Window
<1> HIDE DEF K, L
<1>4. ASSUME NEW k \in K PROVE k - m \in L
  <2>1. k - m \in 1..Len(t) /\ m + (k - m) = k
    BY <1>1, <1>2
  <2>2. QED
    BY <1>1, <2>1
<1>5. CASE L = {}
  <2>1. K = {}
    BY <1>4, <1>5
  <2>2. QED
    BY <1>3, <1>5, <2>1 DEF Piece, After, K, L
<1>6. CASE L # {}
  <2> DEFINE j == Match(t, i)
             e == Rewrite!KeyEnd(t, j)
  <2>1. j \in i..Len(t) /\ j \in L /\ Rewrite!KeyAt(t, j) /\ \A l \in L : j <= l
    BY <1>6, MatchFacts DEF L
  <2>2. j \in 1..Len(t)
    BY <2>1
  <2> HIDE DEF j
  <2>3. m + j \in K /\ \A k \in K : m + j <= k
    <3>1. m + j \in K
      BY <1>1, <2>1, <2>2
    <3>2. ASSUME NEW k \in K PROVE m + j <= k
      <4>1. j <= k - m
        BY <1>4, <2>1
      <4>2. QED
        BY <1>2, <2>2, <4>1
    <3>3. QED
      BY <3>1, <3>2
  <2>4. Match(s, m + i) = m + j
    <3>1. K # {}
      BY <2>3
    <3>2. Match(s, m + i) \in K /\ \A k \in K : Match(s, m + i) <= k
      BY <1>3, <3>1, MatchFacts DEF K
    <3>3. Match(s, m + i) <= m + j /\ m + j <= Match(s, m + i)
      BY <2>3, <3>2
    <3>4. Match(s, m + i) \in Int /\ m + j \in Int
      BY <1>2, <2>3, <3>2
    <3>5. QED
      BY <3>3, <3>4
  <2>5. /\ e \in j+1..Len(t) /\ Rewrite!NoGap(t, j, e)
        /\ e < Len(t) => t[e + 1] = "gap"
    BY <2>1, <2>2, KeyEndFacts
  <2> HIDE DEF e
  <2>6. Rewrite!KeyEnd(s, m + j) = m + e
    <3>1. m + j \in 1..Len(s) /\ Rewrite!KeyAt(s, m + j)
      BY <1>1, <1>3, <2>1, <2>2
    <3>2. m + e \in m+j..Len(s)
      BY <1>3, <2>2, <2>5
    <3>3. ASSUME NEW k \in m+j..m+e PROVE s[k] # "gap"
      <4>1. k - m \in j..e /\ k - m \in 1..Len(t) /\ m + (k - m) = k
        BY <2>2, <2>5
      <4>2. s[m + (k - m)] = t[k - m]
        BY <4>1 DEF Window
      <4>3. QED
        BY <2>5, <4>1, <4>2 DEF Rewrite!NoGap
    <3>4. m + e < Len(s) => s[(m + e) + 1] = "gap"
      <4>1. CASE e = Len(t)
        BY <4>1 DEF Window
      <4>2. CASE e # Len(t)
        <5>1. e + 1 \in 1..Len(t) /\ e < Len(t) /\ (m + e) + 1 = m + (e + 1)
          BY <2>2, <2>5, <4>2
        <5>2. s[m + (e + 1)] = t[e + 1]
          BY <5>1 DEF Window
        <5>3. QED
          BY <2>5, <5>1, <5>2
      <4>3. QED
        BY <4>1, <4>2
    <3>5. Rewrite!NoGap(s, m + j, m + e)
      BY <3>3 DEF Rewrite!NoGap
    <3>6. QED
      BY <3>1, <3>2, <3>4, <3>5, KeyEndUnique
  <2>7. SubSeq(s, m + j, m + e) = SubSeq(t, j, e)
    BY <2>2, <2>5, SubSeqShift
  <2>8. Rewrite!Key(s, Match(s, m + i)) = Rewrite!Key(t, j)
    BY <2>4, <2>6, <2>7 DEF Rewrite!Key, e
  <2>9. K # {}
    BY <2>3
  <2>10. Piece(s, base, m + i) = Piece(t, base, i)
    BY <1>6, <2>8, <2>9 DEF Piece, K, L, j
  <2>11. After(s, m + i) = (m + e) + 1 /\ After(t, i) = e + 1
    BY <1>6, <2>4, <2>6, <2>9 DEF After, K, L, j, e
  <2>12. QED
    BY <2>2, <2>5, <2>10, <2>11
<1>7. QED
  BY <1>5, <1>6

(* So what is written for it is written for the text alone, and then what  *)
(* follows.                                                                *)
Follows(g, h, i, k) == g[i] = h[1] \o g[k]

LEMMA WindowRest ==
    ASSUME NEW s \in Seq(Rewrite!Tokens), NEW t \in Seq(Rewrite!Tokens), NEW m \in Nat,
           Window(s, t, m), NEW base \in Seq(Rewrite!Tokens),
           NEW g, IsRest(g, s, base), NEW h, IsRest(h, t, base)
    PROVE  Follows(g, h, m + 1, m + Len(t) + 1)
<1> DEFINE n == Len(t)
           r == g[m + n + 1]
           Bad == {i \in 1..n+1 : g[m + i] # h[i] \o r}
<1>1. n \in Nat /\ m + n + 1 \in 1..Len(s)+1 /\ m + n <= Len(s)
  BY DEF Window
<1>2. /\ r \in Seq(Rewrite!Tokens) /\ h \in [1..n+1 -> Seq(Rewrite!Tokens)] /\ h[n+1] = <<>>
      /\ \A i \in 1..n : h[i] = Piece(t, base, i) \o h[After(t, i)]
      /\ \A i \in 1..Len(s) : g[i] = Piece(s, base, i) \o g[After(s, i)]
  BY <1>1 DEF IsRest
<1> HIDE DEF r
<1>3. SUFFICES ASSUME Bad # {} PROVE FALSE
  <2>1. 1 \in 1..n+1
    BY <1>1
  <2>2. QED
    BY <2>1 DEF r, Follows
<1>4. PICK i \in Bad : \A l \in Bad : l <= i
  <2>1. n + 1 \in Nat /\ Bad \in SUBSET (0..n+1)
    BY <1>1
  <2> HIDE DEF Bad, n
  <2>2. QED
    BY <1>3, <2>1, GreatestOf
<1>5. i \in 1..n+1 /\ g[m + i] # h[i] \o r
  OBVIOUS
<1>6. \A l \in 1..n+1 : l > i => g[m + l] = h[l] \o r
  BY <1>4, <1>5
<1> HIDE DEF Bad
<1>7. CASE i = n + 1
  <2>1. <<>> \o r = r /\ m + i = m + n + 1
    BY <1>1, <1>2, <1>7, ConcatEmptySeq
  <2>2. QED
    BY <1>2, <1>5, <1>7, <2>1 DEF r
<1>8. CASE i # n + 1
  <2>1. i \in 1..n /\ m + i \in 1..Len(s) /\ i \in 1..Len(t)
    BY <1>1, <1>5, <1>8
  <2> DEFINE p == Piece(t, base, i)
             k == After(t, i)
  <2>2. p \in Seq(Rewrite!Tokens) /\ k \in i+1..n+1
    BY <2>1, PieceFacts
  <2>3. Piece(s, base, m + i) = p /\ After(s, m + i) = m + k
    BY <2>1, WindowPiece
  <2>4. g[m + i] = p \o g[m + k] /\ h[i] = p \o h[k]
    BY <1>2, <2>1, <2>3
  <2> HIDE DEF p, k
  <2>5. k \in 1..n+1 /\ k > i
    BY <2>1, <2>2
  <2>6. g[m + k] = h[k] \o r /\ h[k] \in Seq(Rewrite!Tokens)
    BY <1>2, <1>6, <2>5
  <2>7. p \o (h[k] \o r) = (p \o h[k]) \o r
    BY <1>2, <2>2, <2>6, Regrouped, Zenon
  <2>8. QED
    BY <1>5, <2>4, <2>6, <2>7
<1>9. QED
  BY <1>7, <1>8

(* Two strings with a gap between them are rewritten one by one.           *)
LEMMA RewriteTyped ==
    ASSUME NEW s \in Seq(Rewrite!Tokens), NEW base \in Seq(Rewrite!Tokens)
    PROVE  Rewrite!RewriteImageRefs(s, base) \in Seq(Rewrite!Tokens)
<1>1. PICK g : IsRest(g, s, base) /\ Rewrite!RewriteImageRefs(s, base) = g[1]
  BY RestExists
<1>2. 1 \in 1..Len(s)+1
  OBVIOUS
<1>3. QED
  BY <1>1, <1>2 DEF IsRest

LEMMA RewriteEmpty ==
    ASSUME NEW base \in Seq(Rewrite!Tokens)
    PROVE  Rewrite!RewriteImageRefs(<<>>, base) = <<>>
<1>1. <<>> \in Seq(Rewrite!Tokens) /\ Len(<<>>) + 1 = 1
  OBVIOUS
<1>2. PICK g : IsRest(g, <<>>, base) /\ Rewrite!RewriteImageRefs(<<>>, base) = g[1]
  BY <1>1, RestExists
<1>3. QED
  BY <1>1, <1>2 DEF IsRest

LEMMA RewriteCopies ==
    ASSUME NEW s \in Seq(Rewrite!Tokens), NEW t \in Seq(Rewrite!Tokens),
           NEW base \in Seq(Rewrite!Tokens), Window(s, t, 1), Len(s) = Len(t) + 1,
           Rewrite!KeysFrom(s, 1) = {}, NEW x, x = <<s[1]>>
    PROVE  Rewrite!RewriteImageRefs(s, base) = Cat(x, Rewrite!RewriteImageRefs(t, base))
<1>1. PICK g : IsRest(g, s, base) /\ Rewrite!RewriteImageRefs(s, base) = g[1]
  BY RestExists
<1>2. PICK h : IsRest(h, t, base) /\ Rewrite!RewriteImageRefs(t, base) = h[1]
  BY RestExists
<1>3. g[1 + 1] = h[1] \o g[1 + Len(t) + 1]
  <2>1. 1 \in Nat
    OBVIOUS
  <2>2. Follows(g, h, 1 + 1, 1 + Len(t) + 1)
    BY <1>1, <1>2, <2>1, WindowRest
  <2>3. QED
    BY <2>2 DEF Follows
<1>4. g[1 + Len(t) + 1] = <<>> /\ h[1] \in Seq(Rewrite!Tokens)
  <2>1. 1 + Len(t) + 1 = Len(s) + 1 /\ 1 \in 1..Len(t)+1
    OBVIOUS
  <2>2. QED
    BY <1>1, <1>2, <2>1 DEF IsRest
<1>5. g[2] = h[1]
  BY <1>3, <1>4, Neutral
<1>6. g[1] = <<s[1]>> \o g[2]
  <2>1. 1 \in 1..Len(s) /\ Piece(s, base, 1) = <<s[1]>> /\ After(s, 1) = 2
    BY DEF Piece, After
  <2>2. g[1] = Piece(s, base, 1) \o g[After(s, 1)]
    BY <1>1, <2>1 DEF IsRest
  <2>3. QED
    BY <2>1, <2>2
<1>7. QED
  BY <1>1, <1>2, <1>5, <1>6 DEF Cat

LEMMA RewriteMatches ==
    ASSUME NEW s \in Seq(Rewrite!Tokens), NEW base \in Seq(Rewrite!Tokens), s # <<>>,
           Rewrite!KeysFrom(s, 1) # {}, Rewrite!KeyEnd(s, Match(s, 1)) = Len(s)
    PROVE  Rewrite!RewriteImageRefs(s, base)
               = Cat(Cat(base, <<"/">>), Rewrite!Key(s, Match(s, 1)))
<1>1. PICK g : IsRest(g, s, base) /\ Rewrite!RewriteImageRefs(s, base) = g[1]
  BY RestExists
<1>2. 1 \in 1..Len(s) /\ After(s, 1) = Len(s) + 1
  BY DEF After
<1>3. g[1] = Piece(s, base, 1) \o <<>> /\ Piece(s, base, 1) \in Seq(Rewrite!Tokens)
  BY <1>1, <1>2, PieceFacts DEF IsRest
<1>4. QED
  BY <1>1, <1>3, Neutral DEF Piece, Cat

LEMMA RewriteSplits ==
    ASSUME NEW a \in Seq(Rewrite!Tokens), NEW b \in Seq(Rewrite!Tokens),
           NEW base \in Seq(Rewrite!Tokens)
    PROVE  Rewrite!RewriteImageRefs(a \o <<"gap">> \o b, base)
               = Rewrite!RewriteImageRefs(a, base) \o <<"gap">>
                     \o Rewrite!RewriteImageRefs(b, base)
<1> DEFINE s == a \o <<"gap">> \o b
           t == <<"gap">> \o b
<1>1. /\ t \in Seq(Rewrite!Tokens) /\ Len(t) = Len(b) + 1 /\ t[1] = "gap"
      /\ <<"gap">> \in Seq(Rewrite!Tokens)
  BY DEF Rewrite!Tokens
<1>2. s = a \o t
  BY <1>1, Regrouped
<1> HIDE DEF s, t
<1>3. /\ s \in Seq(Rewrite!Tokens) /\ Len(s) = Len(a) + Len(t)
      /\ \A j \in 1..Len(a) : s[j] = a[j]
      /\ \A j \in 1..Len(t) : s[Len(a) + j] = t[j]
  <2>1. a \in Seq(Rewrite!Tokens) /\ t \in Seq(Rewrite!Tokens)
    BY <1>1
  <2>2. a \o t \in Seq(Rewrite!Tokens)
    BY <2>1, Joined
  <2>3. Len(a \o t) = Len(a) + Len(t)
    BY <2>1
  <2>4. \A j \in 1..Len(a) : (a \o t)[j] = a[j]
    BY <2>1
  <2>5. \A j \in 1..Len(t) : (a \o t)[Len(a) + j] = t[j]
    BY <2>1
  <2>6. QED
    BY <1>2, <2>2, <2>3, <2>4, <2>5
<1>4. PICK g : IsRest(g, s, base) /\ Rewrite!RewriteImageRefs(s, base) = g[1]
  BY <1>3, RestExists
<1>5. PICK h : IsRest(h, a, base) /\ Rewrite!RewriteImageRefs(a, base) = h[1]
  BY RestExists
<1>6. PICK k : IsRest(k, t, base) /\ Rewrite!RewriteImageRefs(t, base) = k[1]
  BY <1>1, RestExists
<1>7. g[1] = h[1] \o g[Len(a) + 1]
  <2>1. Window(s, a, 0)
    <3>1. 0 + Len(a) < Len(s) /\ s[0 + Len(a) + 1] = "gap"
      BY <1>1, <1>3
    <3>2. QED
      BY <1>3, <3>1 DEF Window
  <2>2. 0 + Len(a) + 1 = Len(a) + 1 /\ 0 + 1 = 1 /\ 0 \in Nat
    OBVIOUS
  <2>3. Follows(g, h, 0 + 1, 0 + Len(a) + 1)
    BY <1>3, <1>4, <1>5, <2>1, <2>2, WindowRest
  <2>4. QED
    BY <2>2, <2>3 DEF Follows
<1>8. g[Len(a) + 1] = k[1]
  <2>1. Window(s, t, Len(a))
    BY <1>3 DEF Window
  <2>2. g[Len(a) + 1] = k[1] \o g[Len(a) + Len(t) + 1]
    <3>1. Len(a) \in Nat
      OBVIOUS
    <3>2. Follows(g, k, Len(a) + 1, Len(a) + Len(t) + 1)
      BY <1>1, <1>3, <1>4, <1>6, <2>1, <3>1, WindowRest
    <3>3. QED
      BY <3>2 DEF Follows
  <2>3. g[Len(a) + Len(t) + 1] = <<>>
    BY <1>3, <1>4 DEF IsRest
  <2>4. k[1] \in Seq(Rewrite!Tokens)
    BY <1>1, <1>6, RewriteTyped
  <2>5. QED
    BY <2>2, <2>3, <2>4, Neutral
<1>9. k[1] = <<"gap">> \o Rewrite!RewriteImageRefs(b, base)
  <2>1. Rewrite!KeysFrom(t, 1) = {}
    <3>1. ASSUME NEW j \in Rewrite!KeysFrom(t, 1) PROVE FALSE
      <4>1. j \in 1..Len(t) /\ t[j] = "key" /\ Rewrite!CanLead(t, 1, j)
        BY DEF Rewrite!KeysFrom, Rewrite!KeyAt
      <4>2. QED
        BY <1>1, <4>1 DEF Rewrite!CanLead, Rewrite!Schemes
    <3>2. QED
      BY <3>1
  <2>2. Window(t, b, 1)
    <3>1. \A j \in 1..Len(b) : t[1 + j] = b[j]
      BY DEF t
    <3>2. QED
      BY <1>1, <3>1 DEF Window
  <2>3. <<"gap">> = <<t[1]>> /\ Window(t, b, 1) /\ Len(t) = Len(b) + 1
    BY <1>1, <2>2
  <2>4. k[1] = Cat(<<"gap">>, Rewrite!RewriteImageRefs(b, base))
    BY <1>1, <1>6, <2>1, <2>3, RewriteCopies
  <2>5. QED
    BY <2>4 DEF Cat
<1>10. Rewrite!RewriteImageRefs(s, base) = h[1] \o (<<"gap">> \o Rewrite!RewriteImageRefs(b, base))
  BY <1>4, <1>7, <1>8, <1>9
<1>11. h[1] \in Seq(Rewrite!Tokens) /\ Rewrite!RewriteImageRefs(b, base) \in Seq(Rewrite!Tokens)
  BY <1>5, RewriteTyped
<1>12. h[1] \o (<<"gap">> \o Rewrite!RewriteImageRefs(b, base))
           = h[1] \o <<"gap">> \o Rewrite!RewriteImageRefs(b, base)
  <2> DEFINE p == h[1]
             q == <<"gap">>
             r == Rewrite!RewriteImageRefs(b, base)
  <2>1. p \in Seq(Rewrite!Tokens) /\ q \in Seq(Rewrite!Tokens) /\ r \in Seq(Rewrite!Tokens)
    BY <1>1, <1>11
  <2> HIDE DEF p, q, r
  <2>2. (p \o q) \o r = p \o (q \o r)
    BY <2>1, Regrouped
  <2>3. QED
    BY <2>2 DEF p, q, r
<1>13. QED
  BY <1>5, <1>10, <1>12 DEF s

(* The same, of a text that Cat puts together.                             *)
Three(a, b) == Cat(a, Cat(<<"gap">>, b))

LEMMA RewriteThree ==
    ASSUME NEW a \in Seq(Rewrite!Tokens), NEW b \in Seq(Rewrite!Tokens),
           NEW base \in Seq(Rewrite!Tokens)
    PROVE  Rewrite!RewriteImageRefs(Three(a, b), base)
               = Three(Rewrite!RewriteImageRefs(a, base), Rewrite!RewriteImageRefs(b, base))
<1> DEFINE x == Rewrite!RewriteImageRefs(a, base)
           y == Rewrite!RewriteImageRefs(b, base)
           q == <<"gap">>
<1>1. x \in Seq(Rewrite!Tokens) /\ y \in Seq(Rewrite!Tokens)
  BY RewriteTyped
<1>2. q \in Seq(Rewrite!Tokens)
  BY DEF Rewrite!Tokens
<1>3. Rewrite!RewriteImageRefs(a \o q \o b, base) = x \o q \o y
  BY RewriteSplits
<1> HIDE DEF x, y, q
<1>4. Cat(a, Cat(q, b)) = a \o q \o b
  <2>1. (a \o q) \o b = a \o (q \o b)
    BY <1>2, Regrouped
  <2>2. QED
    BY <2>1 DEF Cat
<1>5. Cat(x, Cat(q, y)) = x \o q \o y
  <2>1. (x \o q) \o y = x \o (q \o y)
    BY <1>1, <1>2, Regrouped
  <2>2. QED
    BY <2>1 DEF Cat
<1>6. QED
  BY <1>3, <1>4, <1>5 DEF Three, x, y, q

(* What the two parts of a text are in it.                                 *)
LEMMA CatWindow ==
    ASSUME NEW a \in Seq(Rewrite!Tokens), NEW b \in Seq(Rewrite!Tokens)
    PROVE  Window(Cat(a, b), b, Len(a))
<1>1. Len(Cat(a, b)) = Len(a) + Len(b)
  BY CatTyped
<1>2. \A j \in 1..Len(b) : Cat(a, b)[Len(a) + j] = b[j]
  BY CatRight
<1>3. QED
  BY <1>1, <1>2 DEF Window

LEMMA FirstAndRest ==
    ASSUME NEW s \in Seq(Rewrite!Tokens), s # <<>>
    PROVE  \E t \in Seq(Rewrite!Tokens) :
               s[1] \in Rewrite!Tokens /\ s = Cat(<<s[1]>>, t) /\ Len(s) = 1 + Len(t)
<1>1. 1 \in 0..Len(s) /\ s[1] \in Rewrite!Tokens
  OBVIOUS
<1>2. PICK a, b \in Seq(Rewrite!Tokens) : s = Cat(a, b) /\ Len(a) = 1
  BY <1>1, Parts
<1>3. a = <<a[1]>>
  BY <1>2
<1>4. 1 \in 1..Len(a)
  BY <1>2
<1>5. a[1] = s[1] /\ Len(s) = 1 + Len(b)
  BY <1>2, <1>4, CatLeft, CatTyped
<1>6. QED
  BY <1>1, <1>2, <1>3, <1>5

(* Tokens at which no match begins are copied.                             *)
Unmatched(s, n) == \A i \in 1..n : Rewrite!KeysFrom(s, i) = {}

LEMMA PrefixCopied ==
    ASSUME NEW base \in Seq(Rewrite!Tokens), NEW t \in Seq(Rewrite!Tokens),
           NEW p \in Seq(Rewrite!Tokens), Unmatched(Cat(p, t), Len(p))
    PROVE  Rewrite!RewriteImageRefs(Cat(p, t), base)
               = Cat(p, Rewrite!RewriteImageRefs(t, base))
<1> DEFINE r == Rewrite!RewriteImageRefs(t, base)
           Counter(u) == /\ Unmatched(Cat(u, t), Len(u))
                         /\ Rewrite!RewriteImageRefs(Cat(u, t), base) # Cat(u, r)
           Bad == {Len(u) : u \in {w \in Seq(Rewrite!Tokens) : Counter(w)}}
<1>1. SUFFICES ASSUME Bad # {} PROVE FALSE
  OBVIOUS
<1>2. PICK n \in Bad : \A l \in Bad : n <= l
  <2>1. Bad \in SUBSET Nat
    OBVIOUS
  <2> HIDE DEF Bad
  <2>2. QED
    BY <1>1, <2>1, LeastOf
<1>3. PICK u \in Seq(Rewrite!Tokens) : Counter(u) /\ Len(u) = n
  OBVIOUS
<1>4. r \in Seq(Rewrite!Tokens)
  BY RewriteTyped
<1>5. u # <<>>
  BY <1>3, <1>4, CatEmpty
<1>6. PICK v \in Seq(Rewrite!Tokens) :
          u[1] \in Rewrite!Tokens /\ u = Cat(<<u[1]>>, v) /\ Len(u) = 1 + Len(v)
  BY <1>5, FirstAndRest
<1> DEFINE x == <<u[1]>>
           s == Cat(u, t)
           w == Cat(v, t)
<1>7. x \in Seq(Rewrite!Tokens) /\ Len(x) = 1 /\ x[1] = u[1]
  BY <1>6
<1>8. w \in Seq(Rewrite!Tokens) /\ s \in Seq(Rewrite!Tokens) /\ Len(s) = 1 + Len(w)
  <2>1. Len(w) = Len(v) + Len(t) /\ Len(s) = Len(u) + Len(t) /\ Len(u) = 1 + Len(v)
    BY <1>6, CatTyped
  <2>2. w \in Seq(Rewrite!Tokens) /\ s \in Seq(Rewrite!Tokens)
    BY CatTyped
  <2> HIDE DEF w, s
  <2>3. QED
    BY <2>1, <2>2
<1>9. s = Cat(x, w)
  <2> HIDE DEF x
  <2>1. Cat(Cat(x, v), t) = Cat(x, Cat(v, t))
    BY <1>7, CatGroups
  <2>2. QED
    BY <1>6, <2>1 DEF x
<1>10. Window(s, w, 1)
  <2> HIDE DEF x, s, w
  <2>1. QED
    BY <1>7, <1>8, <1>9, CatWindow
<1>11. s[1] = u[1]
  <2>1. 1 \in 1..Len(u)
    BY <1>6
  <2>2. QED
    BY <2>1, CatLeft
<1>12. Unmatched(s, Len(u)) /\ Rewrite!RewriteImageRefs(s, base) # Cat(u, r)
  BY <1>3
<1> HIDE DEF x, s, w, r
<1>13. Rewrite!KeysFrom(s, 1) = {}
  <2>1. 1 \in 1..Len(u)
    BY <1>6
  <2>2. QED
    BY <1>12, <2>1 DEF Unmatched
<1>14. Rewrite!RewriteImageRefs(s, base) = Cat(x, Rewrite!RewriteImageRefs(w, base))
  <2>1. x = <<s[1]>> /\ Len(s) = Len(w) + 1
    BY <1>8, <1>11 DEF x
  <2>2. QED
    <3>1. s \in Seq(Rewrite!Tokens) /\ w \in Seq(Rewrite!Tokens)
      BY <1>8
    <3>2. x = <<s[1]>> /\ Len(s) = Len(w) + 1
      BY <2>1
    <3>3. QED
      BY <1>10, <1>13, <3>1, <3>2, RewriteCopies, SMTT(30)
<1>15. Unmatched(w, Len(v))
  <2>1. ASSUME NEW i \in 1..Len(v), NEW k \in Rewrite!KeysFrom(w, i) PROVE FALSE
    <3>1. Len(w) = Len(v) + Len(t)
      BY CatTyped DEF w
    <3>2. i \in 1..Len(w) /\ k \in 1..Len(w)
      BY <3>1 DEF Rewrite!KeysFrom
    <3>3. 1 \in Nat
      OBVIOUS
    <3>4. 1 + k \in Rewrite!KeysFrom(s, 1 + i)
      BY <1>8, <1>10, <3>2, <3>3, WindowKeys
    <3>5. 1 + i \in 1..Len(u)
      BY <1>6
    <3>6. QED
      BY <1>12, <3>4, <3>5 DEF Unmatched
  <2>2. QED
    BY <2>1 DEF Unmatched
<1>16. ~Counter(v)
  <2>1. Counter(v) => Len(v) \in Bad
    OBVIOUS
  <2> HIDE DEF Counter, Bad
  <2>2. n = 1 + Len(v) /\ Len(v) \in Nat
    BY <1>3, <1>6
  <2>3. QED
    BY <1>2, <2>1, <2>2
<1>17. Rewrite!RewriteImageRefs(w, base) = Cat(v, r)
  BY <1>15, <1>16 DEF w
<1>18. Cat(Cat(x, v), r) = Cat(x, Cat(v, r))
  BY <1>4, <1>7, CatGroups
<1>19. QED
  BY <1>6, <1>12, <1>14, <1>17, <1>18 DEF x

(* A text without a key is left as it is.                                  *)
NoKeys(s) == \A j \in 1..Len(s) : ~Rewrite!KeyAt(s, j)
NoGaps(s) == \A j \in 1..Len(s) : s[j] # "gap"

LEMMA NoKeysKept ==
    ASSUME NEW base \in Seq(Rewrite!Tokens), NEW s \in Seq(Rewrite!Tokens), NoKeys(s)
    PROVE  Rewrite!RewriteImageRefs(s, base) = s
<1>1. <<>> \in Seq(Rewrite!Tokens) /\ Cat(s, <<>>) = s
  BY CatEmpty
<1>2. Unmatched(s, Len(s))
  BY DEF Unmatched, NoKeys, Rewrite!KeysFrom
<1>3. Rewrite!RewriteImageRefs(Cat(s, <<>>), base)
          = Cat(s, Rewrite!RewriteImageRefs(<<>>, base))
  BY <1>1, <1>2, PrefixCopied
<1>4. QED
  BY <1>1, <1>3, RewriteEmpty

(* What a string of the text becomes when a key is in it: tokens that      *)
(* begin no reference, the base URL with its slash, and the key.           *)
Ahead      == {"/", "uploads", "text", "bucket"}
Lead(base) == Cat(base, <<"/">>)
IsKey(k)   == NoGaps(k) /\ Len(k) >= 2 /\ k[1] = "key"
Repaired(v, base) ==
    \E p, k \in Seq(Rewrite!Tokens) :
        (\A j \in 1..Len(p) : p[j] \in Ahead) /\ IsKey(k) /\ v = Cat(p, Cat(Lead(base), k))

(* A base URL as PublicBase builds it: no key is a part of it.             *)
Leads(base) ==
    /\ base \in Seq(Rewrite!Tokens) /\ base # <<>> /\ base[1] = "http"
    /\ \A j \in 1..Len(base) : base[j] \in {"http", "/", "text", "bucket"}

LEMMA LeadFacts ==
    ASSUME NEW base, Leads(base)
    PROVE  /\ Lead(base) \in Seq(Rewrite!Tokens) /\ Lead(base)[1] = "http"
           /\ Len(Lead(base)) = Len(base) + 1 /\ Len(base) \in Nat \ {0}
           /\ \A j \in 1..Len(Lead(base)) : Lead(base)[j] \in {"http", "/", "text", "bucket"}
<1>1. base \in Seq(Rewrite!Tokens) /\ Len(base) \in Nat \ {0}
  BY DEF Leads
<1> DEFINE q == <<"/">>
<1>2. q \in Seq(Rewrite!Tokens) /\ Len(q) = 1 /\ q[1] = "/"
  BY DEF Rewrite!Tokens
<1> HIDE DEF q
<1>3. Cat(base, q) \in Seq(Rewrite!Tokens) /\ Len(Cat(base, q)) = Len(base) + Len(q)
  BY <1>1, <1>2, CatTyped
<1>4. \A j \in 1..Len(base) : Cat(base, q)[j] = base[j]
  BY <1>1, <1>2, CatLeft
<1>5. Cat(base, q)[Len(base) + 1] = "/"
  BY <1>1, <1>2, CatRight
<1>6. ASSUME NEW j \in 1..Len(base) + 1
      PROVE  Cat(base, q)[j] \in {"http", "/", "text", "bucket"}
  <2>1. CASE j = Len(base) + 1
    BY <1>5, <2>1
  <2>2. CASE j # Len(base) + 1
    BY <1>1, <1>4, <2>2 DEF Leads
  <2>3. QED
    BY <2>1, <2>2
<1>7. Cat(base, q)[1] = "http"
  BY <1>1, <1>4 DEF Leads
<1>8. QED
  BY <1>1, <1>2, <1>3, <1>6, <1>7 DEF Lead, q

LEMMA SubSeqWhole ==
    ASSUME NEW s \in Seq(Rewrite!Tokens), NEW j \in 1..Len(s)
    PROVE  /\ SubSeq(s, j, Len(s)) \in Seq(Rewrite!Tokens)
           /\ Len(SubSeq(s, j, Len(s))) = Len(s) - j + 1
           /\ \A i \in 1..Len(s) - j + 1 : SubSeq(s, j, Len(s))[i] = s[j + i - 1]
<1>1. \A i \in j..Len(s) : s[i] \in Rewrite!Tokens
  OBVIOUS
<1>2. QED
  BY <1>1, SubSeqProperties

LEMMA MatchedForm ==
    ASSUME NEW s \in Seq(Rewrite!Tokens), NEW base \in Seq(Rewrite!Tokens),
           NoGaps(s), ~NoKeys(s)
    PROVE  Repaired(Rewrite!RewriteImageRefs(s, base), base)
<1> DEFINE Starts == {i \in 1..Len(s) : Rewrite!KeysFrom(s, i) # {}}
<1>1. PICK j0 \in 1..Len(s) : Rewrite!KeyAt(s, j0)
  BY DEF NoKeys
<1>2. j0 \in Starts
  <2>1. j0 \in Rewrite!KeysFrom(s, j0)
    BY <1>1 DEF Rewrite!KeysFrom, Rewrite!CanLead
  <2>2. QED
    BY <2>1
<1>3. PICK m0 \in Starts : \A l \in Starts : m0 <= l
  <2>1. Starts \in SUBSET Nat /\ Starts # {}
    BY <1>2
  <2> HIDE DEF Starts
  <2>2. QED
    BY <2>1, LeastOf
<1> DEFINE m == m0 - 1
<1>4. /\ m \in 0..Len(s) /\ m0 = m + 1 /\ m0 \in 1..Len(s) /\ m0 <= j0
      /\ Rewrite!KeysFrom(s, m + 1) # {} /\ \A i \in 1..m : Rewrite!KeysFrom(s, i) = {}
  <2>1. m0 \in 1..Len(s) /\ Rewrite!KeysFrom(s, m0) # {} /\ m0 <= j0
    BY <1>2, <1>3
  <2>2. \A i \in 1..m : i \in 1..Len(s) /\ ~(m0 <= i)
    BY <2>1
  <2>3. QED
    BY <1>3, <2>1, <2>2
<1> HIDE DEF m, Starts
<1>5. PICK p, t \in Seq(Rewrite!Tokens) : s = Cat(p, t) /\ Len(p) = m
  BY <1>4, Parts
<1>6. /\ Window(s, t, m) /\ Len(s) = m + Len(t) /\ 1 \in 1..Len(t)
      /\ \A j \in 1..Len(p) : p[j] = s[j]
  <2>1. Len(s) = m + Len(t)
    BY <1>5, CatTyped
  <2>2. Window(s, t, m)
    BY <1>5, CatWindow
  <2>3. \A j \in 1..Len(p) : p[j] = s[j]
    BY <1>5, CatLeft
  <2>4. QED
    BY <1>4, <2>1, <2>2, <2>3
<1>7. ASSUME NEW i \in 1..m PROVE s[i] \in Ahead
  <2>1. i \in 1..Len(s) /\ i < j0 /\ Rewrite!KeysFrom(s, i) = {} /\ i \in Int
    BY <1>4
  <2>2. s[i] \notin Rewrite!Schemes
    <3>1. Rewrite!NoGap(s, i, j0)
      BY <2>1 DEF NoGaps, Rewrite!NoGap
    <3>2. s[i] \in Rewrite!Schemes => j0 \in Rewrite!KeysFrom(s, i)
      BY <1>1, <2>1, <3>1 DEF Rewrite!KeysFrom, Rewrite!CanLead
    <3>3. QED
      BY <2>1, <3>2
  <2>3. s[i] # "key"
    <3>1. i + 1 \in 1..Len(s) /\ s[i + 1] # "gap"
      BY <2>1 DEF NoGaps
    <3>2. s[i] = "key" => i \in Rewrite!KeysFrom(s, i)
      BY <2>1, <3>1 DEF Rewrite!KeysFrom, Rewrite!CanLead, Rewrite!KeyAt
    <3>3. QED
      BY <2>1, <3>2
  <2>4. s[i] \in Rewrite!Tokens /\ s[i] # "gap"
    BY <2>1 DEF NoGaps
  <2>5. QED
    BY <2>2, <2>3, <2>4 DEF Ahead, Rewrite!Tokens, Rewrite!Schemes
<1>8. NoGaps(t) /\ Rewrite!KeysFrom(t, 1) # {}
  <2>1. NoGaps(t)
    BY <1>4, <1>6 DEF NoGaps, Window
  <2>2. PICK k \in Rewrite!KeysFrom(s, m + 1) : TRUE
    BY <1>4
  <2>3. m \in Nat /\ k \in Int
    BY <1>4 DEF Rewrite!KeysFrom
  <2>4. k - m \in 1..Len(t) /\ m + (k - m) = k
    BY <1>6, <2>3, WindowKeys
  <2>5. k - m \in Rewrite!KeysFrom(t, 1)
    BY <1>6, <2>3, <2>4, WindowKeys
  <2>6. QED
    BY <2>1, <2>5
<1> DEFINE j == Match(t, 1)
           k == SubSeq(t, j, Len(t))
<1>9. j \in 1..Len(t) /\ Rewrite!KeyAt(t, j)
  BY <1>6, <1>8, MatchFacts
<1> HIDE DEF j
<1>10. Rewrite!KeyEnd(t, j) = Len(t)
  <2>1. Len(t) \in j..Len(t) /\ Rewrite!NoGap(t, j, Len(t))
    BY <1>8, <1>9 DEF NoGaps, Rewrite!NoGap
  <2>2. QED
    BY <1>9, <2>1, KeyEndUnique
<1>11. k \in Seq(Rewrite!Tokens) /\ IsKey(k)
  <2>1. /\ k \in Seq(Rewrite!Tokens) /\ Len(k) = Len(t) - j + 1
        /\ \A i \in 1..Len(t) - j + 1 : k[i] = t[j + i - 1]
    BY <1>9, SubSeqWhole
  <2> HIDE DEF k
  <2>2. j < Len(t) /\ t[j] = "key"
    BY <1>9 DEF Rewrite!KeyAt
  <2>3. k[1] = "key" /\ Len(k) >= 2
    BY <1>9, <2>1, <2>2
  <2>4. \A i \in 1..Len(k) : k[i] # "gap"
    BY <1>8, <1>9, <2>1 DEF NoGaps
  <2>5. QED
    BY <2>1, <2>3, <2>4 DEF IsKey, NoGaps
<1>12. Rewrite!RewriteImageRefs(t, base) = Cat(Lead(base), k)
  <2>1. t # <<>>
    BY <1>6
  <2>2. Rewrite!Key(t, j) = k
    BY <1>10 DEF Rewrite!Key
  <2>3. QED
    BY <1>8, <1>10, <2>1, <2>2, RewriteMatches DEF j, Lead
<1>13. Unmatched(Cat(p, t), Len(p))
  BY <1>4, <1>5 DEF Unmatched
<1>14. Rewrite!RewriteImageRefs(s, base) = Cat(p, Cat(Lead(base), k))
  BY <1>5, <1>12, <1>13, PrefixCopied
<1>15. \A i \in 1..Len(p) : p[i] \in Ahead
  BY <1>5, <1>6, <1>7
<1>16. QED
  BY <1>11, <1>14, <1>15 DEF Repaired

(* The base URL and a key behind it: the only key, matched from the start. *)
LEMMA LeadAndKey ==
    ASSUME NEW base, Leads(base), NEW k \in Seq(Rewrite!Tokens), IsKey(k),
           NEW u, u = Cat(Lead(base), k)
    PROVE  /\ u \in Seq(Rewrite!Tokens) /\ u[1] = "http" /\ NoGaps(u)
           /\ Len(u) = Len(base) + 1 + Len(k) /\ Window(u, k, Len(base) + 1)
           /\ \A j \in 1..Len(base) + 1 : u[j] = Lead(base)[j] /\ u[j] \notin {"key", "htp"}
           /\ Rewrite!KeyAt(u, Len(base) + 2) /\ Len(base) \in Nat \ {0}
<1> DEFINE b == Lead(base)
           n == Len(base)
<1>1. /\ b \in Seq(Rewrite!Tokens) /\ b[1] = "http" /\ Len(b) = n + 1 /\ n \in Nat \ {0}
      /\ \A j \in 1..Len(b) : b[j] \in {"http", "/", "text", "bucket"}
  BY LeadFacts
<1> HIDE DEF b, n
<1>2. u = Cat(b, k)
  BY DEF b
<1>3. u \in Seq(Rewrite!Tokens) /\ Len(u) = Len(b) + Len(k)
  BY <1>1, <1>2, CatTyped
<1>4. \A j \in 1..Len(b) : u[j] = b[j]
  BY <1>1, <1>2, CatLeft
<1>5. \A j \in 1..Len(k) : u[Len(b) + j] = k[j]
  <2>1. b \in Seq(Rewrite!Tokens)
    BY <1>1
  <2>2. QED
    BY <1>2, <2>1, CatRight, Zenon
<1>6. Window(u, k, n + 1)
  BY <1>1, <1>2, CatWindow
<1>7. ASSUME NEW j \in 1..n + 1 PROVE u[j] = b[j] /\ u[j] \notin {"key", "htp", "gap"}
  BY <1>1, <1>4
<1>8. ASSUME NEW j \in 1..Len(u) PROVE u[j] # "gap"
  <2>1. CASE j <= n + 1
    BY <1>1, <1>7, <2>1
  <2>2. CASE ~(j <= n + 1)
    <3>1. j - (n + 1) \in 1..Len(k) /\ Len(b) + (j - (n + 1)) = j
      BY <1>1, <1>3, <2>2
    <3>2. u[Len(b) + (j - (n + 1))] = k[j - (n + 1)]
      BY <1>5, <3>1
    <3>3. k[j - (n + 1)] # "gap"
      BY <3>1 DEF IsKey, NoGaps
    <3>4. QED
      BY <3>1, <3>2, <3>3
  <2>3. QED
    BY <2>1, <2>2
<1>9. Rewrite!KeyAt(u, n + 2)
  <2>1. Len(b) + 1 = n + 2 /\ 1 \in 1..Len(k) /\ n + 2 < Len(u) /\ (n + 2) + 1 \in 1..Len(u)
    BY <1>1, <1>3 DEF IsKey
  <2>2. u[n + 2] = "key"
    BY <1>5, <2>1 DEF IsKey
  <2>3. u[(n + 2) + 1] # "gap"
    BY <1>8, <2>1
  <2>4. QED
    BY <2>1, <2>2, <2>3 DEF Rewrite!KeyAt
<1>10. u[1] = "http" /\ Len(u) = n + 1 + Len(k)
  BY <1>1, <1>3, <1>4
<1>11. QED
  BY <1>1, <1>3, <1>6, <1>7, <1>8, <1>9, <1>10 DEF NoGaps, b, n

LEMMA LeadStays ==
    ASSUME NEW base, Leads(base), NEW k \in Seq(Rewrite!Tokens), IsKey(k),
           NEW u, u = Cat(Lead(base), k)
    PROVE  Rewrite!RewriteImageRefs(u, base) = u
<1> DEFINE n == Len(base)
<1>1. /\ u \in Seq(Rewrite!Tokens) /\ u[1] = "http" /\ NoGaps(u)
      /\ Len(u) = n + 1 + Len(k) /\ Window(u, k, n + 1)
      /\ \A j \in 1..n + 1 : u[j] # "key"
      /\ Rewrite!KeyAt(u, n + 2) /\ n \in Nat \ {0} /\ base \in Seq(Rewrite!Tokens)
  BY LeadAndKey DEF Leads
<1> HIDE DEF n
<1>2. n + 2 \in Rewrite!KeysFrom(u, 1)
  <2>1. n + 2 \in 1..Len(u) /\ Rewrite!NoGap(u, 1, n + 2)
    BY <1>1 DEF NoGaps, Rewrite!NoGap, IsKey
  <2>2. QED
    BY <1>1, <2>1 DEF Rewrite!KeysFrom, Rewrite!CanLead, Rewrite!Schemes
<1>3. Match(u, 1) = n + 2
  <2>1. 1 \in 1..Len(u)
    BY <1>1
  <2>2. /\ Match(u, 1) \in 1..Len(u) /\ Rewrite!KeyAt(u, Match(u, 1))
        /\ Match(u, 1) <= n + 2
    <3>1. u \in Seq(Rewrite!Tokens) /\ Rewrite!KeysFrom(u, 1) # {}
      BY <1>1, <1>2
    <3>2. QED
      BY <1>2, <2>1, <3>1, MatchFacts
  <2>3. Match(u, 1) \notin 1..n + 1
    BY <1>1, <2>2 DEF Rewrite!KeyAt
  <2>4. QED
    BY <1>1, <2>2, <2>3
<1>4. n + 2 \in 1..Len(u) /\ Len(u) = (n + 1) + Len(k) /\ n + 2 = (n + 1) + 1
  BY <1>1 DEF IsKey
<1>5. Rewrite!KeyEnd(u, n + 2) = Len(u)
  <2>1. Len(u) \in n+2..Len(u) /\ Rewrite!NoGap(u, n + 2, Len(u))
    BY <1>1, <1>4 DEF NoGaps, Rewrite!NoGap
  <2>2. QED
    BY <1>1, <1>4, <2>1, KeyEndUnique
<1>6. Rewrite!Key(u, n + 2) = k
  <2>1. n + 1 \in Nat /\ 1 \in 1..Len(k) /\ Len(k) \in 1..Len(k)
    BY <1>1 DEF IsKey
  <2>2. SubSeq(u, (n + 1) + 1, (n + 1) + Len(k)) = SubSeq(k, 1, Len(k))
    BY <1>1, <2>1, SubSeqShift
  <2>3. SubSeq(k, 1, Len(k)) = k
    OBVIOUS
  <2>4. QED
    BY <1>4, <1>5, <2>2, <2>3 DEF Rewrite!Key
<1>7. u # <<>> /\ Rewrite!KeysFrom(u, 1) # {}
  BY <1>2, <1>4
<1>8. Rewrite!RewriteImageRefs(u, base) = Cat(Cat(base, <<"/">>), Rewrite!Key(u, Match(u, 1)))
  BY <1>1, <1>3, <1>5, <1>7, RewriteMatches
<1>9. QED
  BY <1>3, <1>6, <1>8 DEF Lead

(* Before it no match begins, so that a second run changes nothing.        *)
LEMMA RepairedStays ==
    ASSUME NEW base, Leads(base), NEW v, Repaired(v, base)
    PROVE  Rewrite!RewriteImageRefs(v, base) = v
<1>1. PICK p, k \in Seq(Rewrite!Tokens) :
          /\ \A j \in 1..Len(p) : p[j] \in Ahead
          /\ IsKey(k) /\ v = Cat(p, Cat(Lead(base), k))
  BY DEF Repaired
<1> DEFINE u == Cat(Lead(base), k)
<1>2. u \in Seq(Rewrite!Tokens) /\ u[1] = "http" /\ Len(u) \in Nat \ {0}
  BY <1>1, LeadAndKey
<1>3. Rewrite!RewriteImageRefs(u, base) = u
  BY <1>1, LeadStays
<1>4. v = Cat(p, u)
  BY <1>1
<1> HIDE DEF u
<1>5. \A j \in 1..Len(p) : v[j] = p[j]
  BY <1>2, <1>4, CatLeft
<1>6. v[Len(p) + 1] = "http"
  <2>1. 1 \in 1..Len(u) /\ u \in Seq(Rewrite!Tokens)
    BY <1>2
  <2>2. Cat(p, u)[Len(p) + 1] = u[1]
    BY <2>1, CatRight, Zenon
  <2>3. QED
    BY <1>2, <1>4, <2>2
<1>7. ASSUME NEW i \in 1..Len(p), NEW j \in Rewrite!KeysFrom(v, i) PROVE FALSE
  <2>1. v[i] = p[i] /\ p[i] \in Ahead /\ j \in Int /\ v[j] = "key" /\ Rewrite!CanLead(v, i, j)
    BY <1>1, <1>5 DEF Rewrite!KeysFrom, Rewrite!KeyAt
  <2>2. v[i] \notin Rewrite!Schemes /\ v[i] # "key"
    BY <2>1 DEF Ahead, Rewrite!Schemes
  <2>3. j = i + 1
    BY <2>1, <2>2 DEF Rewrite!CanLead
  <2>4. v[i + 1] # "key"
    <3>1. CASE i = Len(p)
      BY <1>6, <3>1
    <3>2. CASE i # Len(p)
      <4>1. i + 1 \in 1..Len(p)
        BY <3>2
      <4>2. QED
        BY <1>1, <1>5, <4>1 DEF Ahead
    <3>3. QED
      BY <3>1, <3>2
  <2>5. QED
    BY <2>1, <2>3, <2>4
<1>8. Unmatched(Cat(p, u), Len(p))
  BY <1>4, <1>7 DEF Unmatched
<1>9. base \in Seq(Rewrite!Tokens)
  BY DEF Leads
<1>10. Rewrite!RewriteImageRefs(Cat(p, u), base) = Cat(p, Rewrite!RewriteImageRefs(u, base))
  BY <1>2, <1>8, <1>9, PrefixCopied
<1>11. QED
  BY <1>3, <1>4, <1>10

(* What holds of every key of a migrated text: another is before it in its *)
(* string, or the base URL is, and no scheme without its colon.            *)
Preceded(v, b, j) ==
    \E m \in 0..j : m + Len(b) + 1 = j /\ \A l \in 1..Len(b) : v[m + l] = b[l]
Inner(v, j) == \E k \in 1..j - 1 : Rewrite!KeyAt(v, k) /\ Rewrite!NoGap(v, k, j)
Mended(v, b, j) ==
    Preceded(v, b, j) /\ \A i \in 1..j : Rewrite!NoGap(v, i, j) => v[i] # "htp"
WellFormed(v, b) ==
    \A j \in 1..Len(v) : Rewrite!KeyAt(v, j) => Inner(v, j) \/ Mended(v, b, j)

LEMMA RepairedGood ==
    ASSUME NEW base, Leads(base), NEW v, Repaired(v, base)
    PROVE  WellFormed(v, Lead(base))
<1>1. PICK p, k \in Seq(Rewrite!Tokens) :
          /\ \A j \in 1..Len(p) : p[j] \in Ahead
          /\ IsKey(k) /\ v = Cat(p, Cat(Lead(base), k))
  BY DEF Repaired
<1> DEFINE u == Cat(Lead(base), k)
           b == Lead(base)
           n == Len(base)
           m == Len(p)
<1>2. /\ u \in Seq(Rewrite!Tokens) /\ NoGaps(u)
      /\ Len(u) = n + 1 + Len(k) /\ Rewrite!KeyAt(u, n + 2) /\ n \in Nat \ {0}
      /\ \A j \in 1..n + 1 : u[j] = b[j] /\ u[j] \notin {"key", "htp"}
  BY <1>1, LeadAndKey
<1>3. Len(b) = n + 1
  BY LeadFacts
<1>4. v = Cat(p, u) /\ m \in Nat
  BY <1>1
<1> HIDE DEF u, b, n
<1>5. \A j \in 1..m : v[j] = p[j]
  BY <1>2, <1>4, CatLeft
<1>6. \A j \in 1..Len(u) : v[m + j] = u[j]
  <2>1. u \in Seq(Rewrite!Tokens)
    BY <1>2
  <2>2. QED
    BY <1>4, <2>1, CatRight, Zenon
<1>7. Window(v, u, m) /\ v \in Seq(Rewrite!Tokens) /\ Len(v) = m + Len(u)
  BY <1>2, <1>4, CatWindow, CatTyped
<1> HIDE DEF m
<1>8. n + 2 \in 1..Len(u)
  BY <1>2 DEF IsKey, Rewrite!KeyAt
<1>9. Rewrite!KeyAt(v, m + (n + 2))
  BY <1>2, <1>4, <1>7, <1>8, WindowKeyAt
<1>10. ASSUME NEW j \in 1..m + n + 1 PROVE v[j] \notin {"key", "htp"}
  <2>1. CASE j <= m
    <3>1. j \in 1..m
      BY <1>2, <1>4, <2>1
    <3>2. p[j] \in Ahead
      BY <1>1, <3>1 DEF m
    <3>3. QED
      BY <1>5, <3>1, <3>2 DEF Ahead
  <2>2. CASE ~(j <= m)
    <3>1. j - m \in 1..n + 1 /\ j - m \in 1..Len(u) /\ m + (j - m) = j
      BY <1>2, <1>4, <1>8, <2>2
    <3>2. v[m + (j - m)] = u[j - m] /\ u[j - m] \notin {"key", "htp"}
      BY <1>2, <1>6, <3>1
    <3>3. QED
      BY <3>1, <3>2
  <2>3. QED
    BY <2>1, <2>2
<1>11. ASSUME NEW j \in m+n+2..Len(v) PROVE v[j] # "gap"
  <2>1. j - m \in 1..Len(u) /\ m + (j - m) = j
    BY <1>2, <1>4, <1>7
  <2>2. v[m + (j - m)] = u[j - m] /\ u[j - m] # "gap"
    BY <1>2, <1>6, <2>1 DEF NoGaps
  <2>3. QED
    BY <2>1, <2>2
<1>12. ASSUME NEW j \in 1..Len(v), Rewrite!KeyAt(v, j) PROVE Inner(v, j) \/ Mended(v, b, j)
  <2>1. v[j] = "key"
    BY <1>12 DEF Rewrite!KeyAt
  <2>2. CASE j < m + n + 2
    <3>1. j \in 1..m + n + 1
      BY <1>2, <1>4, <2>2
    <3>2. QED
      BY <1>10, <2>1, <3>1
  <2>3. CASE j = m + n + 2
    <3>1. Preceded(v, b, j)
      <4>1. m \in 0..j /\ m + Len(b) + 1 = j
        BY <1>2, <1>3, <1>4, <2>3
      <4>2. ASSUME NEW l \in 1..Len(b) PROVE v[m + l] = b[l]
        <5>1. l \in 1..n + 1 /\ l \in 1..Len(u)
          BY <1>2, <1>3, <1>8
        <5>2. QED
          BY <1>2, <1>6, <5>1
      <4>3. QED
        BY <4>1, <4>2 DEF Preceded
    <3>2. ASSUME NEW i \in 1..j PROVE v[i] # "htp"
      <4>1. CASE i = j
        BY <2>1, <4>1
      <4>2. CASE i # j
        <5>1. i \in 1..m + n + 1
          BY <1>2, <1>4, <2>3, <4>2
        <5>2. QED
          BY <1>10, <5>1
      <4>3. QED
        BY <4>1, <4>2
    <3>3. QED
      BY <3>1, <3>2 DEF Mended
  <2>4. CASE j > m + n + 2
    <3>1. m + (n + 2) \in 1..j - 1
      BY <1>2, <1>4, <2>4
    <3>2. Rewrite!NoGap(v, m + (n + 2), j)
      <4>1. \A l \in m + (n + 2)..j : l \in m+n+2..Len(v)
        BY <1>2, <1>4
      <4>2. QED
        BY <1>11, <4>1 DEF Rewrite!NoGap
    <3>3. QED
      BY <1>9, <3>1, <3>2 DEF Inner
  <2>5. QED
    BY <1>2, <1>4, <2>2, <2>3, <2>4
<1>13. QED
  BY <1>12 DEF WellFormed, b

LEMMA InWindow ==
    ASSUME NEW v \in Seq(Rewrite!Tokens), NEW w \in Seq(Rewrite!Tokens), NEW m \in Nat,
           Window(v, w, m), m = 0 \/ v[m] = "gap", NEW b \in Seq(Rewrite!Tokens),
           NEW j \in 1..Len(w)
    PROVE  /\ Inner(w, j) => Inner(v, m + j)
           /\ Mended(w, b, j) => Mended(v, b, m + j)
<1>1. ASSUME Inner(w, j) PROVE Inner(v, m + j)
  <2>1. PICK k \in 1..j - 1 : Rewrite!KeyAt(w, k) /\ Rewrite!NoGap(w, k, j)
    BY <1>1 DEF Inner
  <2>2. k \in 1..Len(w) /\ j \in k..Len(w) /\ m + k \in 1..(m + j) - 1
    OBVIOUS
  <2>3. Rewrite!KeyAt(v, m + k)
    BY <2>1, <2>2, WindowKeyAt
  <2>4. Rewrite!NoGap(v, m + k, m + j)
    BY <2>1, <2>2, WindowGaps
  <2>5. QED
    BY <2>2, <2>3, <2>4 DEF Inner
<1>2. ASSUME Mended(w, b, j) PROVE Mended(v, b, m + j)
  <2>1. Preceded(v, b, m + j)
    <3>1. PICK l \in 0..j : l + Len(b) + 1 = j /\ \A i \in 1..Len(b) : w[l + i] = b[i]
      BY <1>2 DEF Mended, Preceded
    <3>2. m + l \in 0..m+j /\ (m + l) + Len(b) + 1 = m + j
      <4>1. l + Len(b) + 1 = j /\ Len(b) \in Nat /\ l \in Nat /\ j \in Nat
        BY <3>1
      <4>2. QED
        BY <4>1
    <3>3. ASSUME NEW i \in 1..Len(b) PROVE v[(m + l) + i] = b[i]
      <4>1. l + i \in 1..Len(w) /\ (m + l) + i = m + (l + i)
        BY <3>1
      <4>2. v[m + (l + i)] = w[l + i]
        BY <4>1 DEF Window
      <4>3. QED
        BY <3>1, <4>1, <4>2
    <3>4. QED
      BY <3>2, <3>3 DEF Preceded
  <2>2. ASSUME NEW i \in 1..m + j, Rewrite!NoGap(v, i, m + j) PROVE v[i] # "htp"
    <3>1. CASE i <= m
      <4>1. m \in i..m+j /\ m # 0
        BY <3>1
      <4>2. QED
        BY <2>2, <4>1 DEF Rewrite!NoGap
    <3>2. CASE ~(i <= m)
      <4> DEFINE k == i - m
      <4>1. k \in 1..Len(w) /\ j \in k..Len(w) /\ k \in 1..j /\ m + k = i
        BY <3>2
      <4> HIDE DEF k
      <4>2. Rewrite!NoGap(v, m + k, m + j)
        BY <2>2, <4>1
      <4>3. Rewrite!NoGap(w, k, j)
        BY <4>1, <4>2, WindowGaps
      <4>4. w[k] # "htp"
        BY <1>2, <4>1, <4>3 DEF Mended
      <4>5. v[m + k] = w[k]
        BY <4>1 DEF Window
      <4>6. QED
        BY <4>1, <4>4, <4>5
    <3>3. QED
      BY <3>1, <3>2
  <2>3. QED
    BY <2>1, <2>2 DEF Mended
<1>3. QED
  BY <1>1, <1>2

(* A gap between two texts, seen from the positions of the whole.          *)
LEMMA ThreeFacts ==
    ASSUME NEW a \in Seq(Rewrite!Tokens), NEW c \in Seq(Rewrite!Tokens),
           NEW v, v = Three(a, c)
    PROVE  /\ v \in Seq(Rewrite!Tokens) /\ Len(v) = Len(a) + 1 + Len(c)
           /\ v[Len(a) + 1] = "gap"
           /\ Window(v, a, 0) /\ Window(v, c, Len(a) + 1)
<1> DEFINE q == <<"gap">>
           t == Cat(q, c)
<1>1. q \in Seq(Rewrite!Tokens) /\ Len(q) = 1 /\ q[1] = "gap"
  BY DEF Rewrite!Tokens
<1>2. v = Cat(a, t)
  BY DEF Three
<1> HIDE DEF q
<1>3. t \in Seq(Rewrite!Tokens) /\ Len(t) = Len(q) + Len(c)
  BY <1>1, CatTyped
<1>4. t[1] = "gap"
  BY <1>1, CatLeft
<1>5. \A j \in 1..Len(c) : t[Len(q) + j] = c[j]
  <2>1. q \in Seq(Rewrite!Tokens)
    BY <1>1
  <2>2. QED
    BY <2>1, CatRight, Zenon
<1> HIDE DEF t
<1>6. v \in Seq(Rewrite!Tokens) /\ Len(v) = Len(a) + Len(t)
  BY <1>2, <1>3, CatTyped
<1>7. \A j \in 1..Len(a) : v[j] = a[j]
  BY <1>2, <1>3, CatLeft
<1>8. \A j \in 1..Len(t) : v[Len(a) + j] = t[j]
  <2>1. t \in Seq(Rewrite!Tokens)
    BY <1>3
  <2>2. \A j \in 1..Len(t) : Cat(a, t)[Len(a) + j] = t[j]
    BY <2>1, CatRight, Zenon
  <2>3. QED
    BY <1>2, <2>2
<1>9. Len(v) = Len(a) + 1 + Len(c)
  BY <1>1, <1>3, <1>6
<1>10. v[Len(a) + 1] = "gap"
  BY <1>1, <1>3, <1>4, <1>8
<1>11. Window(v, a, 0)
  BY <1>7, <1>9, <1>10 DEF Window
<1>12. ASSUME NEW j \in 1..Len(c) PROVE v[(Len(a) + 1) + j] = c[j]
  <2>1. 1 + j \in 1..Len(t) /\ (Len(a) + 1) + j = Len(a) + (1 + j) /\ Len(q) + j = 1 + j
    BY <1>1, <1>3
  <2>2. QED
    BY <1>5, <1>8, <2>1
<1>13. Window(v, c, Len(a) + 1)
  BY <1>9, <1>12 DEF Window
<1>14. QED
  BY <1>6, <1>9, <1>10, <1>11, <1>13

LEMMA WellFormedJoins ==
    ASSUME NEW a \in Seq(Rewrite!Tokens), NEW c \in Seq(Rewrite!Tokens),
           NEW b \in Seq(Rewrite!Tokens), WellFormed(a, b), WellFormed(c, b)
    PROVE  WellFormed(Three(a, c), b)
<1> DEFINE v == Three(a, c)
<1>1. /\ v \in Seq(Rewrite!Tokens) /\ Len(v) = Len(a) + 1 + Len(c)
      /\ v[Len(a) + 1] = "gap"
      /\ Window(v, a, 0) /\ Window(v, c, Len(a) + 1)
  BY ThreeFacts
<1> HIDE DEF v
<1>2. SUFFICES ASSUME NEW j \in 1..Len(v), Rewrite!KeyAt(v, j)
               PROVE  Inner(v, j) \/ Mended(v, b, j)
  BY DEF WellFormed, v
<1>3. CASE j <= Len(a)
  <2>1. j \in 1..Len(a) /\ 0 + j = j /\ 0 \in Nat
    BY <1>3
  <2>2. Rewrite!KeyAt(a, j)
    BY <1>1, <1>2, <2>1, WindowKeyAt
  <2>3. Inner(a, j) \/ Mended(a, b, j)
    BY <2>1, <2>2 DEF WellFormed
  <2>4. Inner(v, 0 + j) \/ Mended(v, b, 0 + j)
    BY <1>1, <2>1, <2>3, InWindow
  <2>5. QED
    BY <2>1, <2>4
<1>4. CASE j = Len(a) + 1
  BY <1>1, <1>2, <1>4 DEF Rewrite!KeyAt
<1>5. CASE j > Len(a) + 1
  <2> DEFINE m == Len(a) + 1
             i == j - m
  <2>1. i \in 1..Len(c) /\ m + i = j /\ m \in Nat
    BY <1>1, <1>5
  <2>2. v[m] = "gap" /\ Window(v, c, m)
    BY <1>1
  <2> HIDE DEF m, i
  <2>3. Rewrite!KeyAt(c, i)
    BY <1>1, <1>2, <2>1, <2>2, WindowKeyAt
  <2>4. Inner(c, i) \/ Mended(c, b, i)
    BY <2>1, <2>3 DEF WellFormed
  <2>5. Inner(v, m + i) \/ Mended(v, b, m + i)
    BY <1>1, <2>1, <2>2, <2>4, InWindow
  <2>6. QED
    BY <2>1, <2>5
<1>6. QED
  BY <1>3, <1>4, <1>5

(* By induction over the length of the text, cut at its gaps: a second     *)
(* rewriting changes nothing, and every key is well formed after the first. *)
Settled(s, base) ==
    LET v == Rewrite!RewriteImageRefs(s, base)
    IN Rewrite!RewriteImageRefs(v, base) = v /\ WellFormed(v, Lead(base))

LEMMA StringSettles ==
    ASSUME NEW base, Leads(base), NEW s \in Seq(Rewrite!Tokens), NoGaps(s)
    PROVE  Settled(s, base)
<1>1. base \in Seq(Rewrite!Tokens)
  BY DEF Leads
<1>2. CASE NoKeys(s)
  <2>1. Rewrite!RewriteImageRefs(s, base) = s
    BY <1>1, <1>2, NoKeysKept
  <2>2. QED
    BY <1>2, <2>1 DEF Settled, WellFormed, NoKeys
<1>3. CASE ~NoKeys(s)
  <2>1. Repaired(Rewrite!RewriteImageRefs(s, base), base)
    BY <1>1, <1>3, MatchedForm
  <2>2. QED
    BY <2>1, RepairedStays, RepairedGood DEF Settled
<1>4. QED
  BY <1>2, <1>3

LEMMA JoinSettles ==
    ASSUME NEW base, Leads(base), NEW a \in Seq(Rewrite!Tokens), NEW c \in Seq(Rewrite!Tokens),
           Settled(a, base), Settled(c, base)
    PROVE  Settled(Three(a, c), base)
<1> DEFINE x == Rewrite!RewriteImageRefs(a, base)
           y == Rewrite!RewriteImageRefs(c, base)
<1>1. base \in Seq(Rewrite!Tokens) /\ Lead(base) \in Seq(Rewrite!Tokens)
  BY LeadFacts DEF Leads
<1>2. x \in Seq(Rewrite!Tokens) /\ y \in Seq(Rewrite!Tokens)
  BY <1>1, RewriteTyped
<1>3. /\ Rewrite!RewriteImageRefs(x, base) = x /\ Rewrite!RewriteImageRefs(y, base) = y
      /\ WellFormed(x, Lead(base)) /\ WellFormed(y, Lead(base))
  BY DEF Settled
<1>4. Rewrite!RewriteImageRefs(Three(a, c), base) = Three(x, y)
  BY <1>1, RewriteThree
<1> HIDE DEF x, y
<1>5. Rewrite!RewriteImageRefs(Three(x, y), base) = Three(x, y)
  <2>1. Rewrite!RewriteImageRefs(Three(x, y), base)
            = Three(Rewrite!RewriteImageRefs(x, base), Rewrite!RewriteImageRefs(y, base))
    BY <1>1, <1>2, RewriteThree
  <2>2. QED
    BY <1>3, <2>1
<1>6. WellFormed(Three(x, y), Lead(base))
  BY <1>1, <1>2, <1>3, WellFormedJoins
<1>7. QED
  BY <1>4, <1>5, <1>6 DEF Settled

LEMMA CutAtGap ==
    ASSUME NEW s \in Seq(Rewrite!Tokens), NEW g \in 1..Len(s), s[g] = "gap"
    PROVE  \E a, c \in Seq(Rewrite!Tokens) :
               s = Three(a, c) /\ Len(a) = g - 1 /\ Len(c) = Len(s) - g
<1>1. g - 1 \in 0..Len(s)
  OBVIOUS
<1>2. PICK a, t \in Seq(Rewrite!Tokens) : s = Cat(a, t) /\ Len(a) = g - 1
  BY <1>1, Parts
<1>3. Len(s) = Len(a) + Len(t) /\ Len(t) \in Nat
  <2>1. Len(Cat(a, t)) = Len(a) + Len(t)
    BY CatTyped, Zenon
  <2>2. QED
    BY <1>2, <2>1
<1>4. 1 \in 1..Len(t) /\ t # <<>>
  BY <1>2, <1>3
<1>5. t[1] = "gap"
  <2>1. Cat(a, t)[Len(a) + 1] = t[1]
    BY <1>4, CatRight, Zenon
  <2>2. QED
    BY <1>2, <2>1
<1>6. PICK c \in Seq(Rewrite!Tokens) : t = Cat(<<t[1]>>, c) /\ Len(t) = 1 + Len(c)
  BY <1>4, FirstAndRest
<1>7. s = Three(a, c)
  BY <1>2, <1>5, <1>6 DEF Three
<1>8. Len(c) = Len(s) - g
  BY <1>2, <1>3, <1>6
<1>9. QED
  BY <1>2, <1>7, <1>8

LEMMA TextSettles ==
    ASSUME NEW base, Leads(base), NEW s \in Seq(Rewrite!Tokens)
    PROVE  Settled(s, base)
<1> DEFINE Bad == {Len(u) : u \in {w \in Seq(Rewrite!Tokens) : ~Settled(w, base)}}
<1>1. SUFFICES ASSUME Bad # {} PROVE FALSE
  OBVIOUS
<1>2. PICK n \in Bad : \A l \in Bad : n <= l
  <2>1. Bad \in SUBSET Nat
    OBVIOUS
  <2> HIDE DEF Bad
  <2>2. QED
    BY <1>1, <2>1, LeastOf
<1>3. PICK u \in Seq(Rewrite!Tokens) : ~Settled(u, base) /\ Len(u) = n
  OBVIOUS
<1>4. ASSUME NEW w \in Seq(Rewrite!Tokens), Len(w) < n PROVE Settled(w, base)
  <2>1. ~Settled(w, base) => Len(w) \in Bad
    OBVIOUS
  <2> HIDE DEF Bad
  <2>2. Len(w) \in Int /\ n \in Int
    BY <1>3
  <2>3. QED
    BY <1>2, <1>4, <2>1, <2>2
<1>5. CASE NoGaps(u)
  BY <1>3, <1>5, StringSettles
<1>6. CASE ~NoGaps(u)
  <2>1. PICK g \in 1..Len(u) : u[g] = "gap"
    BY <1>6 DEF NoGaps
  <2>2. PICK a, c \in Seq(Rewrite!Tokens) :
            u = Three(a, c) /\ Len(a) = g - 1 /\ Len(c) = Len(u) - g
    BY <2>1, CutAtGap
  <2>3. Len(a) < n /\ Len(c) < n
    BY <1>3, <2>2
  <2>4. Settled(a, base) /\ Settled(c, base)
    BY <1>4, <2>3
  <2>5. Settled(Three(a, c), base)
    BY <2>4, JoinSettles
  <2>6. QED
    BY <1>3, <2>2, <2>5
<1>7. QED
  BY <1>5, <1>6

(* What NoMalformedReference asks of a value follows.                      *)
NoneMalformed(v) ==
    \A j \in DOMAIN v : Rewrite!KeyAt(v, j) =>
        \A i \in 1..j : Rewrite!NoGap(v, i, j) /\ v[i] = "htp" =>
            \E k \in 1..i : Rewrite!KeyAt(v, k) /\ Rewrite!NoGap(v, k, i)

LEMMA WellFormedRepaired ==
    ASSUME NEW v \in Seq(Rewrite!Tokens), NEW b, WellFormed(v, b)
    PROVE  NoneMalformed(v)
<1>1. SUFFICES ASSUME NEW j \in 1..Len(v), Rewrite!KeyAt(v, j),
                      NEW i \in 1..j, Rewrite!NoGap(v, i, j), v[i] = "htp"
               PROVE  \E k \in 1..i : Rewrite!KeyAt(v, k) /\ Rewrite!NoGap(v, k, i)
  BY DEF NoneMalformed
<1> DEFINE K == {k \in 1..j : Rewrite!KeyAt(v, k) /\ Rewrite!NoGap(v, k, j)}
<1>2. j \in K
  BY <1>1 DEF Rewrite!NoGap, Rewrite!KeyAt
<1>3. PICK k \in K : \A l \in K : k <= l
  <2>1. K \in SUBSET Nat /\ K # {}
    BY <1>2
  <2> HIDE DEF K
  <2>2. QED
    BY <2>1, LeastOf
<1>4. /\ k \in 1..j /\ k \in 1..Len(v) /\ Rewrite!KeyAt(v, k) /\ Rewrite!NoGap(v, k, j)
  OBVIOUS
<1>5. ~Inner(v, k)
  <2>1. SUFFICES ASSUME NEW l \in 1..k - 1, Rewrite!KeyAt(v, l), Rewrite!NoGap(v, l, k)
                 PROVE  FALSE
    BY DEF Inner
  <2>2. l \in 1..j /\ l < k /\ l \in Int /\ k \in Int
    BY <1>4
  <2>3. Rewrite!NoGap(v, l, j)
    <3>1. \A m \in l..j : m \in l..k \/ m \in k..j
      BY <1>4, <2>2
    <3>2. QED
      BY <1>4, <2>1, <3>1 DEF Rewrite!NoGap
  <2>4. l \in K
    BY <2>1, <2>2, <2>3
  <2> HIDE DEF K
  <2>5. k <= l
    BY <1>3, <2>4
  <2>6. QED
    BY <2>2, <2>5
<1>6. Mended(v, b, k)
  BY <1>4, <1>5 DEF WellFormed
<1>7. CASE i <= k
  <2>1. i \in 1..k /\ \A m \in i..k : m \in i..j
    BY <1>4, <1>7
  <2>2. Rewrite!NoGap(v, i, k)
    BY <1>1, <2>1 DEF Rewrite!NoGap
  <2>3. QED
    BY <1>1, <1>6, <2>1, <2>2 DEF Mended
<1>8. CASE k < i
  <2>1. k \in 1..i /\ \A m \in k..i : m \in k..j
    BY <1>4, <1>8
  <2>2. Rewrite!NoGap(v, k, i)
    BY <1>4, <2>1 DEF Rewrite!NoGap
  <2>3. QED
    BY <1>4, <2>1, <2>2
<1>9. QED
  BY <1>4, <1>7, <1>8

LEMMA FirstIsUrl ==
    ASSUME NEW v \in Seq(Rewrite!Tokens), NEW b \in Seq(Rewrite!Tokens), WellFormed(v, b),
           NEW j \in 1..Len(v), Rewrite!KeyAt(v, j),
           \A l \in 1..Len(v) : Rewrite!KeyAt(v, l) => j <= l
    PROVE  \E i \in 1..j : SubSeq(v, i, Rewrite!KeyEnd(v, j)) = Cat(b, Rewrite!Key(v, j))
<1> DEFINE e == Rewrite!KeyEnd(v, j)
           n == Len(b)
<1>1. e \in j+1..Len(v)
  BY KeyEndFacts
<1> HIDE DEF e
<1>2. ~Inner(v, j)
  BY DEF Inner
<1>3. PICK m \in 0..j : m + n + 1 = j /\ \A l \in 1..n : v[m + l] = b[l]
  BY <1>2 DEF WellFormed, Mended, Preceded
<1>4. n \in Nat
  OBVIOUS
<1> DEFINE x == SubSeq(v, m + 1, e)
           k == SubSeq(v, j, e)
           d == e - j + 1
<1>5. m + 1 \in 1..j /\ m \in Nat /\ d \in Nat
  BY <1>1, <1>3, <1>4
<1>6. /\ x \in Seq(Rewrite!Tokens) /\ Len(x) = e - m
      /\ \A i \in 1..e - m : x[i] = v[m + i]
  <2>1. \A i \in m+1..e : v[i] \in Rewrite!Tokens
    BY <1>1, <1>5
  <2>2. e - (m + 1) + 1 = e - m /\ m + 1 <= e /\ m + 1 \in Int /\ e \in Int
    BY <1>1, <1>5
  <2>3. /\ x \in Seq(Rewrite!Tokens) /\ Len(x) = e - (m + 1) + 1
        /\ \A i \in 1..e - (m + 1) + 1 : x[i] = v[(m + 1) + i - 1]
    BY <2>1, <2>2, SubSeqProperties
  <2>4. \A i \in 1..e - m : (m + 1) + i - 1 = m + i
    BY <1>5
  <2>5. QED
    BY <2>2, <2>3, <2>4
<1>7. /\ k \in Seq(Rewrite!Tokens) /\ Len(k) = d
      /\ \A i \in 1..d : k[i] = v[j + i - 1]
  <2>1. \A i \in j..e : v[i] \in Rewrite!Tokens
    BY <1>1
  <2>2. QED
    BY <1>1, <2>1, SubSeqProperties
<1> HIDE DEF x, k, d, n
<1> DEFINE y == Cat(b, k)
<1>8. y \in Seq(Rewrite!Tokens) /\ Len(y) = n + Len(k)
  BY <1>7, CatTyped DEF n
<1>9. \A i \in 1..n : y[i] = b[i]
  BY <1>7, CatLeft DEF n
<1>10. \A i \in 1..Len(k) : y[n + i] = k[i]
  <2>1. k \in Seq(Rewrite!Tokens)
    BY <1>7
  <2>2. QED
    BY <2>1, CatRight, Zenon DEF n
<1> HIDE DEF y
<1>11. Len(x) = Len(y)
  BY <1>1, <1>3, <1>4, <1>6, <1>7, <1>8 DEF d
<1>12. ASSUME NEW i \in 1..Len(x) PROVE x[i] = y[i]
  <2>1. CASE i <= n
    <3>1. i \in 1..n /\ i \in 1..e - m
      BY <1>4, <1>6, <2>1
    <3>2. QED
      BY <1>3, <1>6, <1>9, <3>1
  <2>2. CASE ~(i <= n)
    <3> DEFINE l == i - n
    <3>1. l \in 1..d /\ n + l = i /\ j + l - 1 = m + i /\ i \in 1..e - m
      BY <1>1, <1>3, <1>4, <1>6, <2>2 DEF d
    <3> HIDE DEF l
    <3>2. y[n + l] = k[l] /\ k[l] = v[j + l - 1] /\ x[i] = v[m + i]
      BY <1>6, <1>7, <1>10, <3>1
    <3>3. QED
      BY <3>1, <3>2
  <2>3. QED
    BY <2>1, <2>2
<1>13. x = y
  BY <1>6, <1>8, <1>11, <1>12, SeqEqual
<1>14. QED
  BY <1>5, <1>13 DEF x, y, k, e, Rewrite!Key

(* The base URL: PublicBase leads with a scheme and holds no key, and, for *)
(* settings spelled the usual way, FileEntity builds the same.             *)
LEMMA StripFacts ==
    ASSUME NEW u, Rewrite!IsAddress(u)
    PROVE  LET t == Rewrite!StripSlashes(u)
           IN /\ t = <<>> <=> u = <<>>
              /\ t \in Seq({"http", "/", "text"}) /\ (t # <<>> => t[1] = "http")
              /\ Rewrite!UsualUrl(u) => Rewrite!StripSlash(u) = t
<1> DEFINE P(n) == (\A i \in n+1..Len(u) : u[i] = "/") /\ (n # 0 => u[n] # "/")
           n == CHOOSE n \in 0..Len(u) : P(n)
           t == SubSeq(u, 1, n)
           S == {i \in 0..Len(u) : i = 0 \/ u[i] # "/"}
<1>1. u \in Seq({"http", "/", "text"}) /\ (u # <<>> => u[1] = "http") /\ Len(u) \in Nat
  BY DEF Rewrite!IsAddress
<1>2. PICK g \in S : \A l \in S : l <= g
  <2>1. S \in SUBSET (0..Len(u)) /\ S # {}
    BY <1>1
  <2> HIDE DEF S
  <2>2. QED
    BY <1>1, <2>1, GreatestOf
<1>3. g \in 0..Len(u) /\ P(g)
  <2>1. ASSUME NEW i \in g+1..Len(u), u[i] # "/" PROVE FALSE
    <3>1. i \in S /\ g \in 0..Len(u)
      BY <1>1, <2>1
    <3> HIDE DEF S
    <3>2. i <= g
      BY <1>2, <3>1
    <3>3. QED
      BY <3>1, <3>2
  <2>2. QED
    BY <2>1
<1>4. n \in 0..Len(u) /\ P(n)
  <2> HIDE DEF P
  <2>1. QED
    BY <1>3
<1>5. Rewrite!StripSlashes(u) = t
  BY DEF Rewrite!StripSlashes
<1> HIDE DEF n
<1>6. /\ t \in Seq({"http", "/", "text"}) /\ Len(t) = n /\ \A i \in 1..n : t[i] = u[i]
  <2>1. \A i \in 1..n : u[i] \in {"http", "/", "text"}
    BY <1>1, <1>4
  <2>2. n \in Int /\ 1 \in Int /\ (1 <= n + 1)
    BY <1>1, <1>4
  <2>3. QED
    BY <1>1, <1>4
<1>7. u # <<>> => n # 0
  <2>1. u # <<>> => 1 \in 1..Len(u) /\ u[1] # "/"
    BY <1>1
  <2>2. QED
    BY <1>4, <2>1
<1>8. u = <<>> => n = 0
  BY <1>1, <1>4
<1>9. t = <<>> <=> n = 0
  BY <1>4, <1>6
<1>10. t # <<>> => t[1] = "http"
  BY <1>1, <1>4, <1>6, <1>8, <1>9
<1>11. ASSUME Rewrite!UsualUrl(u) PROVE Rewrite!StripSlash(u) = t
  <2>1. CASE u = <<>>
    BY <1>8, <2>1 DEF Rewrite!StripSlash, Rewrite!EndsInSlash
  <2>2. CASE u # <<>> /\ u[Len(u)] # "/"
    <3>1. n = Len(u)
      BY <1>1, <1>4, <2>2
    <3>2. t = u
      BY <1>1, <3>1
    <3>3. QED
      BY <2>2, <3>2 DEF Rewrite!StripSlash, Rewrite!EndsInSlash
  <2>3. CASE u # <<>> /\ u[Len(u)] = "/"
    <3>1. /\ Len(u) # 1 /\ Len(u) \in Nat \ {0}
          /\ Len(u) - 1 \in 1..Len(u) /\ (Len(u) - 1) + 1 = Len(u)
      BY <1>1, <2>3
    <3>2. u[Len(u) - 1] # "/"
      <4> DEFINE i == Len(u) - 1
      <4>1. i \in DOMAIN u /\ i + 1 = Len(u) /\ u[i + 1] = "/"
        BY <1>1, <2>3, <3>1
      <4> HIDE DEF i
      <4>2. u[i] # "/"
        BY <1>11, <4>1 DEF Rewrite!UsualUrl
      <4>3. QED
        BY <4>2 DEF i
    <3>3. n # Len(u) /\ ~(n < Len(u) - 1)
      <4>1. n < Len(u) - 1 => Len(u) - 1 \in n+1..Len(u)
        BY <1>4, <3>1
      <4>2. QED
        BY <1>4, <1>7, <2>3, <3>2, <4>1
    <3>4. n = Len(u) - 1
      <4>1. n \in 0..Len(u) /\ Len(u) \in Int
        BY <1>1, <1>4
      <4>2. QED
        BY <3>3, <4>1
    <3>5. QED
      BY <2>3, <3>4 DEF Rewrite!StripSlash, Rewrite!EndsInSlash
  <2>4. QED
    BY <2>1, <2>2, <2>3
<1>12. QED
  BY <1>5, <1>6, <1>7, <1>8, <1>9, <1>10, <1>11

LEMMA BaseFacts ==
    ASSUME NEW e \in Envs, Rewrite!PublicBase(e) # <<>>
    PROVE  /\ Leads(Rewrite!PublicBase(e))
           /\ Rewrite!Usual(e) =>
                  \A k : Rewrite!AppUrl(e, k) = Cat(Lead(Rewrite!PublicBase(e)), k)
<1> DEFINE c == Rewrite!StripSlashes(e.cdn)
           d == Rewrite!StripSlashes(e.s3)
           b == IF c # <<>> THEN c ELSE d
           named == e.bucket /\ e.include \in {"true", "TRUE"}
<1>1. Rewrite!IsAddress(e.cdn) /\ Rewrite!IsAddress(e.s3) /\ e.bucket \in BOOLEAN
  BY RewriteAssumption DEF Rewrite!TextsAssumption
<1>2. /\ c = <<>> <=> e.cdn = <<>>
      /\ c \in Seq({"http", "/", "text"}) /\ (c # <<>> => c[1] = "http")
      /\ Rewrite!UsualUrl(e.cdn) => Rewrite!StripSlash(e.cdn) = c
  BY <1>1, StripFacts
<1>3. /\ d = <<>> <=> e.s3 = <<>>
      /\ d \in Seq({"http", "/", "text"}) /\ (d # <<>> => d[1] = "http")
      /\ Rewrite!UsualUrl(e.s3) => Rewrite!StripSlash(e.s3) = d
  BY <1>1, StripFacts
<1>4. Rewrite!PublicBase(e) = IF b # <<>> /\ named THEN b \o <<"/", "bucket">> ELSE b
  BY DEF Rewrite!PublicBase
<1> HIDE DEF c, d
<1>5. b # <<>>
  BY <1>4
<1>6. b \in Seq({"http", "/", "text"}) /\ b[1] = "http"
  BY <1>2, <1>3, <1>5
<1>7. Rewrite!Usual(e) => \A k : Rewrite!AppUrl(e, k) = (Rewrite!PublicBase(e) \o <<"/">>) \o k
  <2>1. ASSUME Rewrite!Usual(e), NEW k
        PROVE  Rewrite!AppUrl(e, k) = (Rewrite!PublicBase(e) \o <<"/">>) \o k
    <3>1. Rewrite!StripSlash(IF e.cdn # <<>> THEN e.cdn ELSE e.s3) = b
      BY <1>2, <1>3, <2>1 DEF Rewrite!Usual
    <3>2. e.include = "true" /\ e.bucket <=> named
      BY <2>1 DEF Rewrite!Usual
    <3> HIDE DEF b, named
    <3>3. QED
      BY <1>4, <1>5, <3>1, <3>2 DEF Rewrite!AppUrl
  <2>2. QED
    BY <2>1
<1> HIDE DEF b, named
<1>8. CASE Rewrite!PublicBase(e) = b
  <2>1. b \in Seq(Rewrite!Tokens) /\ \A j \in 1..Len(b) : b[j] \in {"http", "/", "text", "bucket"}
    BY <1>6 DEF Rewrite!Tokens, Rewrite!Schemes
  <2>2. Leads(b)
    BY <1>5, <1>6, <2>1 DEF Leads
  <2>3. QED
    BY <1>7, <1>8, <2>2 DEF Cat, Lead
<1>9. CASE Rewrite!PublicBase(e) = b \o <<"/", "bucket">>
  <2> DEFINE v == b \o <<"/", "bucket">>
  <2>1. b \in Seq(Rewrite!Tokens) /\ b \in Seq({"http", "/", "text", "bucket"})
    BY <1>6 DEF Rewrite!Tokens, Rewrite!Schemes
  <2>2. /\ <<"/", "bucket">> \in Seq(Rewrite!Tokens)
        /\ <<"/", "bucket">> \in Seq({"http", "/", "text", "bucket"})
    BY DEF Rewrite!Tokens
  <2>3. v \in Seq(Rewrite!Tokens) /\ v \in Seq({"http", "/", "text", "bucket"})
    BY <2>1, <2>2, ConcatProperties
  <2>4. v # <<>> /\ v[1] = "http"
    BY <1>5, <1>6
  <2> HIDE DEF v
  <2>5. Leads(v)
    BY <2>3, <2>4 DEF Leads
  <2>6. QED
    BY <1>7, <1>9, <2>5 DEF Cat, Lead, v
<1>10. QED
  BY <1>4, <1>8, <1>9

(* The path of a files row: after a run it is a bare key to its end, or no *)
(* key can be read from it and no prefix is left to strip.                 *)
Bare(v)   == Rewrite!KeyAt(v, 1) /\ NoGaps(v)
Keyless(v) == NoKeys(v) /\ v[1] \notin {"/", "uploads"}
Normal(v) == v \in Seq(Rewrite!Tokens) /\ v # <<>> /\ (Bare(v) \/ Keyless(v))

LEMMA HasKeyFacts ==
    ASSUME NEW s \in Seq(Rewrite!Tokens)
    PROVE  Rewrite!HasKey(s) <=> ~NoKeys(s)
BY DEF Rewrite!HasKey, NoKeys

(* The first key of a path, to its end.                                    *)
LEMMA FirstKey ==
    ASSUME NEW s \in Seq(Rewrite!Tokens), ~NoKeys(s)
    PROVE  \E j \in 1..Len(s) :
               /\ Rewrite!KeyAt(s, j) /\ \A l \in 1..Len(s) : Rewrite!KeyAt(s, l) => j <= l
               /\ Rewrite!FirstOf({l \in DOMAIN s : Rewrite!KeyAt(s, l)}) = j
               /\ Rewrite!NormalizeFileKey(s) = SubSeq(s, j, Rewrite!KeyEnd(s, j))
<1> DEFINE K == {l \in DOMAIN s : Rewrite!KeyAt(s, l)}
           j == Rewrite!FirstOf(K)
<1>1. K \in SUBSET Nat /\ K # {} /\ \A l : l \in K <=> l \in 1..Len(s) /\ Rewrite!KeyAt(s, l)
  BY DEF NoKeys
<1>2. Rewrite!NormalizeFileKey(s) = SubSeq(s, j, Rewrite!KeyEnd(s, j))
  BY HasKeyFacts DEF Rewrite!NormalizeFileKey, Rewrite!Key
<1> HIDE DEF K
<1>3. \E m \in K : \A l \in K : m <= l
  BY <1>1, LeastOf
<1>4. j \in K /\ \A l \in K : j <= l
  BY <1>3 DEF Rewrite!FirstOf
<1>5. QED
  BY <1>1, <1>2, <1>4 DEF K

LEMMA BareStays ==
    ASSUME NEW v, Normal(v)
    PROVE  Rewrite!NormalizeFileKey(v) = v /\ NoneMalformed(v)
<1>1. v \in Seq(Rewrite!Tokens) /\ Len(v) \in Nat \ {0} /\ 1 \in 1..Len(v)
  BY DEF Normal
<1>2. CASE Bare(v)
  <2>1. Rewrite!KeyAt(v, 1) /\ ~NoKeys(v)
    BY <1>1, <1>2 DEF Bare, NoKeys
  <2>2. PICK j \in 1..Len(v) :
            /\ \A l \in 1..Len(v) : Rewrite!KeyAt(v, l) => j <= l
            /\ Rewrite!NormalizeFileKey(v) = SubSeq(v, j, Rewrite!KeyEnd(v, j))
    BY <1>1, <2>1, FirstKey
  <2>3. j = 1
    BY <1>1, <2>1, <2>2
  <2>4. Rewrite!KeyEnd(v, 1) = Len(v)
    <3>1. Len(v) \in 1..Len(v) /\ Rewrite!NoGap(v, 1, Len(v))
      BY <1>1, <1>2 DEF Bare, NoGaps, Rewrite!NoGap
    <3>2. QED
      BY <1>1, <2>1, <3>1, KeyEndUnique
  <2>5. SubSeq(v, 1, Len(v)) = v
    BY <1>1
  <2>6. ASSUME NEW i \in 1..Len(v)
        PROVE  \E k \in 1..i : Rewrite!KeyAt(v, k) /\ Rewrite!NoGap(v, k, i)
    <3>1. 1 \in 1..i /\ Rewrite!NoGap(v, 1, i)
      BY <1>1, <1>2 DEF Bare, NoGaps, Rewrite!NoGap
    <3>2. QED
      BY <2>1, <3>1
  <2>7. \A j1 \in DOMAIN v : \A i \in 1..j1 : i \in 1..Len(v)
    BY <1>1
  <2>8. NoneMalformed(v)
    BY <2>6, <2>7 DEF NoneMalformed
  <2>9. QED
    BY <2>2, <2>3, <2>4, <2>5, <2>8
<1>3. CASE Keyless(v)
  <2>1. NoKeys(v) /\ v[1] \notin {"/", "uploads"}
    BY <1>3 DEF Keyless
  <2>2. Rewrite!NormalizeFileKey(v) = v
    BY <1>1, <2>1, HasKeyFacts DEF Rewrite!NormalizeFileKey, Rewrite!StripUploadsPrefix
  <2>3. NoneMalformed(v)
    BY <1>1, <2>1 DEF NoneMalformed, NoKeys
  <2>4. QED
    BY <2>2, <2>3
<1>4. QED
  BY <1>2, <1>3 DEF Normal

LEMMA KeyIsBare ==
    ASSUME NEW s \in Seq(Rewrite!Tokens), ~NoKeys(s)
    PROVE  Normal(Rewrite!NormalizeFileKey(s))
<1>1. PICK j \in 1..Len(s) :
          /\ Rewrite!KeyAt(s, j)
          /\ Rewrite!NormalizeFileKey(s) = SubSeq(s, j, Rewrite!KeyEnd(s, j))
  BY FirstKey
<1> DEFINE e == Rewrite!KeyEnd(s, j)
           v == SubSeq(s, j, e)
<1>2. e \in j+1..Len(s) /\ Rewrite!NoGap(s, j, e)
  BY <1>1, KeyEndFacts
<1> HIDE DEF e
<1>3. /\ v \in Seq(Rewrite!Tokens) /\ Len(v) = e - j + 1
      /\ \A i \in 1..e - j + 1 : v[i] = s[j + i - 1]
  <2>1. \A i \in j..e : s[i] \in Rewrite!Tokens
    BY <1>2
  <2>2. QED
    BY <1>2, <2>1, SubSeqProperties
<1> HIDE DEF v
<1>4. ASSUME NEW i \in 1..Len(v) PROVE v[i] # "gap"
  <2>1. i \in 1..e - j + 1 /\ j + i - 1 \in j..e
    BY <1>2, <1>3
  <2>2. QED
    BY <1>2, <1>3, <2>1 DEF Rewrite!NoGap
<1>5. 1 < Len(v) /\ 1 \in 1..Len(v) /\ 1 + 1 \in 1..Len(v) /\ j + 1 - 1 = j
  BY <1>2, <1>3
<1>6. v[1] = "key"
  BY <1>1, <1>3, <1>5 DEF Rewrite!KeyAt
<1>7. Rewrite!KeyAt(v, 1)
  BY <1>4, <1>5, <1>6 DEF Rewrite!KeyAt
<1>8. QED
  BY <1>1, <1>3, <1>4, <1>5, <1>7 DEF Normal, Bare, NoGaps, v, e

LEMMA FormNormal ==
    ASSUME NEW n \in FileNames, NEW s \in Rewrite!StoredForms(n)
    PROVE  s \in Seq(Rewrite!Tokens) /\ Normal(Rewrite!NormalizeFileKey(s))
<1> DEFINE Prefixes == {<<"/", "uploads">>, <<"uploads">>, <<>>,
                        <<"http", "text", "/">>, <<"htp", "text", "/">>}
           t == <<"key">> \o n
<1>1. PICK p \in Prefixes : s = p \o <<"key">> \o n
  BY DEF Rewrite!StoredForms
<1>2. n \in Seq(Rewrite!Tokens) /\ n # <<>>
  BY RewriteAssumption DEF Rewrite!TextsAssumption
<1>3. p \in Seq(Rewrite!Tokens) /\ <<"key">> \in Seq(Rewrite!Tokens)
  <2>1. CASE p = <<"/", "uploads">>
    BY <2>1 DEF Rewrite!Tokens
  <2>2. CASE p = <<"uploads">>
    BY <2>2 DEF Rewrite!Tokens
  <2>3. CASE p = <<>>
    BY <2>3 DEF Rewrite!Tokens
  <2>4. CASE p = <<"http", "text", "/">>
    BY <2>4 DEF Rewrite!Tokens, Rewrite!Schemes
  <2>5. CASE p = <<"htp", "text", "/">>
    BY <2>5 DEF Rewrite!Tokens, Rewrite!Schemes
  <2>6. QED
    BY <2>1, <2>2, <2>3, <2>4, <2>5
<1>4. t \in Seq(Rewrite!Tokens) /\ t # <<>> /\ t[1] = "key" /\ Len(t) = 1 + Len(n)
  BY <1>2 DEF Rewrite!Tokens
<1>5. s = Cat(p, t)
  BY <1>1, <1>2, <1>3, Regrouped DEF Cat
<1> HIDE DEF t
<1>6. s \in Seq(Rewrite!Tokens) /\ Window(s, t, Len(p)) /\ Len(s) = Len(p) + Len(t)
  BY <1>3, <1>4, <1>5, CatTyped, CatWindow
<1>7. CASE NoKeys(s)
  <2>1. Rewrite!NormalizeFileKey(s) = Rewrite!StripUploadsPrefix(s)
    BY <1>6, <1>7, HasKeyFacts DEF Rewrite!NormalizeFileKey
  <2>2. NoKeys(t)
    <3>1. ASSUME NEW j \in 1..Len(t) PROVE ~Rewrite!KeyAt(t, j)
      <4>1. Len(p) \in Nat /\ Len(p) + j \in 1..Len(s)
        BY <1>3, <1>6
      <4>2. Rewrite!KeyAt(s, Len(p) + j) <=> Rewrite!KeyAt(t, j)
        BY <1>4, <1>6, <4>1, WindowKeyAt
      <4>3. QED
        BY <1>7, <4>1, <4>2 DEF NoKeys
    <3>2. QED
      BY <3>1 DEF NoKeys
  <2>3. Normal(t)
    BY <1>4, <2>2 DEF Normal, Keyless
  <2>4. \A j \in 1..Len(p) : s[j] = p[j]
    BY <1>3, <1>4, <1>5, CatLeft
  <2>5. \A j \in 1..Len(t) : s[Len(p) + j] = t[j]
    BY <1>6 DEF Window
  <2>6. CASE p = <<"/", "uploads">>
    <3>1. s[1] = "/" /\ s[2] = "uploads" /\ Len(s) = 2 + Len(t)
      BY <1>6, <2>4, <2>6
    <3>2. Rewrite!StripUploadsPrefix(s) = SubSeq(s, 3, Len(s))
      BY <1>4, <3>1 DEF Rewrite!StripUploadsPrefix
    <3>3. SubSeq(s, 2 + 1, 2 + Len(t)) = SubSeq(t, 1, Len(t))
      <4>1. Window(s, t, 2) /\ 1 \in 1..Len(t) /\ Len(t) \in 1..Len(t) /\ 2 \in Nat
        BY <1>4, <1>6, <2>6
      <4>2. QED
        BY <1>4, <1>6, <4>1, SubSeqShift
    <3>4. SubSeq(t, 1, Len(t)) = t
      BY <1>4
    <3>5. 2 + 1 = 3
      OBVIOUS
    <3>6. Rewrite!StripUploadsPrefix(s) = t
      BY <3>1, <3>2, <3>3, <3>4, <3>5, Zenon
    <3>7. Normal(Rewrite!NormalizeFileKey(s))
      BY <2>1, <2>3, <3>6
    <3>8. QED
      BY <1>6, <3>7
  <2>7. CASE p = <<"uploads">>
    <3>1. s[1] = "uploads" /\ Len(s) = 1 + Len(t)
      BY <1>6, <2>4, <2>7
    <3>2. Rewrite!StripUploadsPrefix(s) = Tail(s)
      BY <1>4, <1>6, <3>1 DEF Rewrite!StripUploadsPrefix
    <3>3. Tail(s) = t
      <4>1. \A j \in 1..Len(t) : s[1 + j] = t[j]
        BY <2>5, <2>7
      <4>2. Tail(s) \in Seq(Rewrite!Tokens) /\ Len(Tail(s)) = Len(t)
        BY <1>4, <1>6, <3>1
      <4>3. \A j \in 1..Len(t) : Tail(s)[j] = s[j + 1]
        BY <1>4, <1>6, <3>1
      <4>4. QED
        BY <1>4, <4>1, <4>2, <4>3, SeqEqual
    <3>4. QED
      BY <1>6, <2>1, <2>3, <3>2, <3>3
  <2>8. CASE p = <<>>
    <3>1. s = t
      BY <1>4, <1>5, <2>8, CatEmpty
    <3>2. Rewrite!StripUploadsPrefix(s) = t
      BY <1>4, <3>1 DEF Rewrite!StripUploadsPrefix
    <3>3. Rewrite!NormalizeFileKey(s) = t
      BY <2>1, <3>2, Zenon
    <3>4. Normal(Rewrite!NormalizeFileKey(s))
      BY <2>3, <3>3
    <3>5. QED
      BY <1>6, <3>4
  <2>9. CASE p = <<"http", "text", "/">> \/ p = <<"htp", "text", "/">>
    <3>1. s # <<>> /\ s[1] \in {"http", "htp"}
      BY <1>6, <2>4, <2>9
    <3>2. Rewrite!StripUploadsPrefix(s) = s
      BY <3>1 DEF Rewrite!StripUploadsPrefix
    <3>3. QED
      BY <1>6, <1>7, <2>1, <3>1, <3>2 DEF Normal, Keyless
  <2>10. QED
    BY <2>6, <2>7, <2>8, <2>9
<1>8. CASE ~NoKeys(s)
  BY <1>6, <1>8, KeyIsBare
<1>9. QED
  BY <1>6, <1>7, <1>8

LEMMA GapParts ==
    ASSUME NEW s \in Seq(Rewrite!Tokens), NEW g \in 1..Len(s), s[g] = "gap"
    PROVE  s = SubSeq(s, 1, g - 1) \o <<"gap">> \o SubSeq(s, g + 1, Len(s))
<1>1. PICK a, c \in Seq(Rewrite!Tokens) :
          s = Three(a, c) /\ Len(a) = g - 1 /\ Len(c) = Len(s) - g
  BY CutAtGap
<1>2. Window(s, a, 0) /\ Window(s, c, Len(a) + 1)
  BY <1>1, ThreeFacts
<1> DEFINE x == SubSeq(s, 1, g - 1)
           y == SubSeq(s, g + 1, Len(s))
           q == <<"gap">>
<1>3. x = a
  <2>1. x \in Seq(Rewrite!Tokens) /\ Len(x) = g - 1 /\ \A j \in 1..g - 1 : x[j] = s[j]
    OBVIOUS
  <2>2. \A j \in 1..Len(a) : s[j] = a[j]
    BY <1>2 DEF Window
  <2> HIDE DEF x
  <2>3. QED
    BY <1>1, <2>1, <2>2, SeqEqual
<1>4. y = c
  <2>1. /\ y \in Seq(Rewrite!Tokens) /\ Len(y) = Len(s) - g
        /\ \A j \in 1..Len(s) - g : y[j] = s[g + j]
    OBVIOUS
  <2>2. \A j \in 1..Len(c) : s[g + j] = c[j]
    BY <1>1, <1>2 DEF Window
  <2> HIDE DEF y
  <2>3. QED
    BY <1>1, <2>1, <2>2, SeqEqual
<1> HIDE DEF x, y, q
<1>5. q \in Seq(Rewrite!Tokens)
  BY DEF q, Rewrite!Tokens
<1>6. s = Cat(a, Cat(q, c))
  BY <1>1 DEF Three, q
<1>7. (a \o q) \o c = a \o (q \o c)
  BY <1>5, Regrouped
<1>8. s = x \o q \o y
  BY <1>3, <1>4, <1>6, <1>7 DEF Cat
<1>9. QED
  BY <1>8 DEF x, y, q

(* After any number of runs a value is what the first run made of it.      *)
Base == Rewrite!PublicBase(env)
TextHolds ==
    /\ original \in Seq(Rewrite!Tokens)
    /\ value = IF rewrites = 0 THEN original ELSE Rewrite!RewriteImageRefs(original, Base)
PathHolds ==
    /\ \E n \in FileNames : original \in Rewrite!StoredForms(n)
    /\ value = IF rewrites = 0 THEN original ELSE Rewrite!NormalizeFileKey(original)
RefInv ==
    /\ rewrites \in Nat /\ env \in Envs /\ Base # <<>> /\ column \in {"text", "files"}
    /\ column = "text" => TextHolds
    /\ column = "files" => PathHolds

LEMMA BaseLeads ==
    ASSUME RefInv PROVE Leads(Base) /\ Base \in Seq(Rewrite!Tokens)
<1>1. Leads(Base)
  BY BaseFacts DEF RefInv, Base
<1>2. QED
  BY <1>1 DEF Leads

(* The first run, and every other.                                         *)
LEMMA FirstRun ==
    ASSUME RefInv, Rewrite!Migrate, column = "text", rewrites = 0
    PROVE  value' = Rewrite!RewriteImageRefs(original, Base)
<1>1. value = original /\ original \in Seq(Rewrite!Tokens)
  BY DEF RefInv, TextHolds
<1>2. CASE \E i \in DOMAIN value : value[i] = "key"
  BY <1>1, <1>2 DEF Rewrite!Migrate, Base
<1>3. CASE ~\E i \in DOMAIN value : value[i] = "key"
  <2>1. value' = value
    BY <1>3 DEF Rewrite!Migrate
  <2>2. NoKeys(original)
    BY <1>1, <1>3 DEF NoKeys, Rewrite!KeyAt
  <2>3. QED
    BY <1>1, <2>1, <2>2, BaseLeads, NoKeysKept
<1>4. QED
  BY <1>2, <1>3

LEMMA FirstPath ==
    ASSUME RefInv, Rewrite!Migrate, column = "files", rewrites = 0
    PROVE  value' = Rewrite!NormalizeFileKey(original)
BY DEF RefInv, PathHolds, Rewrite!Migrate

LEMMA LaterRun ==
    ASSUME RefInv, Rewrite!Migrate, rewrites > 0
    PROVE  value' = value
<1>1. CASE column = "text"
  <2>1. /\ original \in Seq(Rewrite!Tokens)
        /\ value = Rewrite!RewriteImageRefs(original, Base)
    BY <1>1 DEF RefInv, TextHolds
  <2>2. Rewrite!RewriteImageRefs(value, Base) = value
    <3>1. Settled(original, Base)
      BY <2>1, BaseLeads, TextSettles
    <3>2. QED
      BY <2>1, <3>1 DEF Settled
  <2>3. value' = value \/ value' = Rewrite!RewriteImageRefs(value, Base)
    BY <1>1 DEF Rewrite!Migrate, Base
  <2>4. QED
    BY <2>2, <2>3
<1>2. CASE column = "files"
  <2>1. PICK n \in FileNames : original \in Rewrite!StoredForms(n)
    BY <1>2 DEF RefInv, PathHolds
  <2>2. value = Rewrite!NormalizeFileKey(original)
    BY <1>2 DEF RefInv, PathHolds
  <2>3. Normal(value)
    BY <2>1, <2>2, FormNormal
  <2>4. value' = Rewrite!NormalizeFileKey(value)
    BY <1>2 DEF Rewrite!Migrate
  <2>5. QED
    BY <2>3, <2>4, BareStays
<1>3. QED
  BY <1>1, <1>2 DEF RefInv

LEMMA RefInductive == Rewrite!Spec => []RefInv
<1>1. Rewrite!Init => RefInv
  <2>1. SUFFICES ASSUME Rewrite!Init PROVE RefInv
    OBVIOUS
  <2>2. CASE column = "text"
    BY <2>1, <2>2, RewriteAssumption
       DEF Rewrite!Init, RefInv, TextHolds, Base, Rewrite!TextsAssumption
  <2>3. CASE column = "files"
    BY <2>1, <2>3 DEF Rewrite!Init, RefInv, PathHolds, Base
  <2>4. QED
    BY <2>1, <2>2, <2>3 DEF Rewrite!Init
<1>2. ASSUME RefInv, Rewrite!Migrate PROVE RefInv'
  <2>1. /\ rewrites' = rewrites + 1 /\ rewrites \in Nat /\ rewrites' \in Nat
        /\ env' = env /\ column' = column /\ original' = original /\ Base' = Base
    BY <1>2 DEF Rewrite!Migrate, RefInv, Base
  <2>2. rewrites' # 0 /\ (rewrites = 0 \/ rewrites > 0)
    BY <2>1
  <2>3. CASE column = "text"
    <3>1. value' = Rewrite!RewriteImageRefs(original, Base)
      BY <1>2, <2>2, <2>3, FirstRun, LaterRun DEF RefInv, TextHolds
    <3>2. TextHolds'
      BY <1>2, <2>1, <2>2, <2>3, <3>1 DEF RefInv, TextHolds
    <3>3. QED
      BY <1>2, <2>1, <2>3, <3>2 DEF RefInv
  <2>4. CASE column = "files"
    <3>1. value' = Rewrite!NormalizeFileKey(original)
      BY <1>2, <2>2, <2>4, FirstPath, LaterRun DEF RefInv, PathHolds
    <3>2. PathHolds'
      BY <1>2, <2>1, <2>2, <2>4, <3>1 DEF RefInv, PathHolds
    <3>3. QED
      BY <1>2, <2>1, <2>4, <3>2 DEF RefInv
  <2>5. QED
    BY <1>2, <2>3, <2>4 DEF RefInv
<1>3. RefInv /\ UNCHANGED Rewrite!vars => RefInv'
  BY DEF RefInv, TextHolds, PathHolds, Base, Rewrite!vars
<1>4. QED
  BY <1>1, <1>2, <1>3, PTL DEF Rewrite!Spec

(* A run after the first one changes nothing, whatever text or path the    *)
(* first one met and whatever the settings name: main may be started again *)
(* after a crash.                                                          *)
THEOREM RunsOnce == Rewrite!Spec => Idempotent
<1>1. RefInv /\ [Rewrite!Migrate]_Rewrite!vars => (rewrites > 0 => value' = value)
  BY LaterRun DEF Rewrite!vars
<1>2. QED
  BY <1>1, RefInductive, PTL DEF Rewrite!Spec, Idempotent, Rewrite!Idempotent

(* After a run no reference keeps a scheme without its colon, and no       *)
(* string of the text was repaired by what stands in another: for texts of *)
(* any length and file names of any form.                                  *)
THEOREM Repairs == Rewrite!Spec => []TextsRepaired
<1>1. ASSUME RefInv PROVE Rewrite!NoMalformedReference
  <2>1. CASE rewrites = 0
    BY <2>1 DEF Rewrite!NoMalformedReference
  <2>2. CASE rewrites # 0 /\ column = "text"
    <3>1. /\ original \in Seq(Rewrite!Tokens)
          /\ value = Rewrite!RewriteImageRefs(original, Base)
      BY <1>1, <2>2 DEF RefInv, TextHolds
    <3>2. Settled(original, Base) /\ value \in Seq(Rewrite!Tokens)
      BY <1>1, <3>1, BaseLeads, TextSettles, RewriteTyped
    <3>3. WellFormed(value, Lead(Base))
      BY <3>1, <3>2 DEF Settled
    <3>4. NoneMalformed(value)
      BY <3>2, <3>3, WellFormedRepaired
    <3>5. QED
      BY <3>4 DEF NoneMalformed, Rewrite!NoMalformedReference
  <2>3. CASE rewrites # 0 /\ column = "files"
    <3>1. PICK n \in FileNames : original \in Rewrite!StoredForms(n)
      BY <1>1, <2>3 DEF RefInv, PathHolds
    <3>2. value = Rewrite!NormalizeFileKey(original)
      BY <1>1, <2>3 DEF RefInv, PathHolds
    <3>3. NoneMalformed(value)
      BY <3>1, <3>2, FormNormal, BareStays
    <3>4. QED
      BY <3>3 DEF NoneMalformed, Rewrite!NoMalformedReference
  <2>4. QED
    BY <1>1, <2>1, <2>2, <2>3 DEF RefInv
<1>2. ASSUME RefInv PROVE Rewrite!StringsIndependent
  <2>1. SUFFICES ASSUME column = "text", NEW g \in DOMAIN original, original[g] = "gap"
                 PROVE  Rewrite!RewriteImageRefs(original, Base)
                            = Rewrite!RewriteImageRefs(SubSeq(original, 1, g - 1), Base)
                                  \o <<"gap">>
                                  \o Rewrite!RewriteImageRefs(
                                         SubSeq(original, g + 1, Len(original)), Base)
    BY DEF Rewrite!StringsIndependent, Base
  <2>2. original \in Seq(Rewrite!Tokens) /\ Base \in Seq(Rewrite!Tokens)
    BY <1>2, <2>1, BaseLeads DEF RefInv, TextHolds
  <2> DEFINE a == SubSeq(original, 1, g - 1)
             c == SubSeq(original, g + 1, Len(original))
  <2>3. a \in Seq(Rewrite!Tokens) /\ c \in Seq(Rewrite!Tokens)
    BY <2>1, <2>2
  <2>4. original = a \o <<"gap">> \o c
    <3>1. g \in 1..Len(original) /\ original[g] = "gap"
      BY <2>1, <2>2
    <3>2. QED
      BY <2>2, <3>1, GapParts, Zenon
  <2> HIDE DEF a, c
  <2>5. Rewrite!RewriteImageRefs(a \o <<"gap">> \o c, Base)
            = Rewrite!RewriteImageRefs(a, Base) \o <<"gap">> \o Rewrite!RewriteImageRefs(c, Base)
    BY <2>2, <2>3, RewriteSplits
  <2>6. QED
    BY <2>4, <2>5, Zenon DEF a, c
<1>3. RefInv => TextsRepaired
  BY <1>1, <1>2 DEF TextsRepaired, Rewrite!TextsRepaired
<1>4. QED
  BY <1>3, RefInductive, PTL

(* Once migrated, the first reference of a text is the URL that FileEntity *)
(* builds from its key, for every spelling of the settings that the two    *)
(* sides read alike.                                                       *)
THEOREM AppReads == Rewrite!Spec => []RefersAsApp
<1>1. ASSUME RefInv PROVE RefersAsApp
  <2> DEFINE K == {k \in DOMAIN value : Rewrite!KeyAt(value, k)}
             j == Rewrite!FirstOf(K)
             e == Rewrite!KeyEnd(value, j)
             k == Rewrite!Key(value, j)
  <2>1. SUFFICES ASSUME Rewrite!Usual(env), column = "text", rewrites > 0, Rewrite!HasKey(value)
                 PROVE  \E i \in 1..j : SubSeq(value, i, e) = Rewrite!AppUrl(env, k)
    BY DEF RefersAsApp, Rewrite!RefersAsApp
  <2>2. /\ original \in Seq(Rewrite!Tokens)
        /\ value = Rewrite!RewriteImageRefs(original, Base)
    BY <1>1, <2>1 DEF RefInv, TextHolds
  <2>3. Settled(original, Base) /\ value \in Seq(Rewrite!Tokens)
    BY <1>1, <2>2, BaseLeads, TextSettles, RewriteTyped
  <2>4. WellFormed(value, Lead(Base)) /\ Lead(Base) \in Seq(Rewrite!Tokens)
    BY <1>1, <2>2, <2>3, BaseLeads, LeadFacts DEF Settled
  <2>5. /\ j \in 1..Len(value) /\ Rewrite!KeyAt(value, j)
        /\ \A l \in 1..Len(value) : Rewrite!KeyAt(value, l) => j <= l
    <3>1. ~NoKeys(value)
      BY <2>1, <2>3, HasKeyFacts
    <3>2. QED
      BY <2>3, <3>1, FirstKey
  <2> HIDE DEF j
  <2>6. \E i \in 1..j : SubSeq(value, i, e) = Cat(Lead(Base), k)
    BY <2>3, <2>4, <2>5, FirstIsUrl
  <2>7. Rewrite!AppUrl(env, k) = Cat(Lead(Base), k)
    BY <1>1, <2>1, BaseFacts DEF RefInv, Base
  <2>8. QED
    BY <2>6, <2>7
<1>2. QED
  BY <1>1, RefInductive, PTL
=============================================================================
