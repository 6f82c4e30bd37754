----------------------------- MODULE ContentTypes -----------------------------
(***************************************************************************)
(* scripts/fix-r2-content-types.js over a bucket that the app goes on      *)
(* writing: list the keys page by page, then for each key HEAD, read the   *)
(* first bytes, and copy the object onto itself with the type of its bytes *)
(* when the stored one is not equivalent.  A key that fails is counted and *)
(* the scan goes on.                                                       *)
(***************************************************************************)
EXTENDS Naturals, ImageTypes

CONSTANTS
    N,              \* keys are 1..N in the order of the listing
    Kinds,          \* buffers that objects begin with, a subset of Buffers
    Declared,       \* types that a client may declare
    PageSize,       \* keys of one page of the listing
    MaxWrites,      \* bound: objects written by the app while scripts run
    MaxRuns, MaxFailures    \* bounds: runs of the script, failed requests

ConstantsAssumption ==
    /\ N \in Nat /\ PageSize \in Nat \ {0}
    /\ Kinds \subseteq Buffers /\ Unknown \notin Declared
    /\ MaxWrites \in Nat /\ MaxRuns \in Nat /\ MaxFailures \in Nat

VARIABLES
    objects,        \* first bytes and stored Content-Type of each key
    scan,           \* the run of the script
    exit,           \* exit code of the last run if it applied fixes, 1 if it did not
    writes, runs, failures,
    written,        \* history: keys written since the last run began
    overtaken       \* history: the key at hand was written since its HEAD

vars == <<objects, scan, exit, writes, runs, failures, written, overtaken>>

ObjectKeys   == 1..N
Types  == Declared \cup {SniffImageType(b) : b \in Kinds}
Object == [bytes: Kinds, type: Types \ {Unknown}]
Absent == [type |-> "absent"]
Present == {k \in ObjectKeys : objects[k] # Absent}
Idle   == [at |-> "idle"]
Scan   == [at: {"list", "head", "read", "copy", "next"}, execute: BOOLEAN,
           token: 0..N, todo: SUBSET ObjectKeys, failed: 0..MaxFailures,
           key: 0..N, type: Types \cup {"none"}]

TypeOK ==
    /\ objects \in [ObjectKeys -> Object \cup {Absent}]
    /\ scan \in Scan \cup {Idle}
    /\ exit \in 0..2
    /\ writes \in 0..MaxWrites /\ runs \in 0..MaxRuns /\ failures \in 0..MaxFailures
    /\ written \subseteq ObjectKeys /\ overtaken \in BOOLEAN

(* The bucket as the backend left it when it trusted the declared type.    *)
Init ==
    /\ objects \in [ObjectKeys -> Object \cup {Absent}]
    /\ scan = Idle /\ exit = 1
    /\ writes = 0 /\ runs = 0 /\ failures = 0
    /\ written = {} /\ overtaken = FALSE

(* image/jpg, IMAGE/JPEG and image/jpeg all mean the same thing.           *)
Equivalent(stored, actual) ==
    stored = actual \/ (stored = "jpg" /\ actual = "jpeg")

-----------------------------------------------------------------------------
(* An upload through the backend carries the type of its bytes, or the     *)
(* declared one when they are unknown; a presigned one the declared.       *)
AppWrite(k, bytes, declared, presigned) ==
    LET sniffed == SniffImageType(bytes) IN
    /\ writes < MaxWrites
    /\ writes' = writes + 1
    /\ objects' = [objects EXCEPT ![k] =
            [bytes |-> bytes,
             type |-> IF presigned \/ sniffed = Unknown THEN declared ELSE sniffed]]
    /\ written' = written \cup {k}
    /\ overtaken' = (overtaken \/ (scan # Idle /\ scan.key = k))
    /\ UNCHANGED <<scan, exit, runs, failures>>

Start(execute) ==
    /\ scan = Idle /\ runs < MaxRuns
    /\ runs' = runs + 1
    /\ scan' = [at |-> "list", execute |-> execute, token |-> 0, todo |-> {},
                failed |-> 0, key |-> 0, type |-> "none"]
    /\ exit' = 1 /\ written' = {} /\ overtaken' = FALSE
    /\ UNCHANGED <<objects, writes, failures>>

(* ListObjectsV2: the next keys after the continuation token.              *)
ListPage ==
    LET after == {k \in Present : k > scan.token}
        page  == {k \in after : \A l \in 1..k : l \in after => l > k - PageSize}
        last  == CHOOSE k \in page : \A l \in page : l <= k
    IN
    /\ scan.at = "list"
    /\ scan' = IF after = {} THEN [scan EXCEPT !.at = "next"]
               ELSE [scan EXCEPT !.todo = @ \cup page, !.token = last,
                                 !.at = IF page = after THEN "next" ELSE "list"]
    /\ UNCHANGED <<objects, exit, writes, runs, failures, written, overtaken>>

NextKey(k) ==
    /\ scan.at = "next" /\ k \in scan.todo
    /\ scan' = [scan EXCEPT !.at = "head", !.key = k, !.todo = @ \ {k}]
    /\ overtaken' = FALSE
    /\ UNCHANGED <<objects, exit, writes, runs, failures, written>>

Head ==
    /\ scan.at = "head"
    /\ scan' = [scan EXCEPT !.at = "read", !.type = objects[scan.key].type]
    /\ UNCHANGED <<objects, exit, writes, runs, failures, written, overtaken>>

(* Which copy does this key need?  None in a dry run.                      *)
Read ==
    LET actual == ScriptSniff(objects[scan.key].bytes) IN
    /\ scan.at = "read"
    /\ scan' = IF ~scan.execute \/ actual = Unknown \/ Equivalent(scan.type, actual)
               THEN [scan EXCEPT !.at = "next"]
               ELSE [scan EXCEPT !.at = "copy", !.type = actual]
    /\ UNCHANGED <<objects, exit, writes, runs, failures, written, overtaken>>

(* CopyObject onto itself: the bytes of now, the type of then.             *)
Copy ==
    /\ scan.at = "copy"
    /\ objects' = [objects EXCEPT ![scan.key].type = scan.type]
    /\ scan' = [scan EXCEPT !.at = "next"]
    /\ UNCHANGED <<exit, writes, runs, failures, written, overtaken>>

KeyFails ==
    /\ scan.at \in {"head", "read", "copy"}
    /\ failures < MaxFailures
    /\ failures' = failures + 1
    /\ scan' = [scan EXCEPT !.at = "next", !.failed = @ + 1]
    /\ UNCHANGED <<objects, exit, writes, runs, written, overtaken>>

FinishZero ==       \* mutant: failed keys do not reach the exit code
    /\ scan.at = "next" /\ scan.todo = {}
    /\ exit' = IF scan.execute THEN 0 ELSE 1
    /\ scan' = Idle
    /\ UNCHANGED <<objects, writes, runs, failures, written, overtaken>>
Finish ==
    /\ scan.at = "next" /\ scan.todo = {}
    /\ exit' = IF ~scan.execute THEN 1 ELSE IF scan.failed > 0 THEN 2 ELSE 0
    /\ scan' = Idle
    /\ UNCHANGED <<objects, writes, runs, failures, written, overtaken>>

(* The listing is rejected, or the process ends.                           *)
Crash ==
    /\ scan # Idle
    /\ scan' = Idle
    /\ UNCHANGED <<objects, exit, writes, runs, failures, written, overtaken>>

Next ==
    \/ \E k \in ObjectKeys, bytes \in Kinds, declared \in Declared, presigned \in BOOLEAN :
            AppWrite(k, bytes, declared, presigned)
    \/ \E execute \in BOOLEAN : Start(execute)
    \/ ListPage \/ Head \/ Read \/ Copy \/ KeyFails \/ Finish \/ Crash
    \/ \E k \in ObjectKeys : NextKey(k)

Spec == Init /\ [][Next]_vars

-----------------------------------------------------------------------------
(* Properties.                                                             *)

(* The type is one that the bytes contradict.                              *)
Lies(o) ==
    LET actual == SniffImageType(o.bytes) IN
    actual # Unknown /\ o.type # actual /\ ~(o.type = "jpg" /\ actual = "jpeg")

(* A run that applied its fixes and exits with 0 leaves no lie, and so a   *)
(* second one nothing to fix, but on keys that the app wrote meanwhile.    *)
CleanExitLeavesNoLie ==
    exit = 0 /\ scan = Idle => \A k \in Present \ written : ~Lies(objects[k])

(* The script changes nothing but a lie; what the backend itself typed by  *)
(* its bytes, or a type that only spells the same, it leaves alone, unless *)
(* the object is replaced while it is being looked at.                     *)
OnlyLiesChange ==
    [][Copy /\ ~overtaken => Lies(objects[scan.key]) /\ ~Lies(objects'[scan.key])]_vars
=============================================================================
