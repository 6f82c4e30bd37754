--------------------------- MODULE SessionLifecycle ---------------------------
(***************************************************************************)
(* What the table of login sessions promises to the rest of the program,   *)
(* with no handler in sight: a session is opened once, it may be closed    *)
(* and then stays closed, and the hash that its refresh token must carry   *)
(* is never one that any session carried before.                           *)
(***************************************************************************)
CONSTANTS Ids, Hashes

VARIABLES
    row,    \* absent, live or deleted, per session id
    hash,   \* the hash the row stores
    used    \* every hash a row has stored

vars == <<row, hash, used>>

Init ==
    /\ row = [s \in Ids |-> "absent"]
    /\ hash = [s \in Ids |-> 0]
    /\ used = {}

(* A session is opened under a hash of its own.                            *)
Open(s, h) ==
    /\ row[s] = "absent"
    /\ h \notin used
    /\ row' = [row EXCEPT ![s] = "live"]
    /\ hash' = [hash EXCEPT ![s] = h]
    /\ used' = used \cup {h}

(* Its hash is replaced by a new one; a session closed since stays closed. *)
Rotate(s, h) ==
    /\ row[s] # "absent"
    /\ h \notin used
    /\ hash' = [hash EXCEPT ![s] = h]
    /\ used' = used \cup {h}
    /\ UNCHANGED row

(* Live sessions are closed, several by one statement.                     *)
Close(S) ==
    /\ \A s \in S : row[s] = "live"
    /\ row' = [s \in Ids |-> IF s \in S THEN "deleted" ELSE row[s]]
    /\ UNCHANGED <<hash, used>>

Next ==
    \/ \E s \in Ids, h \in Hashes : Open(s, h) \/ Rotate(s, h)
    \/ \E S \in SUBSET Ids : Close(S)

Spec == Init /\ [][Next]_vars
=============================================================================
