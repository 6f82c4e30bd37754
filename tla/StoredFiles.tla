----------------------------- MODULE StoredFiles -----------------------------
(***************************************************************************)
(* What uploads promise to whoever reads the table of files: a name is     *)
(* linked only after its object is there, nothing that is stored goes      *)
(* away, and a name that is only offered to a client says so.              *)
(***************************************************************************)
CONSTANT Names
VARIABLES stored, linked, offered

Init == stored = {} /\ linked = {} /\ offered = {}

Store(n) == stored' = stored \cup {n} /\ UNCHANGED <<linked, offered>>
Link(n)  == n \in stored /\ linked' = linked \cup {n} /\ UNCHANGED <<stored, offered>>
Offer(n) == offered' = offered \cup {n} /\ UNCHANGED <<stored, linked>>

Next == \E n \in Names : Store(n) \/ Link(n) \/ Offer(n)

Spec == Init /\ [][Next]_<<stored, linked, offered>>
=============================================================================
