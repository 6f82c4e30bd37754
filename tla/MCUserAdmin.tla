----------------------------- MODULE MCUserAdmin -----------------------------
(* Instances of UserAdmin for TLC.                                         *)
EXTENDS UserAdmin, TLC

(* Places for requests are alike, and so are users: bodies name each alike. *)
Symmetry == Permutations(Requests) \cup Permutations(Users)

To(id, json) == [id |-> id, json |-> json]
(* Roles given, either way of spelling, a status, an email; and each of    *)
(* them sent as null, a null role beside a status too.                     *)
SomeBodies ==
    {[id |-> u, role |-> f, status |-> Kept, email |-> Kept] :
        u \in Users, f \in {To(SuperAdmin, "string"), To(SuperAdmin, "number"), To(Admin, "string"),
                            To("4", "string")}}
    \cup {[id |-> u, role |-> KeptRole, status |-> "Blocked", email |-> Kept] : u \in Users}
    \cup {[id |-> u, role |-> KeptRole, status |-> Kept, email |-> e] :
            u \in Users, e \in {"new", Null}}
    \cup {[id |-> u, role |-> NullRole, status |-> s, email |-> Kept] :
            u \in Users, s \in {Kept, "Blocked"}}
    \cup {[id |-> u, role |-> KeptRole, status |-> Null, email |-> Kept] : u \in Users}
=============================================================================
