------------------------------ MODULE UserAdmin ------------------------------
(***************************************************************************)
(* Administration of users: PATCH and DELETE /users and POST               *)
(* /auth/register, each a guard, validators and a write with an await      *)
(* between them, by callers whose role was signed into a token some time   *)
(* ago, beside the seed that makes the first SuperAdmin.                   *)
(***************************************************************************)
EXTENDS Naturals

CONSTANTS
    Users,          \* identifiers of rows, used or not
    Emails, AdminEmail,
    Requests,       \* places for concurrent requests
    Bodies,         \* bodies that clients may send to PATCH
    MaxRequests     \* bound: requests, sign-ins and seeds

SuperAdmin == "1"
Admin      == "2"
Roles      == {SuperAdmin, Admin, "3", "4"}
Statuses   == {"Active", "Pending", "Blocked"}
Kept       == "none"        \* a field that the body leaves out
Null       == "null"        \* a field sent as null, and the column that it empties
(* The id of a role comes as a string or as a number.                      *)
RoleField  == [id: Roles, json: {"string", "number"}]
KeptRole   == [id |-> Kept, json |-> Kept]
NullRole   == [id |-> Null, json |-> Null]
(* PartialType makes every field optional, and IsOptional takes a null too. *)
Body == [id: Users, role: RoleField \cup {KeptRole, NullRole},
         status: Statuses \cup {Kept, Null}, email: Emails \cup {Kept, Null}]

ASSUME ConstantsAssumption ==
    /\ AdminEmail \in Emails /\ Kept \notin Emails /\ Null \notin Emails
    /\ Bodies \subseteq Body /\ MaxRequests \in Nat

VARIABLES
    users,          \* table users
    tokens,         \* access tokens that have not expired: who, and the role of then
    req,            \* requests between their awaits
    seed,           \* the user seed: idle, or having counted SuperAdmins
    requests,
    seeded          \* history: users that were made SuperAdmin by the seed

vars == <<users, tokens, req, seed, requests, seeded>>

NoRow == [role |-> "none"]
Row   == [role: Roles \cup {Null}, status: Statuses \cup {Null}, email: Emails,
          deleted: BOOLEAN]
Token == [id: Users, role: Roles \cup {Null}]
Idle  == [at |-> "idle"]
Request == [at: {"validate", "save"}, caller: Token, body: Body]
           \cup [at: {"remove"}, caller: Token, id: Users]
           \cup [at: {"register"}, caller: Token, role: RoleField, email: Emails]

TypeOK ==
    /\ users \in [Users -> Row \cup {NoRow}]
    /\ tokens \subseteq Token
    /\ req \in [Requests -> Request \cup {Idle}]
    /\ seed \in {"idle", "none found"}
    /\ requests \in 0..MaxRequests
    /\ seeded \subseteq Users

Present(u) == users[u] # NoRow /\ ~users[u].deleted
Taken(email) == \E u \in Users : users[u] # NoRow /\ users[u].email = email
TakenByOther(email, id) == \E u \in Users \ {id} : users[u] # NoRow /\ users[u].email = email

Init ==
    /\ users = [u \in Users |-> NoRow]
    /\ tokens = {} /\ req = [r \in Requests |-> Idle]
    /\ seed = "idle" /\ requests = 0 /\ seeded = {}

Count == requests < MaxRequests /\ requests' = requests + 1
Go(r, request) == req' = [req EXCEPT ![r] = request]

-----------------------------------------------------------------------------
(* UserSeedService.run; several deployments may run it at a time, and the  *)
(* last to count is the one that is kept here.                             *)
SeedCounts ==
    /\ Count
    /\ ~\E u \in Users : Present(u) /\ users[u].role = SuperAdmin
    /\ seed' = "none found"
    /\ UNCHANGED <<users, tokens, req, seeded>>

(* An email that is taken makes the insert fail.                           *)
SeedInserts(u) ==
    /\ seed = "none found" /\ users[u] = NoRow
    /\ seed' \in {"idle", "none found"}     \* of one run, or of another
    /\ IF Taken(AdminEmail) THEN UNCHANGED <<users, seeded>>
       ELSE /\ users' = [users EXCEPT ![u] =
                    [role |-> SuperAdmin, status |-> "Active", email |-> AdminEmail,
                     deleted |-> FALSE]]
            /\ seeded' = seeded \cup {u}
    /\ UNCHANGED <<tokens, req, requests>>

-----------------------------------------------------------------------------
(* Login and refresh sign the role that the row has now.                   *)
SignIn(u) ==
    /\ Count
    /\ Present(u)
    /\ tokens' = tokens \cup {[id |-> u, role |-> users[u].role]}
    /\ UNCHANGED <<users, req, seed, seeded>>

Expire(t) ==
    /\ tokens' = tokens \ {t}
    /\ UNCHANGED <<users, req, seed, requests, seeded>>

(* A confirmation or a reset link makes its user active.                   *)
Confirm(u) ==
    /\ users[u] # NoRow
    /\ users' = [users EXCEPT ![u].status = "Active"]
    /\ UNCHANGED <<tokens, req, seed, requests, seeded>>

-----------------------------------------------------------------------------
(* RolesGuard with @Roles(SuperAdmin, Admin), and IsNotSuperAdmin.         *)
IsAdmin(caller) == caller.role \in {SuperAdmin, Admin}
IsNotSuperAdminStrict(role) ==      \* mutant: the id compared without toString
    role # [id |-> SuperAdmin, json |-> "string"]
IsNotSuperAdmin(role) == role.id # SuperAdmin

(* body?.role || body?.status: a null is there, and names nothing.         *)
Names(body) == body.role \in RoleField \/ body.status \in Statuses

(* UpdateUserGuard, on the body as it was sent. It reads the id of the     *)
(* target's role, and throws when the target has none.                     *)
AllowedCaller(caller, body) ==
    IsAdmin(caller) \/ (caller.id = body.id /\ ~Names(body))
AllowedTargetOrSelf(caller, body) ==    \* mutant: the target's role is not looked at
    /\ Present(body.id)
    /\ body.role = [id |-> SuperAdmin, json |-> "string"] => caller.role = SuperAdmin
AllowedTarget(caller, body) ==
    /\ Present(body.id) /\ users[body.id].role # Null
    /\ users[body.id].role = SuperAdmin /\ Names(body) => caller.role = SuperAdmin
    /\ body.role = [id |-> SuperAdmin, json |-> "string"] => caller.role = SuperAdmin

Update(r, caller, body) ==
    /\ Count /\ req[r] = Idle
    /\ AllowedCaller(caller, body) /\ AllowedTarget(caller, body)
    /\ Go(r, [at |-> "validate", caller |-> caller, body |-> body])
    /\ UNCHANGED <<users, tokens, seed, seeded>>

(* UpdateUserDto: the email may be one's own, or nobody's; no validator    *)
(* runs on a null.                                                         *)
Validate(r) ==
    LET body == req[r].body IN
    /\ req[r].at = "validate"
    /\ Go(r, IF /\ IsNotSuperAdmin(body.role)
                /\ body.email \in {Kept, Null} \/ ~TakenByOther(body.email, body.id)
             THEN [req[r] EXCEPT !.at = "save"] ELSE Idle)
    /\ UNCHANGED <<users, tokens, seed, requests, seeded>>

(* save writes what the body sends, a null too: role and status may be     *)
(* empty, the email may not, and the index may refuse it.                  *)
Merged(row, body) ==
    [role    |-> IF body.role = KeptRole THEN row.role ELSE body.role.id,
     status  |-> IF body.status = Kept THEN row.status ELSE body.status,
     email   |-> IF body.email = Kept THEN row.email ELSE body.email,
     deleted |-> row.deleted]
SaveChecked(r) ==   \* mutant: the column is not unique, the validator has looked
    /\ req[r].at = "save"
    /\ users' = [users EXCEPT ![req[r].body.id] = Merged(@, req[r].body)]
    /\ Go(r, Idle)
    /\ UNCHANGED <<tokens, seed, requests, seeded>>
Save(r) ==
    LET body == req[r].body IN
    /\ req[r].at = "save"
    /\ users' = IF body.email = Null \/ TakenByOther(body.email, body.id) THEN users
                ELSE [users EXCEPT ![body.id] = Merged(@, body)]
    /\ Go(r, Idle)
    /\ UNCHANGED <<tokens, seed, requests, seeded>>

-----------------------------------------------------------------------------
(* DeleteUserGuard, which throws too on a target without a role, and the   *)
(* soft delete.                                                            *)
Deletable(u) == Present(u) /\ users[u].role \notin {SuperAdmin, Null}

Delete(r, caller, u) ==
    /\ Count /\ req[r] = Idle
    /\ IsAdmin(caller) /\ Deletable(u)
    /\ Go(r, [at |-> "remove", caller |-> caller, id |-> u])
    /\ UNCHANGED <<users, tokens, seed, seeded>>

Remove(r) ==
    /\ req[r].at = "remove"
    /\ users' = [users EXCEPT ![req[r].id].deleted = TRUE]
    /\ Go(r, Idle)
    /\ UNCHANGED <<tokens, seed, requests, seeded>>

(* register: AuthRegisterDto, then the row, which waits for its link.      *)
Register(r, caller, role, email) ==
    /\ Count /\ req[r] = Idle
    /\ IsAdmin(caller) /\ IsNotSuperAdmin(role) /\ ~Taken(email)
    /\ Go(r, [at |-> "register", caller |-> caller, role |-> role, email |-> email])
    /\ UNCHANGED <<users, tokens, seed, seeded>>

Insert(r, u) ==
    /\ req[r].at = "register" /\ users[u] = NoRow
    /\ users' = IF Taken(req[r].email) THEN users
                ELSE [users EXCEPT ![u] =
                        [role |-> req[r].role.id, status |-> "Pending", email |-> req[r].email,
                         deleted |-> FALSE]]
    /\ Go(r, Idle)
    /\ UNCHANGED <<tokens, seed, requests, seeded>>

Next ==
    \/ SeedCounts
    \/ \E u \in Users : SeedInserts(u) \/ SignIn(u) \/ Confirm(u)
    \/ \E t \in tokens : Expire(t)
    \/ \E r \in Requests :
            \/ Validate(r) \/ Save(r) \/ Remove(r)
            \/ \E u \in Users : Insert(r, u)
            \/ \E caller \in tokens :
                    \/ \E body \in Bodies : Update(r, caller, body)
                    \/ \E u \in Users : Delete(r, caller, u)
                    \/ \E role \in RoleField, email \in Emails : Register(r, caller, role, email)

Spec == Init /\ [][Next]_vars

-----------------------------------------------------------------------------
(* Properties.                                                             *)

SuperAdmins == {u \in Users : users[u] # NoRow /\ users[u].role = SuperAdmin}

(* No sequence of registrations and updates, with whatever spelling of the *)
(* role, makes a SuperAdmin: only the seed does.                           *)
SuperAdminsSeeded == SuperAdmins \subseteq seeded

(* However long ago the guard looked at the target, a request without the  *)
(* token of a SuperAdmin neither removes a SuperAdmin nor gives it another *)
(* role or status. All that such a request can do is empty them, by a body *)
(* that sends null and names neither: the guard takes a null for nothing   *)
(* sent, and save writes it.                                               *)
SuperAdminAtMostEmptied ==
    [][\A r \in Requests, u \in SuperAdmins :
        (Save(r) \/ Remove(r)) /\ req[r].caller.role # SuperAdmin
        => /\ users'[u].deleted = users[u].deleted
           /\ users'[u].role \in {users[u].role, Null}
           /\ users'[u].status \in {users[u].status, Null}
           /\ users'[u].role # users[u].role \/ users'[u].status # users[u].status
                => ~Names(req[r].body)]_vars

(* Emails are unique among all rows, the deleted ones included, whatever   *)
(* two requests and a seed found when they looked.                         *)
EmailsUnique ==
    \A u, v \in Users : users[u] # NoRow /\ users[v] # NoRow /\ users[u].email = users[v].email
        => u = v
=============================================================================
