--------------------------- MODULE UserAdminProofs ---------------------------
(* Theorems about UserAdmin, for every set of users, bodies and requests.  *)
EXTENDS UserAdmin, TLAPS

USE ConstantsAssumption

-----------------------------------------------------------------------------
(* Types.                                                                  *)

(* A place of requests that takes a well-formed one leaves all well-formed. *)
LEMMA GoType ==
    ASSUME TypeOK, NEW r \in Requests, NEW q \in Request \cup {Idle}, Go(r, q)
    PROVE  /\ req' \in [Requests -> Request \cup {Idle}]
           /\ req'[r] = q
           /\ \A s \in Requests \ {r} : req'[s] = req[s]
  BY DEF TypeOK, Go

LEMMA RoleFieldFacts ==
    /\ KeptRole \notin RoleField /\ NullRole \notin RoleField
    /\ \A role \in RoleField : role.id \in Roles
    /\ KeptRole.id # SuperAdmin /\ NullRole.id = Null
    /\ SuperAdmin \in Roles /\ SuperAdmin # Null
  BY DEF RoleField, KeptRole, NullRole, Kept, Null, Roles, SuperAdmin, Admin

(* What a row becomes under the fields that a body sends, when the table   *)
(* takes its email. A body that names no role and no status leaves each as *)
(* it is, or empties it.                                                   *)
LEMMA MergedFacts ==
    ASSUME NEW row \in Row, NEW body \in Body, body.email # Null
    PROVE  /\ Merged(row, body) \in Row
           /\ Merged(row, body) # NoRow
           /\ Merged(row, body).deleted = row.deleted
           /\ body.role = KeptRole => Merged(row, body).role = row.role
           /\ body.role # KeptRole => Merged(row, body).role = body.role.id
           /\ ~Names(body) => /\ Merged(row, body).role \in {row.role, Null}
                              /\ Merged(row, body).status \in {row.status, Null}
           /\ body.email = Kept => Merged(row, body).email = row.email
           /\ body.email # Kept => Merged(row, body).email = body.email
<1>1. body.role = KeptRole \/ body.role.id \in Roles \cup {Null}
  BY RoleFieldFacts DEF Body
<1>2. Merged(row, body) \in Row
  BY <1>1 DEF Merged, Row, Body
<1>3. Merged(row, body) # NoRow
  BY <1>2 DEF Row, NoRow, Roles, Null, SuperAdmin, Admin
<1>4. ASSUME ~Names(body)
      PROVE  /\ Merged(row, body).role \in {row.role, Null}
             /\ Merged(row, body).status \in {row.status, Null}
  <2>1. body.role \in {KeptRole, NullRole} /\ body.status \in {Kept, Null}
    BY <1>4 DEF Names, Body
  <2>2. QED
    BY <2>1, RoleFieldFacts DEF Merged
<1>5. QED
  BY <1>2, <1>3, <1>4 DEF Merged

(* The shape of a request tells where it is.                               *)
LEMMA RequestFacts ==
    ASSUME NEW q \in Request \cup {Idle}
    PROVE  /\ q.at \in {"validate", "save"} =>
                /\ q = [at |-> q.at, caller |-> q.caller, body |-> q.body]
                /\ q.caller \in Token /\ q.body \in Body
           /\ q.at = "remove" => q.caller \in Token /\ q.id \in Users
           /\ q.at = "register" => q.role \in RoleField /\ q.email \in Emails
  BY DEF Request, Idle

(* A validated body goes on as it is.                                      *)
LEMMA ValidatedFacts ==
    ASSUME NEW q \in Request \cup {Idle}, q.at = "validate"
    PROVE  /\ [q EXCEPT !.at = "save"] \in Request
           /\ [q EXCEPT !.at = "save"] = [at |-> "save", caller |-> q.caller, body |-> q.body]
<1>1. q = [at |-> q.at, caller |-> q.caller, body |-> q.body]
  BY RequestFacts
<1>2. [q EXCEPT !.at = "save"] = [at |-> "save", caller |-> q.caller, body |-> q.body]
  BY <1>1
<1>3. q.caller \in Token /\ q.body \in Body
  BY RequestFacts
<1>4. QED
  BY <1>2, <1>3 DEF Request

LEMMA CountType ==
    ASSUME TypeOK, Count
    PROVE  requests' \in 0..MaxRequests
<1>1. requests \in 0..MaxRequests
  BY DEF TypeOK
<1>2. QED
  BY ONLY <1>1, Count, MaxRequests \in Nat DEF Count

-----------------------------------------------------------------------------
(* The inductive invariant.                                                *)

(* What waits to be written gives nobody the role of a SuperAdmin.         *)
NoneWrittenSuper ==
    \A r \in Requests :
        /\ req[r].at = "save" => req[r].body.role.id # SuperAdmin
        /\ req[r].at = "register" => req[r].role.id # SuperAdmin

(* What the guards found of a target is still true at the write: rows stay, *)
(* and none that is there becomes a SuperAdmin.                            *)
TargetsChecked ==
    \A r \in Requests :
        /\ req[r].at \in {"validate", "save"} =>
            LET body == req[r].body IN
            /\ users[body.id] # NoRow
            /\ users[body.id].role = SuperAdmin /\ Names(body)
                => req[r].caller.role = SuperAdmin
        /\ req[r].at = "remove" =>
            users[req[r].id] # NoRow /\ users[req[r].id].role # SuperAdmin

IInv == TypeOK /\ NoneWrittenSuper /\ TargetsChecked /\ SuperAdminsSeeded /\ EmailsUnique

(* A step changes users in one of these ways only.                         *)
Created(u, row) ==
    /\ users[u] = NoRow /\ users' = [users EXCEPT ![u] = row]
    /\ row \in Row /\ ~Taken(row.email)
    /\ row.role = SuperAdmin => u \in seeded'
Changed(u, row) ==
    /\ users[u] # NoRow /\ users' = [users EXCEPT ![u] = row]
    /\ row \in Row
    /\ row.role = SuperAdmin => users[u].role = SuperAdmin
    /\ row.email = users[u].email \/ ~TakenByOther(row.email, u)
UsersStep ==
    /\ seeded \subseteq seeded'
    /\ \/ users' = users
       \/ \E u \in Users, row \in Row : Created(u, row) \/ Changed(u, row)

LEMMA SeedInsertsUsers ==
    ASSUME IInv, NEW u \in Users, SeedInserts(u)
    PROVE  UsersStep
<1> DEFINE row == [role |-> SuperAdmin, status |-> "Active", email |-> AdminEmail,
                   deleted |-> FALSE]
<1>1. row \in Row
  BY DEF Row, Roles, Statuses
<1>2. CASE Taken(AdminEmail)
  BY <1>2 DEF SeedInserts, UsersStep
<1>3. CASE ~Taken(AdminEmail)
  <2>1. Created(u, row) /\ seeded \subseteq seeded'
    BY <1>1, <1>3 DEF SeedInserts, Created
  <2>2. QED
    BY <1>1, <2>1 DEF UsersStep
<1>4. QED
  BY <1>2, <1>3

LEMMA ConfirmUsers ==
    ASSUME IInv, NEW u \in Users, Confirm(u)
    PROVE  UsersStep
<1> DEFINE row == [users[u] EXCEPT !.status = "Active"]
<1>1. users[u] \in Row
  BY DEF IInv, TypeOK, Confirm
<1>2. row \in Row /\ row.role = users[u].role /\ row.email = users[u].email
  BY <1>1 DEF Row, Statuses
<1>3. Changed(u, row)
  BY <1>2 DEF Confirm, Changed
<1>4. QED
  BY <1>2, <1>3 DEF Confirm, UsersStep

LEMMA SaveUsers ==
    ASSUME IInv, NEW r \in Requests, Save(r)
    PROVE  /\ UsersStep
           /\ req[r].body.id \in Users
           /\ users' # users =>
                users' = [users EXCEPT ![req[r].body.id]
                            = Merged(users[req[r].body.id], req[r].body)]
<1> DEFINE body == req[r].body
           u    == body.id
           row  == Merged(users[u], body)
<1>1. req[r] \in Request \cup {Idle} /\ req[r].at = "save"
  BY DEF IInv, TypeOK, Save
<1>2. body \in Body
  BY <1>1, RequestFacts
<1>3. u \in Users
  BY <1>2 DEF Body
<1>4. users[u] # NoRow /\ users[u] \in Row
  BY <1>1, <1>3 DEF IInv, TypeOK, TargetsChecked
<1>5. body.role.id # SuperAdmin
  BY <1>1 DEF IInv, NoneWrittenSuper
<1>6. seeded' = seeded
  BY DEF Save
<1>7. CASE users' = users
  BY <1>3, <1>6, <1>7 DEF UsersStep
<1>8. CASE users' # users
  <2>1. /\ users' = [users EXCEPT ![u] = row]
        /\ body.email # Null /\ ~TakenByOther(body.email, u)
    BY <1>8 DEF Save
  <2>2. /\ row \in Row
        /\ row.role = SuperAdmin => users[u].role = SuperAdmin
        /\ row.email = users[u].email \/ ~TakenByOther(row.email, u)
    BY <1>2, <1>4, <1>5, <2>1, MergedFacts
  <2>3. Changed(u, row)
    BY <1>4, <2>1, <2>2 DEF Changed
  <2>4. QED
    BY <1>3, <1>6, <2>1, <2>2, <2>3 DEF UsersStep
<1>9. QED
  BY <1>7, <1>8

LEMMA RemoveUsers ==
    ASSUME IInv, NEW r \in Requests, Remove(r)
    PROVE  /\ UsersStep
           /\ req[r].id \in Users
           /\ users' = [users EXCEPT ![req[r].id] = [users[req[r].id] EXCEPT !.deleted = TRUE]]
<1> DEFINE u   == req[r].id
           row == [users[u] EXCEPT !.deleted = TRUE]
<1>1. req[r] \in Request \cup {Idle} /\ req[r].at = "remove"
  BY DEF IInv, TypeOK, Remove
<1>2. u \in Users
  BY <1>1, RequestFacts
<1>3. users[u] # NoRow /\ users[u] \in Row
  BY <1>1, <1>2 DEF IInv, TypeOK, TargetsChecked
<1>4. row \in Row /\ row.role = users[u].role /\ row.email = users[u].email
  BY <1>3 DEF Row
<1>5. users' = [users EXCEPT ![u] = row]
  BY DEF Remove
<1>6. Changed(u, row)
  BY <1>3, <1>4, <1>5 DEF Changed
<1>7. seeded' = seeded
  BY DEF Remove
<1>8. QED
  BY <1>2, <1>4, <1>5, <1>6, <1>7 DEF UsersStep

LEMMA InsertUsers ==
    ASSUME IInv, NEW r \in Requests, NEW u \in Users, Insert(r, u)
    PROVE  UsersStep
<1> DEFINE row == [role |-> req[r].role.id, status |-> "Pending", email |-> req[r].email,
                   deleted |-> FALSE]
<1>1. req[r] \in Request \cup {Idle} /\ req[r].at = "register"
  BY DEF IInv, TypeOK, Insert
<1>2. req[r].role \in RoleField /\ req[r].email \in Emails
  BY <1>1, RequestFacts
<1>3. row \in Row /\ row.role # SuperAdmin
  BY <1>1, <1>2, RoleFieldFacts DEF IInv, NoneWrittenSuper, Row, Statuses
<1>4. seeded' = seeded
  BY DEF Insert
<1>5. CASE Taken(req[r].email)
  BY <1>4, <1>5 DEF Insert, UsersStep
<1>6. CASE ~Taken(req[r].email)
  <2>1. Created(u, row)
    BY <1>3, <1>6 DEF Insert, Created
  <2>2. QED
    BY <1>3, <1>4, <2>1 DEF UsersStep
<1>7. QED
  BY <1>5, <1>6

-----------------------------------------------------------------------------
(* What a step does to a place of requests.                                *)
PlaceStep(r) ==
    \/ req'[r] = req[r]
    \/ req'[r].at = "idle"
    \/ /\ req[r].at = "validate" /\ IsNotSuperAdmin(req[r].body.role)
       /\ req'[r].at = "save"
       /\ req'[r].caller = req[r].caller /\ req'[r].body = req[r].body
    \/ req'[r].at = "validate" /\ AllowedTarget(req'[r].caller, req'[r].body)
    \/ req'[r].at = "remove" /\ Deletable(req'[r].id)
    \/ req'[r].at = "register" /\ IsNotSuperAdmin(req'[r].role)
PlacesStep == req' \in [Requests -> Request \cup {Idle}] /\ \A r \in Requests : PlaceStep(r)

LEMMA GoPlaces ==
    ASSUME TypeOK, NEW r \in Requests, NEW q \in Request \cup {Idle}, Go(r, q), PlaceStep(r)
    PROVE  PlacesStep
<1>1. ASSUME NEW s \in Requests \ {r} PROVE PlaceStep(s)
  <2>1. req'[s] = req[s]
    BY GoType
  <2>2. QED
    BY <2>1 DEF PlaceStep
<1>2. req' \in [Requests -> Request \cup {Idle}]
  BY GoType
<1>3. QED
  BY <1>1, <1>2 DEF PlacesStep

LEMMA EndPlaces ==
    ASSUME TypeOK, NEW r \in Requests, Go(r, Idle)
    PROVE  PlacesStep
<1>1. PlaceStep(r)
  BY GoType DEF PlaceStep, Idle
<1>2. QED
  BY <1>1, GoPlaces

LEMMA UpdatePlaces ==
    ASSUME TypeOK, NEW r \in Requests, NEW caller \in tokens, NEW body \in Bodies,
           Update(r, caller, body)
    PROVE  PlacesStep
<1> DEFINE q == [at |-> "validate", caller |-> caller, body |-> body]
<1>1. caller \in Token /\ body \in Body
  BY DEF TypeOK
<1>2. q \in Request
  BY <1>1 DEF Request
<1>3. PlaceStep(r)
  BY <1>1, <1>2, GoType DEF Update, PlaceStep
<1>4. QED
  BY <1>2, <1>3, GoPlaces DEF Update

LEMMA DeletePlaces ==
    ASSUME TypeOK, NEW r \in Requests, NEW caller \in tokens, NEW u \in Users,
           Delete(r, caller, u)
    PROVE  PlacesStep
<1> DEFINE q == [at |-> "remove", caller |-> caller, id |-> u]
<1>1. caller \in Token
  BY DEF TypeOK
<1>2. q \in Request
  BY <1>1 DEF Request
<1>3. PlaceStep(r)
  BY <1>1, <1>2, GoType DEF Delete, PlaceStep
<1>4. QED
  BY <1>2, <1>3, GoPlaces DEF Delete

LEMMA RegisterPlaces ==
    ASSUME TypeOK, NEW r \in Requests, NEW caller \in tokens, NEW role \in RoleField,
           NEW email \in Emails, Register(r, caller, role, email)
    PROVE  PlacesStep
<1> DEFINE q == [at |-> "register", caller |-> caller, role |-> role, email |-> email]
<1>1. caller \in Token
  BY DEF TypeOK
<1>2. q \in Request
  BY <1>1 DEF Request
<1>3. PlaceStep(r)
  BY <1>1, <1>2, GoType DEF Register, PlaceStep
<1>4. QED
  BY <1>2, <1>3, GoPlaces DEF Register

LEMMA ValidatePlaces ==
    ASSUME TypeOK, NEW r \in Requests, Validate(r)
    PROVE  PlacesStep
<1> DEFINE q == [req[r] EXCEPT !.at = "save"]
<1>1. req[r] \in Request \cup {Idle} /\ req[r].at = "validate"
  BY DEF TypeOK, Validate
<1>2. q \in Request /\ q = [at |-> "save", caller |-> req[r].caller, body |-> req[r].body]
  BY <1>1, ValidatedFacts
<1>3. CASE Go(r, q) /\ IsNotSuperAdmin(req[r].body.role)
  <2>1. PlaceStep(r)
    BY <1>1, <1>2, <1>3, GoType DEF PlaceStep
  <2>2. QED
    BY <1>2, <1>3, <2>1, GoPlaces
<1>4. CASE Go(r, Idle)
  BY <1>4, EndPlaces
<1>5. QED
  BY <1>3, <1>4 DEF Validate

(* Every step, whole.                                                      *)
LEMMA EveryStep ==
    ASSUME IInv, [Next]_vars
    PROVE  /\ UsersStep /\ PlacesStep
           /\ tokens' \subseteq Token /\ seed' \in {"idle", "none found"}
           /\ requests' \in 0..MaxRequests /\ seeded' \subseteq Users
<1> USE DEF IInv
<1> DEFINE Rest == /\ tokens' \subseteq Token /\ seed' \in {"idle", "none found"}
                   /\ requests' \in 0..MaxRequests /\ seeded' \subseteq Users
<1>0. /\ TypeOK /\ req' = req => PlacesStep
      /\ users' = users /\ seeded' = seeded => UsersStep
      /\ tokens \subseteq Token /\ seed \in {"idle", "none found"}
      /\ requests \in 0..MaxRequests /\ seeded \subseteq Users
  BY DEF TypeOK, PlacesStep, PlaceStep, UsersStep
<1>1. CASE SeedCounts
  BY <1>0, <1>1, CountType DEF SeedCounts
<1>2. ASSUME NEW u \in Users, SeedInserts(u) PROVE UsersStep /\ PlacesStep /\ Rest
  BY <1>0, <1>2, SeedInsertsUsers DEF SeedInserts
<1>3. ASSUME NEW u \in Users, SignIn(u) PROVE UsersStep /\ PlacesStep /\ Rest
  <2>1. users[u] \in Row
    BY <1>3 DEF SignIn, Present, TypeOK
  <2>2. [id |-> u, role |-> users[u].role] \in Token
    BY <2>1 DEF Token, Row
  <2>3. QED
    BY <1>0, <1>3, <2>2, CountType DEF SignIn
<1>4. ASSUME NEW u \in Users, Confirm(u) PROVE UsersStep /\ PlacesStep /\ Rest
  BY <1>0, <1>4, ConfirmUsers DEF Confirm
<1>5. ASSUME NEW t \in tokens, Expire(t) PROVE UsersStep /\ PlacesStep /\ Rest
  BY <1>0, <1>5 DEF Expire
<1>6. ASSUME NEW r \in Requests, Validate(r) PROVE UsersStep /\ PlacesStep /\ Rest
  BY <1>0, <1>6, ValidatePlaces DEF Validate
<1>7. ASSUME NEW r \in Requests, Save(r) PROVE UsersStep /\ PlacesStep /\ Rest
  BY <1>0, <1>7, SaveUsers, EndPlaces DEF Save
<1>8. ASSUME NEW r \in Requests, Remove(r) PROVE UsersStep /\ PlacesStep /\ Rest
  BY <1>0, <1>8, RemoveUsers, EndPlaces DEF Remove
<1>9. ASSUME NEW r \in Requests, NEW u \in Users, Insert(r, u)
      PROVE UsersStep /\ PlacesStep /\ Rest
  BY <1>0, <1>9, InsertUsers, EndPlaces DEF Insert
<1>10. ASSUME NEW r \in Requests, NEW caller \in tokens, NEW body \in Bodies,
              Update(r, caller, body)
       PROVE UsersStep /\ PlacesStep /\ Rest
  BY <1>0, <1>10, UpdatePlaces, CountType DEF Update
<1>11. ASSUME NEW r \in Requests, NEW caller \in tokens, NEW u \in Users, Delete(r, caller, u)
       PROVE UsersStep /\ PlacesStep /\ Rest
  BY <1>0, <1>11, DeletePlaces, CountType DEF Delete
<1>12. ASSUME NEW r \in Requests, NEW caller \in tokens, NEW role \in RoleField,
              NEW email \in Emails, Register(r, caller, role, email)
       PROVE UsersStep /\ PlacesStep /\ Rest
  BY <1>0, <1>12, RegisterPlaces, CountType DEF Register
<1>13. CASE UNCHANGED vars
  BY <1>0, <1>13 DEF vars
<1> HIDE DEF IInv
<1>14. QED
  BY <1>1, <1>2, <1>3, <1>4, <1>5, <1>6, <1>7, <1>8, <1>9, <1>10, <1>11, <1>12, <1>13 DEF Next

(* Rows stay, and none that is there becomes a SuperAdmin.                 *)
LEMMA RowsKeepRank ==
    ASSUME TypeOK, UsersStep, NEW u \in Users, users[u] # NoRow
    PROVE  users'[u] # NoRow /\ (users'[u].role = SuperAdmin => users[u].role = SuperAdmin)
<1>1. CASE users' = users
  BY <1>1
<1>2. ASSUME NEW v \in Users, NEW row \in Row, Created(v, row) \/ Changed(v, row)
      PROVE users'[u] # NoRow /\ (users'[u].role = SuperAdmin => users[u].role = SuperAdmin)
  <2>1. row # NoRow
    BY DEF Row, NoRow, Roles, Null, SuperAdmin, Admin
  <2>2. QED
    BY <1>2, <2>1 DEF TypeOK, Created, Changed
<1>3. QED
  BY <1>1, <1>2 DEF UsersStep

-----------------------------------------------------------------------------
(* Every part of the invariant is kept.                                    *)

LEMMA TypeStep ==
    ASSUME IInv, [Next]_vars
    PROVE  TypeOK'
<1>1. users' \in [Users -> Row \cup {NoRow}]
  BY EveryStep DEF IInv, TypeOK, UsersStep, Created, Changed
<1>2. QED
  BY <1>1, EveryStep DEF TypeOK, PlacesStep

LEMMA SeededStep ==
    ASSUME IInv, [Next]_vars
    PROVE  SuperAdminsSeeded'
<1>1. SUFFICES ASSUME NEW u \in Users, users'[u] # NoRow, users'[u].role = SuperAdmin
               PROVE  u \in seeded'
  BY DEF SuperAdminsSeeded, SuperAdmins
<1>2. TypeOK /\ UsersStep /\ seeded \subseteq seeded'
  BY EveryStep DEF IInv, UsersStep
<1>3. CASE users[u] # NoRow
  BY <1>1, <1>2, <1>3, RowsKeepRank DEF IInv, SuperAdminsSeeded, SuperAdmins
<1>4. CASE users[u] = NoRow
  BY <1>1, <1>2, <1>4 DEF UsersStep, Created, Changed, TypeOK
<1>5. QED
  BY <1>3, <1>4

LEMMA EmailsStep ==
    ASSUME IInv, [Next]_vars
    PROVE  EmailsUnique'
<1>1. CASE users' = users
  BY <1>1 DEF IInv, EmailsUnique
<1>2. ASSUME NEW w \in Users, NEW row \in Row, Created(w, row) \/ Changed(w, row)
      PROVE  EmailsUnique'
  <2>1. SUFFICES ASSUME NEW u \in Users, NEW v \in Users, u # v,
                        users'[u] # NoRow, users'[v] # NoRow, users'[u].email = users'[v].email
                 PROVE  FALSE
    BY DEF EmailsUnique
  <2>2. /\ users'[w] = row
        /\ \A x \in Users \ {w} : users'[x] = users[x]
        /\ \A x \in Users \ {w} : users[x] # NoRow => users[x].email # row.email
    BY <1>2 DEF IInv, TypeOK, EmailsUnique, Created, Changed, Taken, TakenByOther
  <2>3. QED
    BY <2>1, <2>2 DEF IInv, EmailsUnique
<1>3. QED
  BY <1>1, <1>2, EveryStep DEF UsersStep

LEMMA WrittenStep ==
    ASSUME IInv, [Next]_vars
    PROVE  NoneWrittenSuper'
<1>1. SUFFICES ASSUME NEW r \in Requests
               PROVE  /\ req'[r].at = "save" => req'[r].body.role.id # SuperAdmin
                      /\ req'[r].at = "register" => req'[r].role.id # SuperAdmin
  BY DEF NoneWrittenSuper
<1>2. PlaceStep(r)
  BY EveryStep DEF PlacesStep
<1>3. /\ req[r].at = "save" => req[r].body.role.id # SuperAdmin
      /\ req[r].at = "register" => req[r].role.id # SuperAdmin
  BY DEF IInv, NoneWrittenSuper
<1>4. \A role \in RoleField : IsNotSuperAdmin(role) => role.id # SuperAdmin
  BY RoleFieldFacts DEF IsNotSuperAdmin
<1>5. req'[r].at = "register" => req'[r].role \in RoleField
  BY EveryStep, RequestFacts DEF PlacesStep
<1>6. QED
  BY <1>2, <1>3, <1>4, <1>5 DEF PlaceStep, IsNotSuperAdmin

LEMMA TargetsStep ==
    ASSUME IInv, [Next]_vars
    PROVE  TargetsChecked'
<1> DEFINE Checked(table, q) ==
        /\ q.at \in {"validate", "save"} =>
            /\ table[q.body.id] # NoRow
            /\ table[q.body.id].role = SuperAdmin /\ Names(q.body)
                    => q.caller.role = SuperAdmin
        /\ q.at = "remove" => table[q.id] # NoRow /\ table[q.id].role # SuperAdmin
<1>1. TypeOK /\ UsersStep /\ PlacesStep
  BY EveryStep DEF IInv
<1>2. ASSUME NEW q \in Request \cup {Idle}, Checked(users, q)
      PROVE  Checked(users', q)
  <2>1. CASE q.at \in {"validate", "save"}
    <3>1. q.body.id \in Users
      BY <2>1, RequestFacts DEF Body
    <3>2. QED
      BY <1>1, <1>2, <2>1, <3>1, RowsKeepRank
  <2>2. CASE q.at = "remove"
    <3>1. q.id \in Users
      BY <2>2, RequestFacts
    <3>2. QED
      BY <1>1, <1>2, <2>2, <3>1, RowsKeepRank
  <2>3. QED
    BY <2>1, <2>2
<1>3. ASSUME NEW r \in Requests
      PROVE  Checked(users, req'[r])
  <2>1. Checked(users, req[r])
    BY DEF IInv, TargetsChecked
  <2>2. PlaceStep(r)
    BY <1>1 DEF PlacesStep
  <2>3. QED
    BY <2>1, <2>2 DEF PlaceStep, AllowedTarget, Deletable, Present
<1>4. \A r \in Requests : Checked(users', req'[r])
  BY <1>1, <1>2, <1>3 DEF PlacesStep
<1>5. QED
  BY <1>4 DEF TargetsChecked

LEMMA Inductive == Spec => []IInv
<1>1. ASSUME Init PROVE IInv
  <2>1. TypeOK
    BY <1>1 DEF Init, TypeOK
  <2>2. \A r \in Requests : req[r].at = "idle"
    BY <1>1 DEF Init, Idle
  <2>3. NoneWrittenSuper /\ TargetsChecked
    BY <2>2 DEF NoneWrittenSuper, TargetsChecked
  <2>4. \A u \in Users : users[u] = NoRow
    BY <1>1 DEF Init
  <2>5. SuperAdminsSeeded /\ EmailsUnique
    BY <2>4 DEF SuperAdminsSeeded, SuperAdmins, EmailsUnique
  <2>6. QED
    BY <2>1, <2>3, <2>5 DEF IInv
<1>2. IInv /\ [Next]_vars => IInv'
  BY TypeStep, SeededStep, EmailsStep, WrittenStep, TargetsStep DEF IInv
<1>3. QED
  BY <1>1, <1>2, PTL DEF Spec

-----------------------------------------------------------------------------
(* Theorems.                                                               *)

(* Every row keeps the shape of a row and every request that of a request: *)
(* what a handler carries over an await can always be written.             *)
THEOREM TypeCorrect == Spec => []TypeOK
  BY Inductive, PTL DEF IInv

(* Only the seed makes SuperAdmins: a role is checked, as a string, before *)
(* it is written, and no row that is there rises by another way.           *)
THEOREM OnlySeedMakesSuperAdmins == Spec => []SuperAdminsSeeded
  BY Inductive, PTL DEF IInv

(* No two rows share an email: the index refuses what a validator let pass *)
(* because it had looked too early.                                        *)
THEOREM EmailsStayUnique == Spec => []EmailsUnique
  BY Inductive, PTL DEF IInv

(* A guard that looked at a target long ago still protects a SuperAdmin,   *)
(* the target could not become one in the meantime: without the token of a *)
(* SuperAdmin it stays, and its role and status stay or are emptied.       *)
THEOREM SuperAdminsAreSafe == Spec => SuperAdminAtMostEmptied
<1> DEFINE Safe(r, u) ==
        /\ users'[u].deleted = users[u].deleted
        /\ users'[u].role \in {users[u].role, Null}
        /\ users'[u].status \in {users[u].status, Null}
        /\ users'[u].role # users[u].role \/ users'[u].status # users[u].status
             => ~Names(req[r].body)
<1>1. ASSUME IInv, [Next]_vars,
             NEW r \in Requests, NEW u \in SuperAdmins,
             Save(r) \/ Remove(r), req[r].caller.role # SuperAdmin
      PROVE  Safe(r, u)
  <2>1. TypeOK /\ u \in Users /\ users[u] \in Row /\ users[u].role = SuperAdmin
    BY <1>1 DEF SuperAdmins, IInv, TypeOK
  <2>2. CASE users'[u] = users[u]
    BY <2>2
  <2>3. CASE Save(r) /\ users'[u] # users[u]
    <3> DEFINE body == req[r].body
    <3>1. /\ users' = [users EXCEPT ![body.id] = Merged(users[body.id], body)]
          /\ body.id \in Users
      BY <1>1, <2>3, SaveUsers
    <3>2. u = body.id /\ users'[u] = Merged(users[u], body)
      BY <2>1, <2>3, <3>1 DEF TypeOK
    <3>3. req[r] \in Request \cup {Idle} /\ req[r].at = "save"
      BY <2>1, <2>3 DEF TypeOK, Save
    <3>4. body \in Body /\ body.email # Null
      BY <2>3, <3>3, RequestFacts DEF Save
    <3>5. ~Names(body)
      BY <1>1, <2>1, <3>2, <3>3 DEF IInv, TargetsChecked
    <3>6. QED
      BY <2>1, <3>2, <3>4, <3>5, MergedFacts
  <2>4. CASE Remove(r)
    <3>1. req[r].id # u
      BY <1>1, <2>1, <2>4 DEF IInv, TargetsChecked, Remove
    <3>2. users'[u] = users[u]
      BY <1>1, <2>1, <2>4, <3>1, RemoveUsers DEF TypeOK
    <3>3. QED
      BY <3>2
  <2>5. QED
    BY <1>1, <2>2, <2>3, <2>4
<1>2. IInv /\ [Next]_vars =>
        \A r \in Requests, u \in SuperAdmins :
            (Save(r) \/ Remove(r)) /\ req[r].caller.role # SuperAdmin => Safe(r, u)
  BY <1>1
<1>3. QED
  BY <1>2, Inductive, PTL DEF Spec, SuperAdminAtMostEmptied
=============================================================================
