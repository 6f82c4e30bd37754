------------------------- MODULE PostsWorkflowProofs -------------------------
(* Theorems about PostsWorkflow, for every set of posts, bodies and        *)
(* requests.                                                               *)
EXTENDS PostsWorkflow, TLAPS

USE ConstantsAssumption

-----------------------------------------------------------------------------
(* Facts about the data.                                                   *)

LEMMA RowFacts ==
    /\ NoRow \notin Row
    /\ \A row \in Row : row.status \in Statuses \cup {Nothing} /\ row.author \in Users \cup {Nothing}
  BY DEF Row, NoRow, Statuses, Nothing

(* What a row becomes under the fields that a body names.                  *)
LEMMA MergedFacts ==
    ASSUME NEW row \in Row, NEW body \in Change
    PROVE  /\ Merged(row, body) \in Row
           /\ Merged(row, body).status \in {row.status, body.status.name}
<1>1. /\ body.status.name \in Statuses \cup {Omitted, Nothing}
      /\ body.author \in Users \cup {Omitted}
  BY DEF Change, StatusField, NoStatus
<1>2. QED
  BY <1>1 DEF Merged, Row

(* The shape of a request tells where it is.                               *)
LEMMA RequestFacts ==
    ASSUME NEW q \in Request \cup Answer \cup {Idle}
    PROVE  /\ q.at = "insert" => q.byAdmin \in BOOLEAN /\ q.body \in Creation
           /\ q.at = "read" => q.caller \in Token /\ q.body \in Change
           /\ q.at = "save" =>
                /\ q = [at |-> "save", caller |-> q.caller, body |-> q.body,
                        overtaken |-> q.overtaken]
                /\ q.caller \in Token /\ q.body \in Change /\ q.overtaken \in BOOLEAN
           /\ q.at = "remove" =>
                /\ q = [at |-> "remove", caller |-> q.caller, body |-> q.body,
                        overtaken |-> q.overtaken]
                /\ q.caller \in Token /\ q.body \in [id: Posts] /\ q.overtaken \in BOOLEAN
  BY DEF Request, Answer, Idle

LEMMA OvertakenFacts ==
    ASSUME NEW q \in Request \cup Answer \cup {Idle}, q.at \in {"save", "remove"}
    PROVE  [at |-> q.at, caller |-> q.caller, body |-> q.body, overtaken |-> TRUE] \in Request
<1>1. CASE q.at = "save"
  BY <1>1, RequestFacts DEF Request
<1>2. CASE q.at = "remove"
  BY <1>2, RequestFacts DEF Request
<1>3. QED
  BY <1>1, <1>2

LEMMA RespondFacts ==
    ASSUME NEW body \in Creation \cup Change \cup [id: Posts],
           NEW code \in {"201", "200", "204", "400", "403", "404", "500"}
    PROVE  Respond(body, code) \in Answer /\ Respond(body, code).at = "answered"
  BY DEF Respond, Answer

-----------------------------------------------------------------------------
(* The inductive invariant.                                                *)

(* What waits to be written publishes only what is approved, or is a new   *)
(* post of an administrator or with the id of its status as a string.      *)
PublishingChecked ==
    \A r \in Requests :
        /\ req[r].at = "insert" =>
            /\ req[r].body.status \in StatusField
            /\ ~req[r].byAdmin /\ req[r].body.status.name = "Published"
                => req[r].body.status.json = "string"
        /\ req[r].at = "save" /\ WantsToPublish(req[r].body) /\ ~req[r].caller.admin
            => req[r].body.id \in approved

(* Until another request writes the post, what a request has read of it    *)
(* holds; that it has a row holds for good.                                *)
ReadHolds ==
    \A r \in Requests : req[r].at \in {"save", "remove"} =>
        LET p == req[r].body.id IN
        /\ posts[p] # NoRow
        /\ ~req[r].overtaken =>
            /\ Present(p) /\ MayMutate(req[r].caller, p)
            /\ req[r].at = "save" => PublishAllowed(req[r].caller, req[r].body)

IInv == TypeOK /\ PublishingChecked /\ ReadHolds /\ PublicOnlyOnceApproved

-----------------------------------------------------------------------------
(* What a step does to a place of requests.                                *)
PlaceStep(r) ==
    \/ req'[r] = req[r]
    \/ req'[r].at \in {"answered", "read"} /\ req[r].at \notin {"save", "remove"}
    \/ req'[r].at = "answered" /\ (Save(r) \/ Remove(r))
    \/ /\ req'[r].at = "insert" /\ req'[r].body.status \in StatusField
       /\ ~req'[r].byAdmin /\ req'[r].body.status.name = "Published"
            => req'[r].body.status.json = "string"
    \/ /\ req[r].at = "read" /\ req'[r].at = "save" /\ ~req'[r].overtaken
       /\ Present(req'[r].body.id) /\ MayMutate(req'[r].caller, req'[r].body.id)
       /\ PublishAllowed(req'[r].caller, req'[r].body)
       /\ posts' = posts
    \/ /\ req'[r].at = "remove" /\ ~req'[r].overtaken
       /\ Present(req'[r].body.id) /\ MayMutate(req'[r].caller, req'[r].body.id)
       /\ posts' = posts
    \/ /\ req[r].at \in {"save", "remove"} /\ req'[r].at = req[r].at
       /\ req'[r].caller = req[r].caller /\ req'[r].body = req[r].body /\ req'[r].overtaken
PlacesStep ==
    /\ req' \in [Requests -> Request \cup Answer \cup {Idle}]
    /\ \A r \in Requests : PlaceStep(r)

(* What a step does to a post: it leaves it alone, makes it, or overtakes  *)
(* all who have read it.                                                   *)
PostStep(p) ==
    /\ posts[p] # NoRow => posts'[p] # NoRow
    /\ posts'[p] # NoRow /\ AlreadyPublished(p)' => AlreadyPublished(p) \/ p \in approved'
    /\ \/ posts'[p] = posts[p]
       \/ posts[p] = NoRow
       \/ \A r \in Requests : req'[r].at \in {"save", "remove"} /\ req'[r].body.id = p
                                => req'[r].overtaken
PostsStep ==
    /\ posts' \in [Posts -> Row \cup {NoRow}] /\ approved \subseteq approved'
    /\ approved' \subseteq Posts
    /\ \A p \in Posts : PostStep(p)

LEMMA GoPlaces ==
    ASSUME TypeOK, NEW r \in Requests, NEW q \in Request \cup Answer \cup {Idle}, Go(r, q),
           req'[r] = q => PlaceStep(r)
    PROVE  PlacesStep
<1>1. req'[r] = q /\ req' \in [Requests -> Request \cup Answer \cup {Idle}]
  BY DEF TypeOK, Go
<1>2. ASSUME NEW s \in Requests \ {r} PROVE PlaceStep(s)
  <2>1. req'[s] = req[s]
    BY DEF TypeOK, Go
  <2>2. QED
    BY <2>1 DEF PlaceStep
<1>3. QED
  BY <1>1, <1>2 DEF PlacesStep

LEMMA CreatePlaces ==
    ASSUME TypeOK, NEW r \in Requests, NEW c \in tokens, NEW body \in Creations,
           Create(r, c, body)
    PROVE  PlacesStep
<1>1. body \in Creation
  OBVIOUS
<1>2. \A code \in {"403", "500", "400"} : Go(r, Respond(body, code)) => PlacesStep
  <2>1. TAKE code \in {"403", "500", "400"}
  <2>2. Respond(body, code) \in Answer /\ Respond(body, code).at = "answered"
    BY <1>1, RespondFacts
  <2>3. req'[r] = Respond(body, code) => PlaceStep(r)
    BY <2>2 DEF PlaceStep, Create, Free
  <2>4. QED
    BY <2>2, <2>3, GoPlaces
<1>3. CASE Go(r, [at |-> "insert", byAdmin |-> c.id \in admins, body |-> body])
           /\ ~PublishRefused(c, body) /\ body.status.name # Omitted
  <2> DEFINE q == [at |-> "insert", byAdmin |-> c.id \in admins, body |-> body]
  <2>1. q \in Request
    BY <1>1 DEF Request
  <2>2. q.at = "insert" /\ (q.byAdmin <=> c.id \in admins) /\ q.body = body
    BY Zenon
  <2>3. /\ body.status \in StatusField
        /\ c.id \notin admins /\ body.status.name = "Published" => body.status.json = "string"
    <3>1. body.status \in StatusField
      BY <1>1, <1>3 DEF Creation, NoStatus
    <3>2. PICK name \in Statuses, json \in {"number", "string"} :
                body.status = [name |-> name, json |-> json]
      BY <3>1 DEF StatusField
    <3>3. QED
      BY <1>3, <3>1, <3>2 DEF PublishRefused
  <2> HIDE DEF q
  <2>4. req'[r] = q => PlaceStep(r)
    BY <2>2, <2>3 DEF PlaceStep
  <2>5. QED
    BY <1>3, <2>1, <2>4, GoPlaces DEF q
<1>4. QED
  BY <1>2, <1>3 DEF Create

LEMMA UpdatePlaces ==
    ASSUME TypeOK, NEW r \in Requests, NEW c \in tokens, NEW body \in Changes,
           Update(r, c, body)
    PROVE  PlacesStep
<1>1. body \in Change /\ c \in Token /\ req[r].at \notin {"save", "remove"}
  BY DEF TypeOK, Update, Free
<1>2. CASE Go(r, Respond(body, "500"))
  <2>1. Respond(body, "500") \in Answer /\ Respond(body, "500").at = "answered"
    BY <1>1, RespondFacts
  <2>2. QED
    BY <1>1, <1>2, <2>1, GoPlaces DEF PlaceStep
<1>3. CASE Go(r, [at |-> "read", caller |-> c, body |-> body])
  <2> DEFINE q == [at |-> "read", caller |-> c, body |-> body]
  <2>1. q \in Request /\ q.at = "read"
    BY <1>1 DEF Request
  <2>2. QED
    BY <1>1, <1>3, <2>1, GoPlaces DEF PlaceStep
<1>4. QED
  BY <1>2, <1>3 DEF Update

LEMMA ReadPlaces ==
    ASSUME TypeOK, NEW r \in Requests, Read(r)
    PROVE  PlacesStep
<1> DEFINE c    == req[r].caller
           body == req[r].body
           q    == [at |-> "save", caller |-> c, body |-> body, overtaken |-> FALSE]
<1>1. req[r].at = "read" /\ c \in Token /\ body \in Change
  BY RequestFacts DEF TypeOK, Read
<1>2. \A code \in {"404", "403"} : Go(r, Respond(body, code)) => PlacesStep
  <2>1. TAKE code \in {"404", "403"}
  <2>2. Respond(body, code) \in Answer /\ Respond(body, code).at = "answered"
    BY <1>1, RespondFacts
  <2>3. req'[r] = Respond(body, code) => PlaceStep(r)
    BY <1>1, <2>2 DEF PlaceStep
  <2>4. QED
    BY <2>2, <2>3, GoPlaces
<1>3. CASE Go(r, q) /\ Present(body.id) /\ MayMutate(c, body.id) /\ PublishAllowed(c, body)
  <2>1. q \in Request
    BY <1>1 DEF Request
  <2>2. q.at = "save" /\ q.caller = c /\ q.body = body /\ ~q.overtaken /\ posts' = posts
    BY DEF Read
  <2> HIDE DEF q
  <2>3. req'[r] = q => PlaceStep(r)
    BY <1>1, <1>3, <2>2 DEF PlaceStep
  <2>4. QED
    BY <1>3, <2>1, <2>3, GoPlaces
<1>4. QED
  BY <1>2, <1>3 DEF Read

LEMMA DeletePlaces ==
    ASSUME TypeOK, NEW r \in Requests, NEW c \in tokens, NEW p \in Posts, Delete(r, c, p)
    PROVE  PlacesStep
<1> DEFINE body == [id |-> p]
           q    == [at |-> "remove", caller |-> c, body |-> body, overtaken |-> FALSE]
<1>1. body \in [id: Posts] /\ c \in Token /\ req[r].at \notin {"save", "remove"}
  BY DEF TypeOK, Delete, Free
<1>2. \A code \in {"404", "403"} : Go(r, Respond(body, code)) => PlacesStep
  <2>1. TAKE code \in {"404", "403"}
  <2>2. Respond(body, code) \in Answer /\ Respond(body, code).at = "answered"
    BY <1>1, RespondFacts
  <2>3. req'[r] = Respond(body, code) => PlaceStep(r)
    BY <1>1, <2>2 DEF PlaceStep
  <2>4. QED
    BY <2>2, <2>3, GoPlaces
<1>3. CASE Go(r, q) /\ Present(p) /\ MayMutate(c, p)
  <2>1. q \in Request
    BY <1>1 DEF Request
  <2>2. q.at = "remove" /\ q.caller = c /\ q.body.id = p /\ ~q.overtaken /\ posts' = posts
    BY DEF Delete
  <2> HIDE DEF q
  <2>3. req'[r] = q => PlaceStep(r)
    BY <1>3, <2>2 DEF PlaceStep
  <2>4. QED
    BY <1>3, <2>1, <2>3, GoPlaces
<1>4. QED
  BY <1>2, <1>3 DEF Delete, Removable

(* Insert, Save and Remove.                                                *)
LEMMA InsertStep ==
    ASSUME IInv, NEW r \in Requests, NEW p \in Posts, Insert(r, p)
    PROVE  PlacesStep /\ PostsStep
<1> DEFINE body == req[r].body
           row  == [status |-> body.status.name, author |-> Nothing, deleted |-> FALSE]
<1>0. TypeOK /\ req[r].at = "insert"
  BY DEF IInv, Insert
<1>1. body \in Creation /\ req[r].byAdmin \in BOOLEAN
  BY <1>0, RequestFacts DEF TypeOK
<1>2. PlacesStep
  <2>1. Respond(body, "201") \in Answer /\ Respond(body, "201").at = "answered"
    BY <1>1, RespondFacts
  <2>2. req'[r] = Respond(body, "201") => PlaceStep(r)
    BY <1>0, <2>1 DEF PlaceStep
  <2>3. QED
    BY <1>0, <2>1, <2>2, GoPlaces DEF Insert
<1>3. posts' = [posts EXCEPT ![p] = row] /\ posts[p] = NoRow
  BY DEF Insert
<1>4. PostsStep
  <2>1. approved \subseteq approved' /\ approved' \subseteq Posts
    BY <1>0 DEF Insert, TypeOK
  <2>2. body.status.name \in Statuses
    BY <1>0 DEF IInv, PublishingChecked, StatusField
  <2>3. row \in Row /\ row # NoRow /\ row.status = body.status.name
    <3>1. row \in Row
      BY <2>2 DEF Row
    <3>2. QED
      BY <3>1, RowFacts
  <2>4. row.status = "Published" => p \in approved'
    BY <1>0, <2>3 DEF IInv, PublishingChecked, Insert
  <2> HIDE DEF row
  <2>5. posts' \in [Posts -> Row \cup {NoRow}]
    BY <1>0, <1>3, <2>3 DEF TypeOK
  <2>6. ASSUME NEW s \in Posts PROVE PostStep(s)
    BY <1>0, <1>3, <2>3, <2>4 DEF TypeOK, PostStep, AlreadyPublished
  <2>7. QED
    BY <2>1, <2>5, <2>6 DEF PostsStep
<1>5. QED
  BY <1>2, <1>4

(* Whoever has read the post that r writes is overtaken.                   *)
LEMMA WrittenPlaces ==
    ASSUME TypeOK, NEW r \in Requests, NEW answer \in Answer, answer.at = "answered",
           req' = Written(r, answer), Save(r) \/ Remove(r)
    PROVE  /\ PlacesStep
           /\ \A q \in Requests :
                req'[q].at \in {"save", "remove"} /\ req'[q].body.id = req[r].body.id
                    => req'[q].overtaken
<1>1. ASSUME NEW q \in Requests
      PROVE  /\ req'[q] \in Request \cup Answer \cup {Idle} /\ PlaceStep(q)
             /\ req'[q].at \in {"save", "remove"} /\ req'[q].body.id = req[r].body.id
                    => req'[q].overtaken
  <2>1. CASE q = r
    <3>1. req'[q] = answer
      BY <2>1 DEF Written
    <3>2. QED
      BY <2>1, <3>1 DEF PlaceStep
  <2>2. CASE q # r /\ req[q].at \in {"save", "remove"} /\ req[q].body.id = req[r].body.id
    <3>1. req'[q] = [at |-> req[q].at, caller |-> req[q].caller, body |-> req[q].body,
                     overtaken |-> TRUE]
      BY <2>2 DEF Written
    <3>2. req'[q] \in Request
      BY <2>2, <3>1, OvertakenFacts DEF TypeOK
    <3>3. /\ req'[q].at = req[q].at /\ req'[q].caller = req[q].caller
          /\ req'[q].body = req[q].body /\ req'[q].overtaken
      BY <3>1
    <3>4. QED
      BY <2>2, <3>2, <3>3 DEF PlaceStep
  <2>3. CASE q # r /\ ~(req[q].at \in {"save", "remove"} /\ req[q].body.id = req[r].body.id)
    <3>1. req'[q] = req[q]
      BY <2>3 DEF Written
    <3>2. QED
      BY <2>3, <3>1 DEF PlaceStep, TypeOK
  <2>4. QED
    BY <2>1, <2>2, <2>3
<1>2. req' = [q \in Requests |-> req'[q]]
  BY DEF Written
<1>3. req' \in [Requests -> Request \cup Answer \cup {Idle}]
  BY <1>1, <1>2
<1>4. QED
  BY <1>1, <1>3 DEF PlacesStep

LEMMA SaveStep ==
    ASSUME IInv, NEW r \in Requests, Save(r)
    PROVE  PlacesStep /\ PostsStep
<1> DEFINE body == req[r].body
           p    == body.id
           row  == Merged(posts[p], body)
<1>0. TypeOK /\ req[r].at = "save"
  BY DEF IInv, Save
<1>1. body \in Change /\ p \in Posts
  BY <1>0, RequestFacts DEF TypeOK, Change
<1>2. posts[p] \in Row
  BY <1>0, <1>1 DEF IInv, ReadHolds, TypeOK
<1>3. row \in Row /\ row.status \in {posts[p].status, body.status.name}
  BY <1>1, <1>2, MergedFacts
<1>4. posts' = [posts EXCEPT ![p] = row] /\ req' = Written(r, Respond(body, "200"))
  BY DEF Save
<1>5. Respond(body, "200") \in Answer /\ Respond(body, "200").at = "answered"
  BY <1>1, RespondFacts
<1>6. /\ PlacesStep
      /\ \A q \in Requests : req'[q].at \in {"save", "remove"} /\ req'[q].body.id = p
                                => req'[q].overtaken
  BY <1>0, <1>4, <1>5, WrittenPlaces
<1>7. /\ approved \subseteq approved' /\ approved' \subseteq Posts
      /\ body.status.name = "Published" => p \in approved'
  BY <1>0, <1>1 DEF IInv, PublishingChecked, Save, TypeOK, WantsToPublish
<1> HIDE DEF p, row, body
<1>8. ASSUME NEW s \in Posts PROVE PostStep(s)
  <2>1. CASE s = p
    <3>1. posts'[s] = row /\ row # NoRow
      BY <1>0, <1>1, <1>3, <1>4, <2>1, RowFacts DEF TypeOK
    <3>2. QED
      BY <1>3, <1>6, <1>7, <2>1, <3>1 DEF PostStep, AlreadyPublished
  <2>2. CASE s # p
    <3>1. posts'[s] = posts[s]
      BY <1>0, <1>4, <2>2 DEF TypeOK
    <3>2. QED
      BY <3>1 DEF PostStep, AlreadyPublished
  <2>3. QED
    BY <2>1, <2>2
<1>9. posts' \in [Posts -> Row \cup {NoRow}]
  BY <1>0, <1>1, <1>3, <1>4 DEF TypeOK
<1>10. QED
  BY <1>6, <1>7, <1>8, <1>9 DEF PostsStep

LEMMA RemoveStep ==
    ASSUME IInv, NEW r \in Requests, Remove(r)
    PROVE  PlacesStep /\ PostsStep
<1> DEFINE p   == req[r].body.id
           row == [posts[p] EXCEPT !.deleted = TRUE]
<1>0. TypeOK /\ req[r].at = "remove"
  BY DEF IInv, Remove
<1>1. req[r].body \in [id: Posts] /\ p \in Posts
  BY <1>0, RequestFacts DEF TypeOK
<1>2. posts[p] \in Row
  BY <1>0, <1>1 DEF IInv, ReadHolds, TypeOK
<1>3. row \in Row /\ row.status = posts[p].status
  BY <1>2 DEF Row
<1>4. /\ posts' = [posts EXCEPT ![p] = row] /\ req' = Written(r, Respond(req[r].body, "204"))
      /\ approved' = approved
  BY DEF Remove
<1>5. Respond(req[r].body, "204") \in Answer /\ Respond(req[r].body, "204").at = "answered"
  BY <1>1, RespondFacts
<1>6. /\ PlacesStep
      /\ \A q \in Requests : req'[q].at \in {"save", "remove"} /\ req'[q].body.id = p
                                => req'[q].overtaken
  BY <1>0, <1>4, <1>5, WrittenPlaces
<1> HIDE DEF p, row
<1>8. ASSUME NEW s \in Posts PROVE PostStep(s)
  <2>1. CASE s = p
    <3>1. posts'[s] = row /\ row # NoRow
      BY <1>0, <1>1, <1>3, <1>4, <2>1, RowFacts DEF TypeOK
    <3>2. QED
      BY <1>3, <1>6, <2>1, <3>1 DEF PostStep, AlreadyPublished
  <2>2. CASE s # p
    <3>1. posts'[s] = posts[s]
      BY <1>0, <1>4, <2>2 DEF TypeOK
    <3>2. QED
      BY <3>1 DEF PostStep, AlreadyPublished
  <2>3. QED
    BY <2>1, <2>2
<1>9. posts' \in [Posts -> Row \cup {NoRow}]
  BY <1>0, <1>1, <1>3, <1>4 DEF TypeOK
<1>10. QED
  BY <1>0, <1>4, <1>6, <1>8, <1>9 DEF PostsStep, TypeOK

-----------------------------------------------------------------------------
(* Every step, whole.                                                      *)

LEMMA CountType ==
    ASSUME TypeOK, Count
    PROVE  requests' \in 0..MaxRequests
<1>1. requests \in 0..MaxRequests
  BY DEF TypeOK
<1>2. QED
  BY ONLY <1>1, Count, MaxRequests \in Nat DEF Count

LEMMA EveryStep ==
    ASSUME IInv, [Next]_vars
    PROVE  /\ PostsStep /\ PlacesStep
           /\ admins' \subseteq Users /\ tokens' \subseteq Token /\ requests' \in 0..MaxRequests
<1> DEFINE Whole == /\ PostsStep /\ PlacesStep
                    /\ admins' \subseteq Users /\ tokens' \subseteq Token
                    /\ requests' \in 0..MaxRequests
<1>0. /\ TypeOK /\ admins \subseteq Users /\ tokens \subseteq Token
      /\ requests \in 0..MaxRequests
  BY DEF IInv, TypeOK
<1>a. req' = req => PlacesStep
  BY <1>0 DEF TypeOK, PlacesStep, PlaceStep
<1>b. posts' = posts /\ approved' = approved => PostsStep
  BY <1>0 DEF TypeOK, PostsStep, PostStep, AlreadyPublished
<1>1. ASSUME NEW u \in Users, SignIn(u) PROVE Whole
  <2>1. [id |-> u, admin |-> u \in admins] \in Token
    BY DEF Token
  <2>2. tokens' \subseteq Token
    BY <1>0, <1>1, <2>1 DEF SignIn
  <2>3. QED
    BY <1>0, <1>a, <1>b, <1>1, <2>2 DEF SignIn
<1>2. ASSUME NEW u \in Users, SetRole(u) PROVE Whole
  BY <1>0, <1>a, <1>b, <1>2, CountType DEF SetRole
<1>3. ASSUME NEW t \in tokens, Expire(t) PROVE Whole
  BY <1>0, <1>a, <1>b, <1>3 DEF Expire
<1>4. ASSUME NEW r \in Requests, Read(r) PROVE Whole
  BY <1>0, <1>b, <1>4, ReadPlaces DEF Read
<1>5. ASSUME NEW r \in Requests, Save(r) PROVE Whole
  BY <1>0, <1>5, SaveStep DEF Save
<1>6. ASSUME NEW r \in Requests, Remove(r) PROVE Whole
  BY <1>0, <1>6, RemoveStep DEF Remove
<1>7. ASSUME NEW r \in Requests, NEW p \in Posts, Insert(r, p) PROVE Whole
  BY <1>0, <1>7, InsertStep DEF Insert
<1>8. ASSUME NEW r \in Requests, NEW c \in tokens, NEW body \in Creations, Create(r, c, body)
      PROVE  Whole
  BY <1>0, <1>b, <1>8, CreatePlaces, CountType DEF Create
<1>9. ASSUME NEW r \in Requests, NEW c \in tokens, NEW body \in Changes, Update(r, c, body)
      PROVE  Whole
  BY <1>0, <1>b, <1>9, UpdatePlaces, CountType DEF Update
<1>10. ASSUME NEW r \in Requests, NEW c \in tokens, NEW p \in Posts, Delete(r, c, p)
       PROVE  Whole
  BY <1>0, <1>b, <1>10, DeletePlaces, CountType DEF Delete
<1>11. CASE UNCHANGED vars
  BY <1>0, <1>a, <1>b, <1>11 DEF vars
<1>12. QED
  BY <1>1, <1>2, <1>3, <1>4, <1>5, <1>6, <1>7, <1>8, <1>9, <1>10, <1>11 DEF Next

-----------------------------------------------------------------------------
(* Every part of the invariant is kept.                                    *)

LEMMA PublicStep ==
    ASSUME IInv, [Next]_vars
    PROVE  PublicOnlyOnceApproved'
<1>1. SUFFICES ASSUME NEW p \in Posts, posts'[p].status = "Published"
               PROVE  p \in approved'
  BY DEF PublicOnlyOnceApproved, AlreadyPublished
<1>2. PostStep(p) /\ approved \subseteq approved' /\ posts' \in [Posts -> Row \cup {NoRow}]
  BY EveryStep DEF PostsStep
<1>3. posts'[p] # NoRow
  <2>1. NoRow.status # "Published"
    BY DEF NoRow
  <2>2. QED
    BY <1>1, <2>1
<1>4. QED
  BY <1>1, <1>2, <1>3 DEF IInv, PublicOnlyOnceApproved, PostStep, AlreadyPublished

LEMMA PublishingStep ==
    ASSUME IInv, [Next]_vars
    PROVE  PublishingChecked'
<1> DEFINE Checked(q, S) ==
        /\ q.at = "insert" =>
            /\ q.body.status \in StatusField
            /\ ~q.byAdmin /\ q.body.status.name = "Published" => q.body.status.json = "string"
        /\ q.at = "save" /\ q.body.status.name = "Published" /\ ~q.caller.admin
            => q.body.id \in S
<1>1. approved \subseteq approved' /\ PlacesStep /\ TypeOK
  BY EveryStep DEF IInv, PostsStep
<1>2. ASSUME NEW r \in Requests PROVE Checked(req'[r], approved')
  <2>1. PlaceStep(r) /\ Checked(req[r], approved)
    BY <1>1 DEF PlacesStep, IInv, PublishingChecked, WantsToPublish
  <2>2. CASE req[r].at = "read" /\ req'[r].at = "save"
    <3>1. req'[r].body.status.name = "Published" /\ ~req'[r].caller.admin
            => AlreadyPublished(req'[r].body.id)
      BY <2>1, <2>2 DEF PlaceStep, PublishAllowed, WantsToPublish
    <3>2. req'[r].body.id \in Posts
      BY <1>1, <2>2, RequestFacts DEF PlacesStep, Change
    <3>3. QED
      BY <1>1, <2>2, <3>1, <3>2 DEF IInv, PublicOnlyOnceApproved
  <2>3. CASE ~(req[r].at = "read" /\ req'[r].at = "save")
    BY <1>1, <2>1, <2>3 DEF PlaceStep
  <2>4. QED
    BY <2>2, <2>3
<1>3. QED
  BY <1>2 DEF PublishingChecked, WantsToPublish

LEMMA ReadStep ==
    ASSUME IInv, [Next]_vars
    PROVE  ReadHolds'
<1> DEFINE Holds(table, q) ==
        LET row == table[q.body.id] IN
        q.at \in {"save", "remove"} =>
            /\ row # NoRow
            /\ ~q.overtaken =>
                /\ ~row.deleted /\ (q.caller.admin \/ row.author = q.caller.id)
                /\ q.at = "save" =>
                    (q.body.status.name = "Published" /\ row.status # "Published" => q.caller.admin)
<1>1. PostsStep /\ PlacesStep /\ TypeOK
  BY EveryStep DEF IInv
<1>2. ASSUME NEW r \in Requests PROVE Holds(posts', req'[r])
  <2>1. PICK q : q = req'[r]
    OBVIOUS
  <2>2. SUFFICES ASSUME q.at \in {"save", "remove"} PROVE Holds(posts', q)
    BY <2>1
  <2> DEFINE p == q.body.id
  <2>3. p \in Posts
    BY <1>1, <2>1, <2>2, RequestFacts DEF PlacesStep, Change
  <2>4. PostStep(p)
    BY <1>1, <2>3 DEF PostsStep
  <2>5. Holds(posts, req[r])
    BY DEF IInv, ReadHolds, Present, MayMutate, Owns, PublishAllowed, WantsToPublish,
           AlreadyPublished
  <2>6. PlaceStep(r)
    BY <1>1 DEF PlacesStep
  <2>7. posts[p] # NoRow /\ (q.overtaken \/ Holds(posts, q))
    BY <2>1, <2>2, <2>5, <2>6
       DEF PlaceStep, Present, MayMutate, Owns, PublishAllowed, WantsToPublish, AlreadyPublished
  <2>8. posts'[p] # NoRow
    BY <2>4, <2>7 DEF PostStep
  <2>9. q.overtaken \/ posts'[p] = posts[p]
    BY <2>1, <2>2, <2>4, <2>7 DEF PostStep
  <2>10. QED
    BY <2>7, <2>8, <2>9
<1>3. QED
  BY <1>2 DEF ReadHolds, Present, MayMutate, Owns, PublishAllowed, WantsToPublish,
              AlreadyPublished

LEMMA Inductive == Spec => []IInv
<1>1. ASSUME Init PROVE IInv
  <2>1. TypeOK
    BY <1>1 DEF Init, TypeOK
  <2>2. \A r \in Requests : req[r].at = "idle"
    BY <1>1 DEF Init, Idle
  <2>3. PublishingChecked /\ ReadHolds
    BY <2>2 DEF PublishingChecked, ReadHolds
  <2>4. PublicOnlyOnceApproved
    BY <1>1 DEF Init, PublicOnlyOnceApproved, AlreadyPublished, NoRow
  <2>5. QED
    BY <2>1, <2>3, <2>4 DEF IInv
<1>2. ASSUME IInv, [Next]_vars PROVE TypeOK'
  BY <1>2, EveryStep DEF TypeOK, PostsStep, PlacesStep
<1>3. IInv /\ [Next]_vars => IInv'
  BY <1>2, PublicStep, PublishingStep, ReadStep DEF IInv
<1>4. QED
  BY <1>1, <1>3, PTL DEF Spec

-----------------------------------------------------------------------------
(* Theorems.                                                               *)

(* Rows, requests and answers keep their shape: what a handler carries from *)
(* its read to its write can always be written.                            *)
THEOREM TypeCorrect == Spec => []TypeOK
  BY Inductive, PTL DEF IInv

(* No author makes a post public, by whatever interleaving of creates,     *)
(* updates and changes of roles, but by the string that one guard misses.  *)
THEOREM PublicOnceApproved == Spec => []PublicOnlyOnceApproved
  BY Inductive, PTL DEF IInv

(* A write by somebody who is neither owner nor administrator, or onto a   *)
(* post that was withdrawn, happens only where another write came between  *)
(* the check and the save.                                                 *)
THEOREM OutOfTurnIsOvertaken == Spec => OutOfTurnOnlyIfOvertaken
<1> DEFINE InTurn ==
        \A r \in Requests :
            req[r].at \in {"save", "remove"} /\ req'[r].at = "answered" /\ ~req[r].caller.admin =>
                LET p == req[r].body.id IN
                \/ req[r].overtaken
                \/ /\ Owns(req[r].caller, p) /\ Present(p)
                   /\ posts'[p].status = "Published" => AlreadyPublished(p)
<1>1. ASSUME IInv, [Next]_vars PROVE InTurn
  <2>1. SUFFICES ASSUME NEW r \in Requests, req[r].at \in {"save", "remove"},
                        req'[r].at = "answered", ~req[r].caller.admin, ~req[r].overtaken
                 PROVE  LET p == req[r].body.id IN
                        /\ Owns(req[r].caller, p) /\ Present(p)
                        /\ posts'[p].status = "Published" => AlreadyPublished(p)
    BY Zenon
  <2> DEFINE body == req[r].body
             p    == body.id
  <2>2. TypeOK /\ PlaceStep(r)
    BY <1>1, EveryStep DEF IInv, PlacesStep
  <2>3. Save(r) \/ Remove(r)
    BY <2>1, <2>2 DEF PlaceStep
  <2>4. Owns(req[r].caller, p) /\ Present(p)
    BY <1>1, <2>1 DEF IInv, ReadHolds, MayMutate
  <2>5. p \in Posts /\ posts[p] \in Row
    BY <2>1, <2>2, <2>4, RequestFacts DEF TypeOK, Change, Present
  <2>6. CASE Save(r)
    <3>1. req[r].at = "save" /\ body \in Change /\ posts'[p] = Merged(posts[p], body)
      BY <2>2, <2>5, <2>6, RequestFacts DEF Save, TypeOK
    <3>2. body.status.name = "Published" => AlreadyPublished(p)
      BY <1>1, <2>1, <3>1 DEF IInv, ReadHolds, PublishAllowed, WantsToPublish
    <3>3. posts'[p].status \in {posts[p].status, body.status.name}
      BY <2>5, <3>1, MergedFacts
    <3>4. QED
      BY <2>4, <3>2, <3>3 DEF AlreadyPublished
  <2>7. CASE Remove(r)
    <3>1. posts'[p] = [posts[p] EXCEPT !.deleted = TRUE]
      BY <2>2, <2>5, <2>7 DEF Remove, TypeOK
    <3>2. posts'[p].status = posts[p].status
      BY <2>5, <3>1 DEF Row
    <3>3. QED
      BY <2>4, <3>2 DEF AlreadyPublished
  <2>8. QED
    BY <2>3, <2>6, <2>7
<1>2. QED
  BY <1>1, Inductive, PTL DEF Spec, OutOfTurnOnlyIfOvertaken

(* Lists and reads agree for every reader, role and filter: the filter of  *)
(* the list shows nobody a post whose own page refuses him.                *)
THEOREM ListsAgree == Spec => []ListedIsFound
<1>1. ListedIsFound
  <2>1. SUFFICES ASSUME NEW c \in Readers, NEW filter \in Statuses \cup {"all"},
                        NEW p \in Listed(c, filter), posts[p].status # Nothing
                 PROVE  Found(c, p)
    BY DEF ListedIsFound
  <2>2. Present(p) /\ (c.admin \/ AlreadyPublished(p) \/ (c # Nobody /\ Owns(c, p)))
    BY DEF Listed
  <2>3. QED
    BY <2>1, <2>2 DEF Found
<1>2. QED
  BY <1>1, PTL
=============================================================================
