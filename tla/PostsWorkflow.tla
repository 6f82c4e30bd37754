---------------------------- MODULE PostsWorkflow ----------------------------
(***************************************************************************)
(* Who publishes, changes, deletes and reads a post. A request passes its  *)
(* guard, interceptor and pipes, reads the post, and writes it later; other*)
(* requests on the same post come in between. The caller of create is read *)
(* again from the table, every other one has the role signed in its token. *)
(***************************************************************************)
EXTENDS Naturals, FiniteSets

CONSTANTS
    Posts,          \* identifiers of rows, used or not
    Users, Topics,
    Assigned,       \* the topics of each user
    Requests,       \* places for concurrent requests
    Creations, Changes,     \* bodies that clients may send to POST and to PATCH
    MaxRequests     \* bound: requests and changes of role

Statuses == {"Published", "Draft", "OnReview"}
Omitted  == "omitted"
Nothing  == "null"
(* A status is named by its id, sent as a number or as a string.           *)
StatusField == [name: Statuses, json: {"number", "string"}]
NoStatus(word) == [name |-> word, json |-> word]
OmittedTopics  == [given |-> FALSE, set |-> {}]
TopicsField    == [given: {TRUE}, set: SUBSET Topics] \cup {OmittedTopics}

Creation == [status: StatusField \cup {NoStatus(Omitted)}, topics: TopicsField,
             author: Users \cup {Omitted}]
Change   == [id: Posts, status: StatusField \cup {NoStatus(Omitted), NoStatus(Nothing)},
             topics: TopicsField, author: Users \cup {Omitted}]

ASSUME ConstantsAssumption ==
    /\ Assigned \in [Users -> SUBSET Topics]
    /\ Creations \subseteq Creation /\ Changes \subseteq Change
    /\ {Omitted, Nothing} \cap Users = {} /\ MaxRequests \in Nat

VARIABLES
    posts,          \* table posts
    admins,         \* users whose role is Admin or SuperAdmin now
    tokens,         \* access tokens that have not expired
    req,            \* requests in progress, and the last answer of each place
    requests,
    approved        \* history: posts made public by an administrator, or by a
                    \* create whose status id came as a string
vars == <<posts, admins, tokens, req, requests, approved>>

NoRow == [status |-> "no row"]
Row   == [status: Statuses \cup {Nothing}, author: Users \cup {Nothing}, deleted: BOOLEAN]
Token == [id: Users, admin: BOOLEAN]
(* The last field of a request tells whether another one has written the   *)
(* post that it has read.                                                  *)
Idle    == [at |-> "idle"]
Answer  == [at: {"answered"}, code: {"201", "200", "204", "400", "403", "404", "500"},
            body: Creation \cup Change \cup [id: Posts]]
Request == [at: {"insert"}, byAdmin: BOOLEAN, body: Creation]
           \cup [at: {"read"}, caller: Token, body: Change]
           \cup [at: {"save"}, caller: Token, body: Change, overtaken: BOOLEAN]
           \cup [at: {"remove"}, caller: Token, body: [id: Posts], overtaken: BOOLEAN]

TypeOK ==
    /\ posts \in [Posts -> Row \cup {NoRow}]
    /\ admins \subseteq Users
    /\ tokens \subseteq Token
    /\ req \in [Requests -> Request \cup Answer \cup {Idle}]
    /\ requests \in 0..MaxRequests
    /\ approved \subseteq Posts

Init ==
    /\ posts = [p \in Posts |-> NoRow] /\ admins \in SUBSET Users
    /\ tokens = {} /\ req = [r \in Requests |-> Idle]
    /\ requests = 0 /\ approved = {}

Count == requests < MaxRequests /\ requests' = requests + 1
Free(r) == req[r].at \in {"idle", "answered"}
Go(r, request) == req' = [req EXCEPT ![r] = request]
Respond(body, code) == [at |-> "answered", code |-> code, body |-> body]

Present(p)  == posts[p] # NoRow /\ ~posts[p].deleted
Owns(c, p)  == posts[p] # NoRow /\ posts[p].author = c.id
MayMutate(c, p) == c.admin \/ Owns(c, p)

-----------------------------------------------------------------------------
(* A login, and an administrator's change of a role.                       *)
SignIn(u) ==
    /\ tokens' = tokens \cup {[id |-> u, admin |-> u \in admins]}
    /\ UNCHANGED <<posts, admins, req, requests, approved>>

Expire(t) ==
    /\ tokens' = tokens \ {t}
    /\ UNCHANGED <<posts, admins, req, requests, approved>>

SetRole(u) ==
    /\ Count
    /\ admins' = IF u \in admins THEN admins \ {u} ELSE admins \cup {u}
    /\ UNCHANGED <<posts, tokens, req, approved>>

-----------------------------------------------------------------------------
(* CreatePostGuard. Topics of the body are other objects than those of the *)
(* table, so none is ever included: an author with any topic is refused.   *)
TopicsRefused(c, body) == c.id \notin admins /\ Assigned[c.id] # {}
PublishRefusedNever(c, body) == FALSE  \* mutant: no check of the status
PublishRefused(c, body) ==
    c.id \notin admins /\ body.status = [name |-> "Published", json |-> "number"]

Create(r, c, body) ==
    /\ Count /\ Free(r)
    /\ Go(r, IF TopicsRefused(c, body)
             THEN Respond(body, IF body.topics.given THEN "403" ELSE "500")
             ELSE IF PublishRefused(c, body) THEN Respond(body, "403")
             (* ValidationPipe: a status, and no author, which no decorator allows. *)
             ELSE IF body.author # Omitted \/ body.status.name = Omitted THEN Respond(body, "400")
             ELSE [at |-> "insert", byAdmin |-> c.id \in admins, body |-> body])
    /\ UNCHANGED <<posts, admins, tokens, approved>>

Insert(r, p) ==
    LET body == req[r].body IN
    /\ req[r].at = "insert" /\ posts[p] = NoRow
    /\ posts' = [posts EXCEPT ![p] =
                    [status |-> body.status.name, author |-> Nothing, deleted |-> FALSE]]
    /\ approved' = IF body.status.name = "Published"
                      /\ (req[r].byAdmin \/ body.status.json = "string")
                   THEN approved \cup {p} ELSE approved
    /\ Go(r, Respond(body, "201"))
    /\ UNCHANGED <<admins, tokens, requests>>

-----------------------------------------------------------------------------
(* PATCH: ChildrenInterceptor maps the topics, given or not.               *)
Update(r, c, body) ==
    /\ Count /\ Free(r)
    /\ Go(r, IF body.topics.given THEN [at |-> "read", caller |-> c, body |-> body]
             ELSE Respond(body, "500"))
    /\ UNCHANGED <<posts, admins, tokens, approved>>

WantsToPublish(body)   == body.status.name = "Published"
AlreadyPublished(p)    == posts[p].status = "Published"
PublishAllowedAnyway(c, body) == TRUE       \* mutant: an author publishes at will
PublishAllowed(c, body) == WantsToPublish(body) /\ ~AlreadyPublished(body.id) => c.admin

Read(r) ==
    LET body == req[r].body  c == req[r].caller IN
    /\ req[r].at = "read"
    /\ Go(r, IF ~Present(body.id) THEN Respond(body, "404")
             ELSE IF ~MayMutate(c, body.id) \/ ~PublishAllowed(c, body) THEN Respond(body, "403")
             ELSE [at |-> "save", caller |-> c, body |-> body, overtaken |-> FALSE])
    /\ UNCHANGED <<posts, admins, tokens, requests, approved>>

(* What r writes overtakes the others that have read the same post.        *)
Written(r, answer) ==
    [q \in Requests |->
        IF q = r THEN answer
        ELSE IF req[q].at \in {"save", "remove"} /\ req[q].body.id = req[r].body.id
        THEN [at |-> req[q].at, caller |-> req[q].caller, body |-> req[q].body,
              overtaken |-> TRUE]
        ELSE req[q]]

Merged(row, body) ==
    [status  |-> IF body.status.name = Omitted THEN row.status ELSE body.status.name,
     author  |-> IF body.author = Omitted THEN row.author ELSE body.author,
     deleted |-> row.deleted]

Save(r) ==
    LET body == req[r].body IN
    /\ req[r].at = "save"
    /\ posts' = [posts EXCEPT ![body.id] = Merged(@, body)]
    /\ approved' = IF WantsToPublish(body) /\ req[r].caller.admin
                   THEN approved \cup {body.id} ELSE approved
    /\ req' = Written(r, Respond(body, "200"))
    /\ UNCHANGED <<admins, tokens, requests>>

-----------------------------------------------------------------------------
(* DELETE: the same check, then the soft delete.                           *)
RemovableByAll(c, p) == TRUE        \* mutant: nobody is asked
Removable(c, p) == MayMutate(c, p)

Delete(r, c, p) ==
    LET body == [id |-> p] IN
    /\ Count /\ Free(r)
    /\ Go(r, IF ~Present(p) THEN Respond(body, "404")
             ELSE IF ~Removable(c, p) THEN Respond(body, "403")
             ELSE [at |-> "remove", caller |-> c, body |-> body, overtaken |-> FALSE])
    /\ UNCHANGED <<posts, admins, tokens, approved>>

Remove(r) ==
    LET p == req[r].body.id IN
    /\ req[r].at = "remove"
    /\ posts' = [posts EXCEPT ![p].deleted = TRUE]
    /\ req' = Written(r, Respond(req[r].body, "204"))
    /\ UNCHANGED <<admins, tokens, requests, approved>>

-----------------------------------------------------------------------------
(* Reading. Nobody has no token.                                           *)
Nobody == [id |-> Nothing, admin |-> FALSE]
Readers == tokens \cup {Nobody}

(* findOne: the post, not found, or an exception where it has no status.   *)
Found(c, p) ==
    /\ Present(p) /\ posts[p].status # Nothing
    /\ AlreadyPublished(p) \/ c.admin \/ (c # Nobody /\ Owns(c, p))

(* findManyWithPagination: an administrator asks for a status or for all.  *)
ListedUnowned(c, filter) ==     \* mutant: the second alternative without the author
    {p \in Posts : Present(p) /\ (c.admin => filter \in {"all", posts[p].status})
                              /\ (c = Nobody => AlreadyPublished(p))}
Listed(c, filter) ==
    {p \in Posts : Present(p) /\
        IF c.admin THEN filter \in {"all", posts[p].status}
        ELSE AlreadyPublished(p) \/ (c # Nobody /\ Owns(c, p))}

-----------------------------------------------------------------------------
Next ==
    \/ \E u \in Users : SignIn(u) \/ SetRole(u)
    \/ \E t \in tokens : Expire(t)
    \/ \E r \in Requests :
            \/ Read(r) \/ Save(r) \/ Remove(r)
            \/ \E p \in Posts : Insert(r, p)
            \/ \E c \in tokens :
                    \/ \E body \in Creations : Create(r, c, body)
                    \/ \E body \in Changes : Update(r, c, body)
                    \/ \E p \in Posts : Delete(r, c, p)

Spec == Init /\ [][Next]_vars

-----------------------------------------------------------------------------
(* Properties.                                                             *)

(* A post is public only if an administrator made it public once, or its   *)
(* creator spelled the id of the status as a string: an author alone never *)
(* publishes by any sequence of updates.                                   *)
PublicOnlyOnceApproved == {p \in Posts : AlreadyPublished(p)} \subseteq approved

(* Who is neither owner nor administrator when a post is written, and who  *)
(* brings back a post that was withdrawn, was overtaken by another request *)
(* between its read and its write.                                         *)
OutOfTurnOnlyIfOvertaken ==
    [][\A r \in Requests :
        req[r].at \in {"save", "remove"} /\ req'[r].at = "answered" /\ ~req[r].caller.admin =>
            LET p == req[r].body.id IN
            \/ req[r].overtaken
            \/ /\ Owns(req[r].caller, p) /\ Present(p)
               /\ posts'[p].status = "Published" => AlreadyPublished(p)]_vars

(* Every post of a list can be read one by one by who sees the list, if it *)
(* has a status: lists and reads decide by different code.                 *)
ListedIsFound ==
    \A c \in Readers, filter \in Statuses \cup {"all"} :
        \A p \in Listed(c, filter) : posts[p].status # Nothing => Found(c, p)
=============================================================================
