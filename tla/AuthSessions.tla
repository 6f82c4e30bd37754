---------------------------- MODULE AuthSessions ----------------------------
(***************************************************************************)
(* Users, login sessions and e-mailed confirmation links: the handlers of  *)
(* src/modules/auth/auth.service.ts over the rows that UsersService,       *)
(* SessionService and ConfirmService keep.                                 *)
(*                                                                         *)
(* Every awaited repository call is its own database transaction and no    *)
(* handler locks anything, so a handler is a sequence of atomic steps that *)
(* interleave with the steps of every other request.  What a handler has   *)
(* read before an await is kept in its request record and may be stale     *)
(* when it is used.  A handler that refuses a request without having       *)
(* changed a row is a stuttering step and has no action.                   *)
(*                                                                         *)
(* A password is the number of the write that stored it, so two passwords  *)
(* are equal only when they are the same write; 0 is the null column of a  *)
(* user who has not chosen one.  A refresh token is the pair it signs.     *)
(***************************************************************************)
EXTENDS Naturals

CONSTANTS
    Users,          \* accounts: rows of users, present or to be registered
    Seeded,         \* those confirmed and active when the model starts
    Requests,       \* handlers that may run at the same time
    NoUser,         \* the null of an eager relation to a soft-deleted user
    MaxSessions,    \* bound: session rows ever inserted
    MaxConfirms,    \* bound: confirm rows ever inserted
    MaxHashes,      \* bound: session hashes ever generated
    MaxPasswords,   \* bound: passwords ever stored
    MaxFailures     \* bound: failed awaits, crashes and lost responses

ASSUME ConstantsAssumption ==
    /\ Seeded \subseteq Users
    /\ NoUser \notin Users
    /\ MaxSessions \in Nat /\ MaxConfirms \in Nat /\ MaxHashes \in Nat
    /\ MaxPasswords \in Nat \ {0} /\ MaxFailures \in Nat

VARIABLES
    users,          \* table users: row state, status and password per e-mail
    sessions,       \* table session: row state, owner and hash per id
    confirms,       \* table confirm: row state, owner and expiry per id
    requests,       \* what each running handler has read and where it stands
    tokens,         \* refresh tokens that reached a client
    links,          \* confirm ids whose e-mail was sent
    lastHash,       \* hashes 1..lastHash have been generated
    lastPassword,   \* passwords 1..lastPassword have been stored
    failures        \* awaits that failed so far

(* History: never read by a handler.                                       *)
VARIABLES
    presented,      \* tokens that some refresh has presented
    reused,         \* sessions with a token that was presented twice
    lost,           \* tokens stored in a row but never delivered
    applied,        \* confirm ids whose password has been stored
    cut,            \* newest password whose change ran to its revocation
    spared,         \* sessions such a revocation excluded
    raced           \* sessions whose login read a password since replaced

rows    == <<users, sessions, confirms>>
clients == <<tokens, links>>
bounds  == <<lastHash, lastPassword, failures>>
history == <<presented, reused, lost, applied, cut, spared, raced>>
vars    == <<rows, requests, clients, bounds, history>>

SessionIds == 1..MaxSessions
ConfirmIds == 1..MaxConfirms
Hashes     == 1..MaxHashes
Passwords  == 0..MaxPasswords
Statuses   == {"Active", "Pending", "Blocked"}
RowStates  == {"absent", "live", "deleted"}
Tokens     == [sid: SessionIds, hash: Hashes]

(* The step a handler is about to take; the part before the dot names it.  *)
Steps == {"idle",
          "login.create", "login.respond",
          "refresh.revoke", "refresh.rotate", "refresh.respond",
          "change.update", "change.revoke",
          "register.link",
          "forgot.create", "link.mail",
          "confirm.expire", "confirm.revoke", "confirm.update", "confirm.delete"}

UserRow    == [row: RowStates, status: Statuses, password: Passwords]
SessionRow == [row: RowStates, user: Users \cup {NoUser}, hash: 0..MaxHashes,
               password: Passwords]   \* the password is history: no such column
ConfirmRow == [row: RowStates, user: Users \cup {NoUser}, expired: BOOLEAN]

(* A running handler, with what each of its steps relies on.               *)
StepsWithSession == {"login.respond", "refresh.revoke", "refresh.rotate",
                     "refresh.respond", "change.update", "change.revoke"}
StepsWithLink == {"link.mail", "confirm.expire", "confirm.revoke",
                  "confirm.update", "confirm.delete"}
StepsWithUser == Steps \ {"idle", "refresh.revoke", "refresh.rotate", "confirm.expire"}

Request ==
    {q \in [at: Steps, user: Users \cup {NoUser}, sid: 0..MaxSessions,
            hash: 0..MaxHashes, cid: 0..MaxConfirms, password: Passwords] :
        /\ q.at \in StepsWithUser => q.user \in Users
        /\ q.at \in StepsWithSession => q.sid \in SessionIds
        /\ q.at \in {"login.respond", "refresh.respond"} => q.hash \in Hashes
        /\ q.at \in StepsWithLink => q.cid \in ConfirmIds}

(* A handler about to take a step, and what it will use in it.             *)
Holding(step, u, s, h, c, p) ==
    [at |-> step, user |-> u, sid |-> s, hash |-> h, cid |-> c, password |-> p]

Idle == Holding("idle", NoUser, 0, 0, 0, 0)

TypeOK ==
    /\ users \in [Users -> UserRow]
    /\ sessions \in [SessionIds -> SessionRow]
    /\ confirms \in [ConfirmIds -> ConfirmRow]
    /\ requests \in [Requests -> Request]
    /\ tokens \subseteq Tokens /\ links \subseteq ConfirmIds
    /\ lastHash \in 0..MaxHashes /\ lastPassword \in Passwords
    /\ failures \in 0..MaxFailures
    /\ presented \subseteq Tokens /\ lost \subseteq Tokens
    /\ reused \subseteq SessionIds /\ applied \subseteq ConfirmIds
    /\ cut \in [Users -> Passwords]
    /\ spared \subseteq SessionIds /\ raced \subseteq SessionIds

Init ==
    /\ users = [u \in Users |-> IF u \in Seeded
                    THEN [row |-> "live", status |-> "Active", password |-> 1]
                    ELSE [row |-> "absent", status |-> "Pending", password |-> 0]]
    /\ sessions = [s \in SessionIds |->
                    [row |-> "absent", user |-> NoUser, hash |-> 0, password |-> 0]]
    /\ confirms = [c \in ConfirmIds |->
                    [row |-> "absent", user |-> NoUser, expired |-> FALSE]]
    /\ requests = [r \in Requests |-> Idle]
    /\ tokens = {} /\ links = {}
    /\ lastHash = 0 /\ lastPassword = 1 /\ failures = 0
    /\ presented = {} /\ reused = {} /\ lost = {} /\ applied = {}
    /\ cut = [u \in Users |-> 0] /\ spared = {} /\ raced = {}

-----------------------------------------------------------------------------
(* Rows.                                                                   *)

LiveUser(u) == u \in Users /\ users[u].row = "live"

(* What find() puts in an eager user: a soft-deleted user is joined as null. *)
EagerUser(u) == IF LiveUser(u) THEN u ELSE NoUser

TokenOf(r) == [sid |-> requests[r].sid, hash |-> requests[r].hash]

(* Handler r moves on, remembering what it holds in q; or it ends.         *)
Goto(r, q) == requests' = [requests EXCEPT ![r] = q]
End(r)     == Goto(r, Idle)
At(r, step) == requests[r].at = step

(* SessionService.softDelete: a soft-deleted row stays in the table.       *)
SoftDeleteSessions(S) ==
    sessions' = [s \in SessionIds |->
        IF s \in S /\ sessions[s].row = "live"
        THEN [sessions[s] EXCEPT !.row = "deleted"] ELSE sessions[s]]

SessionsOf(u) == {s \in SessionIds : sessions[s].user = u}

(* A new password column: the plain text is hashed before the row is saved. *)
StorePassword(u, status) ==
    /\ lastPassword < MaxPasswords
    /\ lastPassword' = lastPassword + 1
    /\ users' = [users EXCEPT ![u] =
            [row |-> users[u].row, status |-> status, password |-> lastPassword + 1]]

(* SessionService.update: UPDATE session SET hash WHERE id, which matches a *)
(* row soft-deleted since and leaves its other columns alone.              *)
StoreHashOfUser(s, h) ==    \* mutant: every session of the user is updated
    sessions' = [x \in SessionIds |-> IF sessions[x].user = sessions[s].user
                    THEN [sessions[x] EXCEPT !.hash = h] ELSE sessions[x]]
StoreHashOfRow(s, h) ==     \* mutant: the row as read is saved, not deleted
    sessions' = [sessions EXCEPT ![s].hash = h, ![s].row = "live"]
StoreHash(s, h) ==
    sessions' = [sessions EXCEPT ![s].hash = h]

NextConfirm(c) ==
    /\ c \in ConfirmIds /\ confirms[c].row = "absent"
    /\ \A d \in ConfirmIds : d < c => confirms[d].row # "absent"

NextSession(s) ==
    /\ s \in SessionIds /\ sessions[s].row = "absent"
    /\ \A t \in SessionIds : t < s => sessions[t].row # "absent"

-----------------------------------------------------------------------------
(* POST /auth/login: find the user and compare, insert the session, sign.  *)

LoginFind(r, u) ==
    /\ At(r, "idle")
    /\ LiveUser(u)
    /\ users[u].status # "Pending"
    /\ users[u].password # 0
    /\ Goto(r, Holding("login.create", u, 0, 0, 0, users[u].password))
    /\ UNCHANGED <<rows, clients, bounds, history>>

LoginCreate(r) ==
    /\ At(r, "login.create")
    /\ lastHash < MaxHashes
    /\ lastHash' = lastHash + 1
    /\ \E s \in SessionIds :
        /\ NextSession(s)
        /\ sessions' = [sessions EXCEPT ![s] =
                [row |-> "live", user |-> requests[r].user, hash |-> lastHash + 1,
                 password |-> requests[r].password]]
        /\ raced' = IF users[requests[r].user].password = requests[r].password
                    THEN raced ELSE raced \cup {s}
        /\ Goto(r, Holding("login.respond", requests[r].user, s, lastHash + 1, 0, 0))
    /\ UNCHANGED <<users, confirms, clients, lastPassword, failures,
                   presented, reused, lost, applied, cut, spared>>

(* The signed pair reaches the client that waits for it.                   *)
Respond(r) ==
    /\ At(r, "login.respond") \/ At(r, "refresh.respond")
    /\ tokens' = tokens \cup {TokenOf(r)}
    /\ End(r)
    /\ UNCHANGED <<rows, links, bounds, history>>

-----------------------------------------------------------------------------
(* POST /auth/refresh: find the session, then revoke it or rotate its hash. *)

RefreshFind(r, t) ==
    /\ At(r, "idle")
    /\ t \in tokens
    /\ sessions[t.sid].row = "live"
    /\ Goto(r, Holding(IF sessions[t.sid].hash # t.hash
                       THEN "refresh.revoke" ELSE "refresh.rotate",
                       EagerUser(sessions[t.sid].user), t.sid, t.hash, 0, 0))
    /\ presented' = presented \cup {t}
    /\ reused' = IF t \in presented THEN reused \cup {t.sid} ELSE reused
    /\ UNCHANGED <<rows, clients, bounds, lost, applied, cut, spared, raced>>

RefreshRevokeByHash(r) ==   \* mutant: only the row with the presented hash
    LET q == requests[r] IN
    /\ At(r, "refresh.revoke")
    /\ SoftDeleteSessions({s \in {q.sid} : sessions[s].hash = q.hash})
    /\ End(r)
    /\ UNCHANGED <<users, confirms, clients, bounds, history>>
RefreshRevoke(r) ==
    /\ At(r, "refresh.revoke")
    /\ SoftDeleteSessions({requests[r].sid})
    /\ End(r)
    /\ UNCHANGED <<users, confirms, clients, bounds, history>>

(* getTokensData signs the hash it was given.                              *)
SignOld(q, h) ==            \* mutant: the hash as it was before the update
    Holding("refresh.respond", q.user, q.sid, q.hash, 0, 0)
Sign(q, h) == Holding("refresh.respond", q.user, q.sid, h, 0, 0)

(* The hash is stored first; then signing dereferences session.user, which *)
(* throws when it is null.                                                 *)
RefreshRotate(r) ==
    LET q == requests[r]
        h == lastHash + 1 IN
    /\ At(r, "refresh.rotate")
    /\ lastHash < MaxHashes
    /\ lastHash' = h
    /\ StoreHash(q.sid, h)
    /\ IF q.user = NoUser
       THEN /\ End(r)
            /\ lost' = lost \cup {[sid |-> q.sid, hash |-> h]}
       ELSE /\ Goto(r, Sign(q, h))
            /\ UNCHANGED lost
    /\ UNCHANGED <<users, confirms, clients, lastPassword, failures,
                   presented, reused, applied, cut, spared, raced>>

-----------------------------------------------------------------------------
(* POST /auth/logout: the access token is not checked against the table.   *)

Logout(t) ==
    /\ t \in tokens
    /\ SoftDeleteSessions({t.sid})
    /\ UNCHANGED <<users, confirms, requests, clients, bounds, history>>

(* PATCH /auth/change-password, by the holder of any access token of the   *)
(* session, which may already be soft-deleted; the mail's outcome is       *)
(* ignored by the handler.                                                 *)
ChangeFind(r, t) ==
    /\ At(r, "idle")
    /\ t \in tokens
    /\ LiveUser(sessions[t.sid].user)
    /\ users[sessions[t.sid].user].password # 0
    /\ Goto(r, Holding("change.update", sessions[t.sid].user, t.sid, 0, 0, 0))
    /\ UNCHANGED <<rows, clients, bounds, history>>

ChangeUpdate(r) ==
    LET q == requests[r] IN
    /\ At(r, "change.update")
    /\ StorePassword(q.user, users[q.user].status)
    /\ Goto(r, Holding("change.revoke", q.user, q.sid, 0, 0, lastPassword + 1))
    /\ UNCHANGED <<sessions, confirms, clients, lastHash, failures, history>>

CallersOwn(q) == {q.sid}    \* mutant: id without Not(...)
OthersOf(q) == SessionsOf(q.user) \ {q.sid}

ChangeRevoke(r) ==
    LET q == requests[r] IN
    /\ At(r, "change.revoke")
    /\ SoftDeleteSessions(OthersOf(q))
    /\ cut' = [cut EXCEPT ![q.user] = IF q.password > @ THEN q.password ELSE @]
    /\ spared' = spared \cup {q.sid}
    /\ End(r)
    /\ UNCHANGED <<users, confirms, clients, bounds,
                   presented, reused, lost, applied, raced>>

-----------------------------------------------------------------------------
(* POST /auth/register (an administrator) and /auth/forgot-password: both  *)
(* store a confirm row and then mail its hash.  The e-mail is unique over  *)
(* every row, soft-deleted ones included.                                  *)

RegisterCreate(r, u) ==
    /\ At(r, "idle")
    /\ users[u].row = "absent"
    /\ users' = [users EXCEPT ![u] =
            [row |-> "live", status |-> "Pending", password |-> 0]]
    /\ Goto(r, Holding("register.link", u, 0, 0, 0, 0))
    /\ UNCHANGED <<sessions, confirms, clients, bounds, history>>

ForgotFind(r, u) ==
    /\ At(r, "idle")
    /\ LiveUser(u)
    /\ Goto(r, Holding("forgot.create", u, 0, 0, 0, 0))
    /\ UNCHANGED <<rows, clients, bounds, history>>

LinkCreateUnawaited(r) ==   \* mutant: no await, so the insert may not be done
    /\ At(r, "register.link") \/ At(r, "forgot.create")
    /\ \E c \in ConfirmIds :
        /\ NextConfirm(c)
        /\ Goto(r, Holding("link.mail", requests[r].user, 0, 0, c, 0))
    /\ UNCHANGED <<rows, clients, bounds, history>>
LinkCreate(r) ==
    /\ At(r, "register.link") \/ At(r, "forgot.create")
    /\ \E c \in ConfirmIds :
        /\ NextConfirm(c)
        /\ confirms' = [confirms EXCEPT ![c] =
                [row |-> "live", user |-> requests[r].user, expired |-> FALSE]]
        /\ Goto(r, Holding("link.mail", requests[r].user, 0, 0, c, 0))
    /\ UNCHANGED <<users, sessions, clients, bounds, history>>

LinkMail(r) ==
    /\ At(r, "link.mail")
    /\ links' = links \cup {requests[r].cid}
    /\ End(r)
    /\ UNCHANGED <<rows, tokens, bounds, history>>

-----------------------------------------------------------------------------
(* POST /auth/confirm: end the user's sessions, store the password, then   *)
(* consume the link.  An expired link is deleted and refused; a link whose *)
(* user is soft-deleted throws before any row is changed.                  *)

ConfirmFind(r, c) ==
    LET u == EagerUser(confirms[c].user) IN
    /\ At(r, "idle")
    /\ c \in links
    /\ confirms[c].row = "live"
    /\ confirms[c].expired \/ u # NoUser
    /\ Goto(r, Holding(IF confirms[c].expired THEN "confirm.expire" ELSE "confirm.revoke",
                       u, 0, 0, c, 0))
    /\ UNCHANGED <<rows, clients, bounds, history>>

DeleteConfirm(r) ==
    confirms' = [confirms EXCEPT ![requests[r].cid].row = "deleted"]

ConfirmExpire(r) ==
    /\ At(r, "confirm.expire")
    /\ DeleteConfirm(r)
    /\ End(r)
    /\ UNCHANGED <<users, sessions, clients, bounds, history>>

ConfirmRevokeConsuming(r) ==    \* mutant: the link is consumed first
    /\ At(r, "confirm.revoke")
    /\ SoftDeleteSessions(SessionsOf(requests[r].user))
    /\ DeleteConfirm(r)
    /\ Goto(r, Holding("confirm.update", requests[r].user, 0, 0, requests[r].cid, 0))
    /\ UNCHANGED <<users, clients, bounds, history>>
ConfirmRevoke(r) ==
    /\ At(r, "confirm.revoke")
    /\ SoftDeleteSessions(SessionsOf(requests[r].user))
    /\ Goto(r, Holding("confirm.update", requests[r].user, 0, 0, requests[r].cid, 0))
    /\ UNCHANGED <<users, confirms, clients, bounds, history>>

ConfirmUpdate(r) ==
    /\ At(r, "confirm.update")
    /\ StorePassword(requests[r].user, "Active")
    /\ applied' = applied \cup {requests[r].cid}
    /\ Goto(r, Holding("confirm.delete", requests[r].user, 0, 0, requests[r].cid, 0))
    /\ UNCHANGED <<sessions, confirms, clients, lastHash, failures,
                   presented, reused, lost, cut, spared, raced>>

ConfirmDelete(r) ==
    /\ At(r, "confirm.delete")
    /\ DeleteConfirm(r)
    /\ End(r)
    /\ UNCHANGED <<users, sessions, clients, bounds, history>>

-----------------------------------------------------------------------------
(* The world around the handlers.                                          *)

(* PATCH /users by an administrator, whose guard needs a live row.         *)
AdminSetStatus(u, status) ==
    /\ LiveUser(u)
    /\ users' = [users EXCEPT ![u].status = status]
    /\ UNCHANGED <<sessions, confirms, requests, clients, bounds, history>>

(* DELETE /users/:id.                                                      *)
AdminDeleteUser(u) ==
    /\ LiveUser(u)
    /\ users' = [users EXCEPT ![u].row = "deleted"]
    /\ UNCHANGED <<sessions, confirms, requests, clients, bounds, history>>

(* A day passes.                                                           *)
ConfirmExpires(c) ==
    /\ confirms[c].row = "live"
    /\ confirms' = [confirms EXCEPT ![c].expired = TRUE]
    /\ UNCHANGED <<users, sessions, requests, clients, bounds, history>>

(* An await rejects, the process dies or the client has gone: the handler  *)
(* ends where it stands and nothing undoes the steps it has taken.  Also   *)
(* the mail failure that answers 503.                                      *)
Fail(r) ==
    /\ ~At(r, "idle")
    /\ failures < MaxFailures
    /\ failures' = failures + 1
    /\ lost' = IF At(r, "login.respond") \/ At(r, "refresh.respond")
               THEN lost \cup {TokenOf(r)} ELSE lost
    /\ End(r)
    /\ UNCHANGED <<rows, clients, lastHash, lastPassword,
                   presented, reused, applied, cut, spared, raced>>

(* The steps a running handler takes without anyone's help.                *)
HandlerStep(r) ==
    \/ LoginCreate(r) \/ Respond(r)
    \/ RefreshRevoke(r) \/ RefreshRotate(r)
    \/ ChangeUpdate(r) \/ ChangeRevoke(r)
    \/ LinkCreate(r) \/ LinkMail(r)
    \/ ConfirmExpire(r) \/ ConfirmRevoke(r) \/ ConfirmUpdate(r) \/ ConfirmDelete(r)

RequestArrives(r) ==
    \/ \E u \in Users : LoginFind(r, u) \/ RegisterCreate(r, u) \/ ForgotFind(r, u)
    \/ \E t \in tokens : RefreshFind(r, t) \/ ChangeFind(r, t)
    \/ \E c \in links : ConfirmFind(r, c)

Environment ==
    \/ \E t \in tokens : Logout(t)
    \/ \E u \in Users : AdminDeleteUser(u) \/ \E st \in Statuses : AdminSetStatus(u, st)
    \/ \E c \in ConfirmIds : ConfirmExpires(c)

Next ==
    \/ \E r \in Requests : RequestArrives(r) \/ HandlerStep(r) \/ Fail(r)
    \/ Environment

Spec == Init /\ [][Next]_vars

(* Node's event loop runs every continuation whose await has settled.      *)
FairSpec == Spec /\ \A r \in Requests : WF_vars(HandlerStep(r))

-----------------------------------------------------------------------------
(* Properties.                                                             *)

(* refreshTokens ends a session only as an answer to reuse: when it is     *)
(* about to, some token of that session was presented to it twice.  A      *)
(* client that presents each token once is never logged out by the check   *)
(* on line 264, whatever else runs meanwhile.                              *)
RevokedOnlyIfReused ==
    \A r \in Requests : At(r, "refresh.revoke") => requests[r].sid \in reused

(* The hash in a live session row is one a client can present: its token   *)
(* was delivered, is about to be, or a failure lost it on the way.  No     *)
(* interleaving of refreshes leaves a session that nobody can continue.    *)
LiveSessionHasHolder ==
    \A s \in SessionIds : sessions[s].row = "live" =>
        LET t == [sid |-> s, hash |-> sessions[s].hash] IN
        \/ t \in tokens \cup lost
        \/ \E r \in Requests : /\ At(r, "login.respond") \/ At(r, "refresh.respond")
                               /\ TokenOf(r) = t

(* Once changePassword has run to its end, a live session opened with an   *)
(* older password is the caller's own, or was inserted by a login that had *)
(* compared the old password before it was replaced.                       *)
OldPasswordCutOff ==
    \A s \in SessionIds :
        /\ sessions[s].row = "live"
        /\ sessions[s].password < cut[sessions[s].user]
        => s \in spared \cup raced

(* A confirm row leaves the table only when it has expired or when the     *)
(* password it carries is stored: a failure between the steps of confirm   *)
(* leaves the user a link that still works.                                *)
ConsumedLinkSetPassword ==
    \A c \in ConfirmIds : confirms[c].row = "deleted" =>
        confirms[c].expired \/ c \in applied

(* A hash that was mailed names a row: register and forgotPassword store   *)
(* the link before they send it, whichever of the two calls fails.         *)
MailedLinkResolves ==
    \A c \in links : confirms[c].row # "absent"

(* The session table under all handlers behaves as SessionLifecycle says:  *)
(* no refresh, login or logout brings a closed session back, and no two    *)
(* rows ever share a hash, so a refresh token names one state of one row.  *)
Lifecycle == INSTANCE SessionLifecycle WITH
    Ids <- SessionIds,
    row <- [s \in SessionIds |-> sessions[s].row],
    hash <- [s \in SessionIds |-> sessions[s].hash],
    used <- 1..lastHash
SessionsFollowLifecycle == Lifecycle!Spec

(* A refresh that found a superseded token does end the session.           *)
ReuseEndsSession ==
    \A s \in SessionIds :
        (\E r \in Requests : At(r, "refresh.revoke") /\ requests[r].sid = s)
            ~> sessions[s].row = "deleted"
=============================================================================
