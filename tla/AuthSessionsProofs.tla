------------------------- MODULE AuthSessionsProofs -------------------------
(* Theorems about AuthSessions, for every value of its constants.          *)
EXTENDS AuthSessions, TLAPS

USE ConstantsAssumption
USE DEF At, rows, clients, bounds, history, vars

-----------------------------------------------------------------------------
(* Types.                                                                  *)

(* A handler that goes on with a well-formed record leaves all handlers so. *)
LEMMA GotoType ==
    ASSUME TypeOK, NEW r \in Requests, NEW q \in Request, Goto(r, q)
    PROVE  requests' \in [Requests -> Request]
  BY DEF TypeOK, Goto

LEMMA IdleType == Idle \in Request
  BY DEF Idle, Holding, Request, Steps, StepsWithUser, StepsWithSession, StepsWithLink,
         Passwords

LEMMA EndType ==
    ASSUME TypeOK, NEW r \in Requests, End(r)
    PROVE  requests' \in [Requests -> Request]
  BY IdleType, GotoType DEF End

LEMMA SoftDeleteType ==
    ASSUME TypeOK, NEW S, SoftDeleteSessions(S)
    PROVE  sessions' \in [SessionIds -> SessionRow]
<1>1. ASSUME NEW s \in SessionIds
      PROVE [sessions[s] EXCEPT !.row = "deleted"] \in SessionRow
  BY DEF TypeOK, SessionRow, RowStates
<1>2. QED
  BY <1>1 DEF SoftDeleteSessions, TypeOK

LEMMA StorePasswordType ==
    ASSUME TypeOK, NEW u \in Users, NEW st \in Statuses, StorePassword(u, st)
    PROVE  /\ users' \in [Users -> UserRow]
           /\ lastPassword' \in Passwords
           /\ lastPassword + 1 \in Passwords
<1>1. lastPassword + 1 \in Passwords
  BY DEF TypeOK, StorePassword, Passwords
<1>2. [row |-> users[u].row, status |-> st, password |-> lastPassword + 1] \in UserRow
  BY <1>1 DEF TypeOK, UserRow
<1>3. QED
  BY <1>1, <1>2 DEF StorePassword, TypeOK

LEMMA DeleteConfirmType ==
    ASSUME TypeOK, NEW r \in Requests, DeleteConfirm(r)
    PROVE  confirms' \in [ConfirmIds -> ConfirmRow]
<1>1. ASSUME NEW c \in ConfirmIds
      PROVE [confirms[c] EXCEPT !.row = "deleted"] \in ConfirmRow
  BY DEF TypeOK, ConfirmRow, RowStates
<1>2. QED
  BY <1>1 DEF DeleteConfirm, TypeOK

(* Every variable keeps its type under every handler step, so the record a *)
(* handler carries across an await always names rows that exist.           *)
THEOREM TypeCorrect == Spec => []TypeOK
<1>1. Init => TypeOK
  <2> SUFFICES ASSUME Init PROVE TypeOK
    OBVIOUS
  <2>1. users \in [Users -> UserRow]
    BY DEF Init, UserRow, RowStates, Statuses, Passwords
  <2>2. sessions \in [SessionIds -> SessionRow] /\ confirms \in [ConfirmIds -> ConfirmRow]
    BY DEF Init, SessionRow, ConfirmRow, RowStates, Passwords
  <2>3. requests \in [Requests -> Request]
    BY IdleType DEF Init
  <2>4. cut \in [Users -> Passwords] /\ lastPassword \in Passwords
    BY DEF Init, Passwords
  <2>5. lastHash \in 0..MaxHashes /\ failures \in 0..MaxFailures
    BY DEF Init
  <2>6. QED
    BY <2>1, <2>2, <2>3, <2>4, <2>5 DEF Init, TypeOK
<1>2. TypeOK /\ [Next]_vars => TypeOK'
  <2> SUFFICES ASSUME TypeOK, [Next]_vars PROVE TypeOK'
    OBVIOUS
  <2> USE DEF SessionIds, ConfirmIds, Hashes, Passwords
  <2>1. ASSUME NEW r \in Requests, NEW u \in Users, LoginFind(r, u) PROVE TypeOK'
    <3>1. users[u].password \in Passwords
      BY DEF TypeOK, UserRow
    <3>2. requests' \in [Requests -> Request]
      <4>1. Holding("login.create", u, 0, 0, 0, users[u].password) \in Request
        BY <2>1, <3>1 DEF LoginFind, Holding, Request, Steps, StepsWithUser,
                  StepsWithSession, StepsWithLink
      <4>2. QED
        BY <2>1, <3>1, <4>1, GotoType DEF LoginFind
    <3>3. QED
      BY <2>1, <3>2 DEF LoginFind, TypeOK
  <2>2. ASSUME NEW r \in Requests, LoginCreate(r) PROVE TypeOK'
    <3> DEFINE w == [row |-> "live", user |-> requests[r].user, hash |-> lastHash + 1,
                     password |-> requests[r].password]
    <3>1. PICK s \in SessionIds :
            /\ sessions' = [sessions EXCEPT ![s] = w]
            /\ raced' = IF users[requests[r].user].password = requests[r].password
                        THEN raced ELSE raced \cup {s}
            /\ Goto(r, Holding("login.respond", requests[r].user, s, lastHash + 1, 0, 0))
      BY <2>2 DEF LoginCreate
    <3>2. lastHash + 1 \in Hashes /\ lastHash' = lastHash + 1
      BY <2>2 DEF LoginCreate, TypeOK
    <3>3. requests[r].user \in Users /\ requests[r].password \in Passwords
      BY <2>2 DEF LoginCreate, TypeOK, Request, Steps,
             StepsWithUser, StepsWithSession, StepsWithLink
    <3>4. requests' \in [Requests -> Request]
      <4>1. Holding("login.respond", requests[r].user, s, lastHash + 1, 0, 0) \in Request
        BY <3>1, <3>2, <3>3 DEF Holding, Request, Steps, StepsWithUser,
                  StepsWithSession, StepsWithLink
      <4>2. QED
        BY <3>1, <3>2, <3>3, <4>1, GotoType
    <3>5. w \in SessionRow
      BY <3>2, <3>3 DEF SessionRow, RowStates
    <3>6. sessions' \in [SessionIds -> SessionRow] /\ raced' \subseteq SessionIds
      BY <3>1, <3>5 DEF TypeOK
    <3>7. QED
      BY <2>2, <3>2, <3>4, <3>6 DEF LoginCreate, TypeOK
  <2>3. ASSUME NEW r \in Requests, Respond(r) PROVE TypeOK'
    <3>1. TokenOf(r) \in Tokens
      BY <2>3 DEF Respond, TypeOK, Request, Steps,
             StepsWithUser, StepsWithSession, StepsWithLink, TokenOf, Tokens
    <3>2. QED
      BY <2>3, <3>1, EndType DEF Respond, TypeOK
  <2>4. ASSUME NEW r \in Requests, NEW t \in tokens, RefreshFind(r, t) PROVE TypeOK'
    <3>1. t.sid \in SessionIds /\ t.hash \in Hashes /\ t \in Tokens
      BY DEF TypeOK, Tokens
    <3>2. EagerUser(sessions[t.sid].user) \in Users \cup {NoUser}
      BY DEF EagerUser, LiveUser
    <3>3. requests' \in [Requests -> Request]
      <4>1. ASSUME NEW step \in {"refresh.revoke", "refresh.rotate"}
            PROVE  Holding(step, EagerUser(sessions[t.sid].user), t.sid, t.hash, 0, 0) \in Request
        BY <3>1, <3>2 DEF Holding, Request, Steps, StepsWithUser,
                StepsWithSession, StepsWithLink
      <4>2. PICK step \in {"refresh.revoke", "refresh.rotate"} :
              Goto(r, Holding(step, EagerUser(sessions[t.sid].user), t.sid, t.hash, 0, 0))
        BY <2>4 DEF RefreshFind
      <4>3. QED
        BY <4>1, <4>2, GotoType
    <3>4. QED
      BY <2>4, <3>1, <3>3 DEF RefreshFind, TypeOK
  <2>5. ASSUME NEW r \in Requests, RefreshRevoke(r) PROVE TypeOK'
    BY <2>5, EndType, SoftDeleteType DEF RefreshRevoke, TypeOK
  <2>6. ASSUME NEW r \in Requests, RefreshRotate(r) PROVE TypeOK'
    <3> DEFINE q == requests[r]
    <3>1. q.sid \in SessionIds /\ q.user \in Users \cup {NoUser}
      BY <2>6 DEF RefreshRotate, StoreHash, Sign, TypeOK, Request, Steps,
             StepsWithUser, StepsWithSession, StepsWithLink
    <3>2. lastHash + 1 \in Hashes /\ lastHash' = lastHash + 1
      BY <2>6 DEF RefreshRotate, StoreHash, Sign, TypeOK
    <3>3. [sessions[q.sid] EXCEPT !.hash = lastHash + 1] \in SessionRow
      <4>1. sessions[q.sid] \in SessionRow
        BY <3>1 DEF TypeOK
      <4>2. lastHash + 1 \in 0..MaxHashes
        BY <3>2
      <4>3. QED
        BY <4>1, <4>2 DEF SessionRow
    <3>4. sessions' \in [SessionIds -> SessionRow]
      BY <2>6, <3>1, <3>3 DEF RefreshRotate, StoreHash, Sign, TypeOK
    <3>5. CASE q.user = NoUser
      <4>1. [sid |-> q.sid, hash |-> lastHash + 1] \in Tokens
        BY <3>1, <3>2 DEF Tokens
      <4>2. QED
        <5>1. requests' \in [Requests -> Request]
          BY <2>6, <3>5, EndType DEF RefreshRotate, StoreHash, Sign
        <5>2. lost' = lost \cup {[sid |-> q.sid, hash |-> lastHash + 1]}
          BY <2>6, <3>5 DEF RefreshRotate, StoreHash, Sign
        <5>3. lost' \subseteq Tokens
          BY <4>1, <5>2 DEF TypeOK
        <5>4. lastHash' \in 0..MaxHashes
          BY <3>2
        <5>5. QED
          BY <2>6, <3>4, <5>1, <5>3, <5>4 DEF RefreshRotate, StoreHash, Sign, TypeOK
    <3>6. CASE q.user # NoUser
      <4>1. requests' \in [Requests -> Request]
        <5>1. Holding("refresh.respond", q.user, q.sid, lastHash + 1, 0, 0) \in Request
          BY <2>6, <3>1, <3>2, <3>6 DEF RefreshRotate, StoreHash, Sign, Holding, Request, Steps, StepsWithUser,
                  StepsWithSession, StepsWithLink
        <5>2. QED
          BY <2>6, <3>1, <3>2, <3>6, <5>1, GotoType DEF RefreshRotate, StoreHash, Sign
      <4>2. QED
        BY <2>6, <3>2, <3>4, <3>6, <4>1 DEF RefreshRotate, StoreHash, Sign, TypeOK
    <3>7. QED
      BY <3>5, <3>6
  <2>7. ASSUME NEW t \in tokens, Logout(t) PROVE TypeOK'
    BY <2>7, SoftDeleteType DEF Logout, TypeOK
  <2>8. ASSUME NEW r \in Requests, NEW t \in tokens, ChangeFind(r, t) PROVE TypeOK'
    <3>1. t.sid \in SessionIds
      BY DEF TypeOK, Tokens
    <3>2. requests' \in [Requests -> Request]
      <4>1. Holding("change.update", sessions[t.sid].user, t.sid, 0, 0, 0) \in Request
        BY <2>8, <3>1 DEF ChangeFind, Holding, Request, Steps, StepsWithUser,
                  StepsWithSession, StepsWithLink, LiveUser
      <4>2. QED
        BY <2>8, <3>1, <4>1, GotoType DEF ChangeFind
    <3>3. QED
      BY <2>8, <3>2 DEF ChangeFind, TypeOK
  <2>9. ASSUME NEW r \in Requests, ChangeUpdate(r) PROVE TypeOK'
    <3> DEFINE q == requests[r]
    <3>1. q.sid \in SessionIds /\ q.user \in Users
      BY <2>9 DEF ChangeUpdate, TypeOK, Request, Steps,
             StepsWithUser, StepsWithSession, StepsWithLink
    <3>2. users[q.user].status \in Statuses
      BY <3>1 DEF TypeOK, UserRow
    <3>3. users' \in [Users -> UserRow] /\ lastPassword' \in Passwords /\ lastPassword + 1 \in Passwords
      BY <2>9, <3>1, <3>2, StorePasswordType DEF ChangeUpdate
    <3>4. requests' \in [Requests -> Request]
      <4>1. Holding("change.revoke", q.user, q.sid, 0, 0, lastPassword + 1) \in Request
        BY <2>9, <3>1, <3>3 DEF ChangeUpdate, Holding, Request, Steps, StepsWithUser,
                  StepsWithSession, StepsWithLink
      <4>2. QED
        BY <2>9, <3>1, <3>3, <4>1, GotoType DEF ChangeUpdate
    <3>5. QED
      BY <2>9, <3>3, <3>4 DEF ChangeUpdate, TypeOK
  <2>10. ASSUME NEW r \in Requests, ChangeRevoke(r) PROVE TypeOK'
    <3> DEFINE q == requests[r]
    <3>1. q.sid \in SessionIds /\ q.password \in Passwords
      BY <2>10 DEF ChangeRevoke, OthersOf, TypeOK, Request, Steps,
             StepsWithUser, StepsWithSession, StepsWithLink
    <3>2. cut' \in [Users -> Passwords]
      BY <2>10, <3>1 DEF ChangeRevoke, OthersOf, TypeOK
    <3>3. QED
      BY <2>10, <3>1, <3>2, EndType, SoftDeleteType DEF ChangeRevoke, OthersOf, TypeOK
  <2>11. ASSUME NEW r \in Requests, NEW u \in Users, RegisterCreate(r, u) PROVE TypeOK'
    <3>1. [row |-> "live", status |-> "Pending", password |-> 0] \in UserRow
      BY DEF UserRow, RowStates, Statuses
    <3>2. users' \in [Users -> UserRow]
      BY <2>11, <3>1 DEF RegisterCreate, TypeOK
    <3>3. requests' \in [Requests -> Request]
      <4>1. Holding("register.link", u, 0, 0, 0, 0) \in Request
        BY <2>11 DEF RegisterCreate, Holding, Request, Steps, StepsWithUser,
                  StepsWithSession, StepsWithLink
      <4>2. QED
        BY <2>11, <4>1, GotoType DEF RegisterCreate
    <3>4. QED
      BY <2>11, <3>2, <3>3 DEF RegisterCreate, TypeOK
  <2>12. ASSUME NEW r \in Requests, NEW u \in Users, ForgotFind(r, u) PROVE TypeOK'
    <3>1. requests' \in [Requests -> Request]
      <4>1. Holding("forgot.create", u, 0, 0, 0, 0) \in Request
        BY <2>12 DEF ForgotFind, Holding, Request, Steps, StepsWithUser,
                  StepsWithSession, StepsWithLink
      <4>2. QED
        BY <2>12, <4>1, GotoType DEF ForgotFind
    <3>2. QED
      BY <2>12, <3>1 DEF ForgotFind, TypeOK
  <2>13. ASSUME NEW r \in Requests, LinkCreate(r) PROVE TypeOK'
    <3> DEFINE w == [row |-> "live", user |-> requests[r].user, expired |-> FALSE]
    <3>1. PICK c \in ConfirmIds :
            /\ confirms' = [confirms EXCEPT ![c] = w]
            /\ Goto(r, Holding("link.mail", requests[r].user, 0, 0, c, 0))
      BY <2>13 DEF LinkCreate
    <3>2. requests[r].user \in Users
      BY <2>13 DEF LinkCreate, TypeOK, Request, Steps,
             StepsWithUser, StepsWithSession, StepsWithLink
    <3>3. w \in ConfirmRow
      BY <3>2 DEF ConfirmRow, RowStates
    <3>4. confirms' \in [ConfirmIds -> ConfirmRow]
      BY <3>1, <3>3 DEF TypeOK
    <3>5. requests' \in [Requests -> Request]
      <4>1. Holding("link.mail", requests[r].user, 0, 0, c, 0) \in Request
        BY <3>1, <3>2 DEF Holding, Request, Steps, StepsWithUser,
                  StepsWithSession, StepsWithLink
      <4>2. QED
        BY <3>1, <3>2, <4>1, GotoType
    <3>6. QED
      BY <2>13, <3>4, <3>5 DEF LinkCreate, TypeOK
  <2>14. ASSUME NEW r \in Requests, LinkMail(r) PROVE TypeOK'
    <3>1. requests[r].cid \in ConfirmIds
      BY <2>14 DEF LinkMail, TypeOK, Request, Steps,
             StepsWithUser, StepsWithSession, StepsWithLink
    <3>2. QED
      BY <2>14, <3>1, EndType DEF LinkMail, TypeOK
  <2>15. ASSUME NEW r \in Requests, NEW c \in links, ConfirmFind(r, c) PROVE TypeOK'
    <3> DEFINE u == EagerUser(confirms[c].user)
    <3>1. c \in ConfirmIds /\ u \in Users \cup {NoUser}
      BY DEF TypeOK, EagerUser, LiveUser
    <3>2. requests' \in [Requests -> Request]
      <4>1. PICK step \in {"confirm.expire", "confirm.revoke"} :
              /\ Goto(r, Holding(step, u, 0, 0, c, 0))
              /\ step = "confirm.expire" \/ u \in Users
        BY <2>15, <3>1 DEF ConfirmFind
      <4>2. Holding(step, u, 0, 0, c, 0) \in Request
        BY <3>1, <4>1 DEF Holding, Request, Steps, StepsWithUser,
                StepsWithSession, StepsWithLink
      <4>3. QED
        BY <4>1, <4>2, GotoType
    <3>3. QED
      BY <2>15, <3>2 DEF ConfirmFind, TypeOK
  <2>16. ASSUME NEW r \in Requests, ConfirmExpire(r) PROVE TypeOK'
    BY <2>16, DeleteConfirmType, EndType DEF ConfirmExpire, TypeOK
  <2>17. ASSUME NEW r \in Requests, ConfirmRevoke(r) PROVE TypeOK'
    <3>1. requests[r].user \in Users /\ requests[r].cid \in ConfirmIds
      BY <2>17 DEF ConfirmRevoke, TypeOK, Request, Steps,
             StepsWithUser, StepsWithSession, StepsWithLink
    <3>2. requests' \in [Requests -> Request]
      <4>1. Holding("confirm.update", requests[r].user, 0, 0, requests[r].cid, 0) \in Request
        BY <2>17, <3>1 DEF ConfirmRevoke, Holding, Request, Steps, StepsWithUser,
                  StepsWithSession, StepsWithLink
      <4>2. QED
        BY <2>17, <3>1, <4>1, GotoType DEF ConfirmRevoke
    <3>3. QED
      BY <2>17, <3>2, SoftDeleteType DEF ConfirmRevoke, TypeOK
  <2>18. ASSUME NEW r \in Requests, ConfirmUpdate(r) PROVE TypeOK'
    <3>1. requests[r].user \in Users /\ requests[r].cid \in ConfirmIds /\ "Active" \in Statuses
      BY <2>18 DEF ConfirmUpdate, TypeOK, Request, Steps,
             StepsWithUser, StepsWithSession, StepsWithLink, Statuses
    <3>2. users' \in [Users -> UserRow] /\ lastPassword' \in Passwords
      BY <2>18, <3>1, StorePasswordType DEF ConfirmUpdate
    <3>3. requests' \in [Requests -> Request]
      <4>1. Holding("confirm.delete", requests[r].user, 0, 0, requests[r].cid, 0) \in Request
        BY <2>18, <3>1 DEF ConfirmUpdate, Holding, Request, Steps, StepsWithUser,
                  StepsWithSession, StepsWithLink
      <4>2. QED
        BY <2>18, <3>1, <4>1, GotoType DEF ConfirmUpdate
    <3>4. QED
      BY <2>18, <3>1, <3>2, <3>3 DEF ConfirmUpdate, TypeOK
  <2>19. ASSUME NEW r \in Requests, ConfirmDelete(r) PROVE TypeOK'
    BY <2>19, DeleteConfirmType, EndType DEF ConfirmDelete, TypeOK
  <2>20. ASSUME NEW u \in Users, NEW st \in Statuses, AdminSetStatus(u, st) PROVE TypeOK'
    <3>1. [users[u] EXCEPT !.status = st] \in UserRow
      BY DEF TypeOK, UserRow
    <3>2. QED
      BY <2>20, <3>1 DEF AdminSetStatus, TypeOK
  <2>21. ASSUME NEW u \in Users, AdminDeleteUser(u) PROVE TypeOK'
    <3>1. [users[u] EXCEPT !.row = "deleted"] \in UserRow
      BY DEF TypeOK, UserRow, RowStates
    <3>2. QED
      BY <2>21, <3>1 DEF AdminDeleteUser, TypeOK
  <2>22. ASSUME NEW c \in ConfirmIds, ConfirmExpires(c) PROVE TypeOK'
    <3>1. [confirms[c] EXCEPT !.expired = TRUE] \in ConfirmRow
      BY DEF TypeOK, ConfirmRow
    <3>2. QED
      BY <2>22, <3>1 DEF ConfirmExpires, TypeOK
  <2>23. ASSUME NEW r \in Requests, Fail(r) PROVE TypeOK'
    <3>1. lost' \subseteq Tokens
      BY <2>23 DEF Fail, TypeOK, Request, Steps,
             StepsWithUser, StepsWithSession, StepsWithLink, TokenOf, Tokens
    <3>2. failures' \in 0..MaxFailures
      BY <2>23 DEF Fail, TypeOK
    <3>3. QED
      BY <2>23, <3>1, <3>2, EndType DEF Fail, TypeOK
  <2>24. CASE UNCHANGED vars
    BY <2>24 DEF TypeOK
  <2>25. QED
    BY <2>1, <2>2, <2>3, <2>4, <2>5, <2>6, <2>7, <2>8, <2>9, <2>10, <2>11, <2>12,
       <2>13, <2>14, <2>15, <2>16, <2>17, <2>18, <2>19, <2>20, <2>21, <2>22, <2>23,
       <2>24 DEF Next, RequestArrives, HandlerStep, Environment
<1>3. QED
  BY <1>1, <1>2, PTL DEF Spec

-----------------------------------------------------------------------------
(* The safety properties, each from an inductive strengthening of its own. *)

(* What an action writes to the requests, for those who look at one of them. *)
LEMMA GotoEffect ==
    ASSUME TypeOK, NEW r \in Requests, NEW q, Goto(r, q)
    PROVE  /\ requests'[r] = q
           /\ \A x \in Requests \ {r} : requests'[x] = requests[x]
  BY DEF TypeOK, Goto

LEMMA EndEffect ==
    ASSUME TypeOK, NEW r \in Requests, End(r)
    PROVE  /\ requests'[r].at = "idle" /\ requests'[r].user = NoUser
           /\ requests'[r].sid \notin SessionIds
           /\ \A x \in Requests \ {r} : requests'[x] = requests[x]
  BY GotoEffect DEF End, Idle, Holding, SessionIds

-----------------------------------------------------------------------------
(* Confirmation links.                                                     *)

(* A handler that works on a link works on a stored one; it deletes it     *)
(* after it has seen it expired or has stored the password.                *)
LinkInv ==
    /\ \A r \in Requests :
        /\ requests[r].at \in StepsWithLink => confirms[requests[r].cid].row # "absent"
        /\ At(r, "confirm.expire") => confirms[requests[r].cid].expired
        /\ At(r, "confirm.delete") => requests[r].cid \in applied
    /\ MailedLinkResolves
    /\ ConsumedLinkSetPassword

(* Most steps touch neither a link nor a handler of one.                   *)
LEMMA LinkFrame ==
    ASSUME TypeOK, LinkInv, UNCHANGED <<confirms, links, applied>>, NEW r \in Requests,
           \A x \in Requests \ {r} : requests'[x] = requests[x],
           requests'[r] = requests[r] \/ requests'[r].at \notin StepsWithLink
    PROVE  LinkInv'
  BY DEF LinkInv, MailedLinkResolves, ConsumedLinkSetPassword, StepsWithLink

(* An action that deletes the row of the link that handler r holds.        *)
LEMMA LinkDelete ==
    ASSUME TypeOK, LinkInv, NEW r \in Requests, DeleteConfirm(r), End(r),
           UNCHANGED <<links, applied>>,
           requests[r].at \in {"confirm.expire", "confirm.delete"}
    PROVE  LinkInv'
<1> DEFINE c == requests[r].cid
<1>1. c \in applied \/ confirms[c].expired
  BY DEF LinkInv, TypeOK, Request, StepsWithLink
<1>2. c \in ConfirmIds
  BY DEF TypeOK, Request, StepsWithLink
<1>3. \A d \in ConfirmIds : /\ confirms'[d].row = IF d = c THEN "deleted" ELSE confirms[d].row
                            /\ confirms'[d].expired = confirms[d].expired
  BY <1>2 DEF DeleteConfirm, TypeOK, ConfirmRow
<1>4. \A x \in Requests : requests'[x] = requests[x] \/ requests'[x].at = "idle"
  BY EndEffect
<1>5. \A x \in Requests : requests[x].at \in StepsWithLink => requests[x].cid \in ConfirmIds
  BY DEF TypeOK, Request
<1>6. links \subseteq ConfirmIds
  BY DEF TypeOK
<1>7. QED
  BY <1>1, <1>3, <1>4, <1>5, <1>6
     DEF LinkInv, MailedLinkResolves, ConsumedLinkSetPassword, StepsWithLink

(* A link is mailed only after it is stored, and is deleted only once it   *)
(* has expired or its password is stored, wherever a handler fails.        *)
THEOREM LinksCorrect == Spec => [](MailedLinkResolves /\ ConsumedLinkSetPassword)
<1>1. Init => LinkInv
  BY DEF Init, LinkInv, MailedLinkResolves, ConsumedLinkSetPassword, Idle, Holding,
         StepsWithLink
<1>2. TypeOK /\ LinkInv /\ [Next]_vars => LinkInv'
  <2> SUFFICES ASSUME TypeOK, LinkInv, [Next]_vars PROVE LinkInv'
    OBVIOUS
  <2>1. ASSUME NEW r \in Requests, NEW u \in Users, LoginFind(r, u) PROVE LinkInv'
    BY <2>1, GotoEffect, LinkFrame DEF LoginFind, Holding, StepsWithLink
  <2>2. ASSUME NEW r \in Requests, LoginCreate(r) PROVE LinkInv'
    BY <2>2, GotoEffect, LinkFrame DEF LoginCreate, Holding, StepsWithLink
  <2>3. ASSUME NEW r \in Requests, Respond(r) PROVE LinkInv'
    BY <2>3, EndEffect, LinkFrame DEF Respond, StepsWithLink
  <2>4. ASSUME NEW r \in Requests, NEW t \in tokens, RefreshFind(r, t) PROVE LinkInv'
    BY <2>4, GotoEffect, LinkFrame DEF RefreshFind, Holding, StepsWithLink
  <2>5. ASSUME NEW r \in Requests, RefreshRevoke(r) PROVE LinkInv'
    BY <2>5, EndEffect, LinkFrame DEF RefreshRevoke, StepsWithLink
  <2>6. ASSUME NEW r \in Requests, RefreshRotate(r) PROVE LinkInv'
    BY <2>6, EndEffect, GotoEffect, LinkFrame DEF RefreshRotate, StoreHash, Sign, Holding, StepsWithLink
  <2>7. ASSUME NEW t \in tokens, Logout(t) PROVE LinkInv'
    BY <2>7 DEF Logout, LinkInv, MailedLinkResolves, ConsumedLinkSetPassword
  <2>8. ASSUME NEW r \in Requests, NEW t \in tokens, ChangeFind(r, t) PROVE LinkInv'
    BY <2>8, GotoEffect, LinkFrame DEF ChangeFind, Holding, StepsWithLink
  <2>9. ASSUME NEW r \in Requests, ChangeUpdate(r) PROVE LinkInv'
    BY <2>9, GotoEffect, LinkFrame DEF ChangeUpdate, Holding, StepsWithLink
  <2>10. ASSUME NEW r \in Requests, ChangeRevoke(r) PROVE LinkInv'
    BY <2>10, EndEffect, LinkFrame DEF ChangeRevoke, OthersOf, StepsWithLink
  <2>11. ASSUME NEW r \in Requests, NEW u \in Users, RegisterCreate(r, u) PROVE LinkInv'
    BY <2>11, GotoEffect, LinkFrame DEF RegisterCreate, Holding, StepsWithLink
  <2>12. ASSUME NEW r \in Requests, NEW u \in Users, ForgotFind(r, u) PROVE LinkInv'
    BY <2>12, GotoEffect, LinkFrame DEF ForgotFind, Holding, StepsWithLink
  <2>13. ASSUME NEW r \in Requests, LinkCreate(r) PROVE LinkInv'
    <3>1. PICK c \in ConfirmIds :
            /\ confirms[c].row = "absent"
            /\ confirms' = [confirms EXCEPT ![c] =
                    [row |-> "live", user |-> requests[r].user, expired |-> FALSE]]
            /\ Goto(r, Holding("link.mail", requests[r].user, 0, 0, c, 0))
      BY <2>13 DEF LinkCreate, NextConfirm
    <3>a. /\ requests'[r].at = "link.mail" /\ requests'[r].cid = c
          /\ \A x \in Requests \ {r} : requests'[x] = requests[x]
      BY <3>1, GotoEffect DEF Holding
    <3>2. \A d \in ConfirmIds : IF d = c THEN confirms'[d].row = "live"
                                         ELSE confirms'[d] = confirms[d]
      BY <3>1 DEF TypeOK
    <3>3. \A x \in Requests : requests[x].at \in StepsWithLink => requests[x].cid \in ConfirmIds
      BY DEF TypeOK, Request
    <3>4. links' = links /\ applied' = applied /\ links \subseteq ConfirmIds
      BY <2>13 DEF LinkCreate, TypeOK
    <3>5. QED
      BY <3>1, <3>a, <3>2, <3>3, <3>4
         DEF LinkInv, MailedLinkResolves, ConsumedLinkSetPassword, StepsWithLink
  <2>14. ASSUME NEW r \in Requests, LinkMail(r) PROVE LinkInv'
    <3>1. \A x \in Requests : requests'[x] = requests[x] \/ requests'[x].at = "idle"
      BY <2>14, EndEffect DEF LinkMail
    <3>2. QED
      BY <2>14, <3>1 DEF LinkMail, LinkInv, MailedLinkResolves, ConsumedLinkSetPassword,
                         StepsWithLink
  <2>15. ASSUME NEW r \in Requests, NEW c \in links, ConfirmFind(r, c) PROVE LinkInv'
    <3>1. /\ requests'[r].at \in {"confirm.expire", "confirm.revoke"}
          /\ requests'[r].cid = c
          /\ requests'[r].at = "confirm.expire" => confirms[c].expired
          /\ \A x \in Requests \ {r} : requests'[x] = requests[x]
          /\ confirms[c].row = "live"
      BY <2>15, GotoEffect DEF ConfirmFind, Holding
    <3>2. QED
      BY <2>15, <3>1 DEF ConfirmFind, LinkInv, MailedLinkResolves, ConsumedLinkSetPassword
  <2>16. ASSUME NEW r \in Requests, ConfirmExpire(r) PROVE LinkInv'
    BY <2>16, LinkDelete DEF ConfirmExpire
  <2>17. ASSUME NEW r \in Requests, ConfirmRevoke(r) PROVE LinkInv'
    <3>1. /\ requests'[r].at = "confirm.update" /\ requests'[r].cid = requests[r].cid
          /\ \A x \in Requests \ {r} : requests'[x] = requests[x]
      BY <2>17, GotoEffect DEF ConfirmRevoke, Holding
    <3>2. QED
      BY <2>17, <3>1 DEF ConfirmRevoke, LinkInv, MailedLinkResolves, ConsumedLinkSetPassword,
                         StepsWithLink
  <2>18. ASSUME NEW r \in Requests, ConfirmUpdate(r) PROVE LinkInv'
    <3>1. /\ requests'[r].at = "confirm.delete" /\ requests'[r].cid = requests[r].cid
          /\ \A x \in Requests \ {r} : requests'[x] = requests[x]
      BY <2>18, GotoEffect DEF ConfirmUpdate, Holding
    <3>2. QED
      BY <2>18, <3>1 DEF ConfirmUpdate, LinkInv, MailedLinkResolves, ConsumedLinkSetPassword,
                         StepsWithLink
  <2>19. ASSUME NEW r \in Requests, ConfirmDelete(r) PROVE LinkInv'
    BY <2>19, LinkDelete DEF ConfirmDelete
  <2>20. ASSUME NEW u \in Users, NEW st \in Statuses, AdminSetStatus(u, st) PROVE LinkInv'
    BY <2>20 DEF AdminSetStatus, LinkInv, MailedLinkResolves, ConsumedLinkSetPassword
  <2>21. ASSUME NEW u \in Users, AdminDeleteUser(u) PROVE LinkInv'
    BY <2>21 DEF AdminDeleteUser, LinkInv, MailedLinkResolves, ConsumedLinkSetPassword
  <2>22. ASSUME NEW c \in ConfirmIds, ConfirmExpires(c) PROVE LinkInv'
    <3>1. \A d \in ConfirmIds : /\ confirms'[d].row = confirms[d].row
                                /\ confirms[d].expired => confirms'[d].expired
      BY <2>22 DEF ConfirmExpires, TypeOK, ConfirmRow
    <3>2. \A x \in Requests : requests[x].at \in StepsWithLink => requests[x].cid \in ConfirmIds
      BY DEF TypeOK, Request
    <3>3. links \subseteq ConfirmIds
      BY DEF TypeOK
    <3>4. QED
      BY <2>22, <3>1, <3>2, <3>3 DEF ConfirmExpires, LinkInv, MailedLinkResolves,
                                     ConsumedLinkSetPassword, StepsWithLink
  <2>23. ASSUME NEW r \in Requests, Fail(r) PROVE LinkInv'
    BY <2>23, EndEffect, LinkFrame DEF Fail, StepsWithLink
  <2>24. CASE UNCHANGED vars
    BY <2>24 DEF LinkInv, MailedLinkResolves, ConsumedLinkSetPassword
  <2>25. QED
    BY <2>1, <2>2, <2>3, <2>4, <2>5, <2>6, <2>7, <2>8, <2>9, <2>10, <2>11, <2>12,
       <2>13, <2>14, <2>15, <2>16, <2>17, <2>18, <2>19, <2>20, <2>21, <2>22, <2>23,
       <2>24 DEF Next, RequestArrives, HandlerStep, Environment
<1>3. LinkInv => MailedLinkResolves /\ ConsumedLinkSetPassword
  BY DEF LinkInv
<1>4. QED
  BY <1>1, <1>2, <1>3, TypeCorrect, PTL DEF Spec

(* A link that reached a mailbox names a stored row, until the row expires *)
(* or its link is used.                                                    *)
THEOREM MailedLinksResolve == Spec => []MailedLinkResolves
  BY LinksCorrect, PTL

-----------------------------------------------------------------------------
(* The holder of a session's hash.                                         *)

(* Steps that only start or end something other than a response.           *)
LEMMA HolderFrame ==
    ASSUME TypeOK, LiveSessionHasHolder, NEW r \in Requests,
           \A x \in Requests \ {r} : requests'[x] = requests[x],
           requests[r].at \notin {"login.respond", "refresh.respond"},
           \A s \in SessionIds : sessions'[s].row = "live" => sessions'[s] = sessions[s],
           tokens \subseteq tokens', lost \subseteq lost'
    PROVE  LiveSessionHasHolder'
<1> SUFFICES ASSUME NEW s \in SessionIds, sessions'[s].row = "live"
             PROVE  \/ [sid |-> s, hash |-> sessions[s].hash] \in tokens' \cup lost'
                    \/ \E x \in Requests : 
                        /\ requests'[x].at \in {"login.respond", "refresh.respond"}
                        /\ TokenOf(x)' = [sid |-> s, hash |-> sessions[s].hash]
  BY DEF LiveSessionHasHolder
<1>1. CASE [sid |-> s, hash |-> sessions[s].hash] \in tokens \cup lost
  BY <1>1
<1>2. ASSUME NEW x \in Requests, requests[x].at \in {"login.respond", "refresh.respond"},
             TokenOf(x) = [sid |-> s, hash |-> sessions[s].hash]
      PROVE  /\ requests'[x].at \in {"login.respond", "refresh.respond"}
             /\ TokenOf(x)' = [sid |-> s, hash |-> sessions[s].hash]
  BY <1>2 DEF TokenOf
<1>3. QED
  BY <1>1, <1>2 DEF LiveSessionHasHolder

LEMMA SoftDeleteKeepsLive ==
    ASSUME TypeOK, NEW S, SoftDeleteSessions(S)
    PROVE  \A s \in SessionIds : /\ sessions'[s].row = "live" => sessions'[s] = sessions[s]
                                 /\ sessions'[s].hash = sessions[s].hash
                                 /\ sessions'[s].user = sessions[s].user
                                 /\ sessions'[s].password = sessions[s].password
                                 /\ sessions[s].row = "absent" <=> sessions'[s].row = "absent"
                                 /\ sessions'[s].row = "live" => s \notin S
  BY DEF SoftDeleteSessions, TypeOK, SessionRow
(* No interleaving of logins, refreshes and failures leaves a live session *)
(* whose stored hash no client holds, is about to receive or has missed.   *)
THEOREM HolderCorrect == Spec => []LiveSessionHasHolder
<1>1. Init => LiveSessionHasHolder
  BY DEF Init, LiveSessionHasHolder
<1>2. TypeOK /\ LiveSessionHasHolder /\ [Next]_vars => LiveSessionHasHolder'
  <2> SUFFICES ASSUME TypeOK, LiveSessionHasHolder, [Next]_vars PROVE LiveSessionHasHolder'
    OBVIOUS
  <2>1. ASSUME NEW r \in Requests, NEW u \in Users, LoginFind(r, u)
        PROVE LiveSessionHasHolder'
    BY <2>1, GotoEffect, HolderFrame DEF LoginFind
  <2>2. ASSUME NEW r \in Requests, LoginCreate(r)
        PROVE LiveSessionHasHolder'
    <3> DEFINE u == requests[r].user
    <3>1. PICK s \in SessionIds :
            /\ sessions[s].row = "absent"
            /\ sessions' = [sessions EXCEPT ![s] =
                    [row |-> "live", user |-> u, hash |-> lastHash + 1,
                     password |-> requests[r].password]]
            /\ Goto(r, Holding("login.respond", u, s, lastHash + 1, 0, 0))
      BY <2>2 DEF LoginCreate, NextSession
    <3>2. /\ requests'[r] = Holding("login.respond", u, s, lastHash + 1, 0, 0)
          /\ \A x \in Requests \ {r} : requests'[x] = requests[x]
      BY <3>1, GotoEffect
    <3>3. \A x \in SessionIds : x # s => sessions'[x] = sessions[x]
      BY <3>1 DEF TypeOK
    <3>4. /\ sessions'[s].hash = lastHash + 1
          /\ TokenOf(r)' = [sid |-> s, hash |-> sessions'[s].hash]
          /\ requests'[r].at = "login.respond"
      BY <3>1, <3>2 DEF TypeOK, TokenOf, Holding
    <3>5. \A x \in Requests \ {r} : TokenOf(x)' = TokenOf(x)
      BY <3>2 DEF TokenOf
    <3>6. UNCHANGED <<tokens, lost>>
      BY <2>2 DEF LoginCreate
    <3>7. QED
      BY <2>2, <3>2, <3>3, <3>4, <3>5, <3>6 DEF LoginCreate, LiveSessionHasHolder
  <2>3. ASSUME NEW r \in Requests, Respond(r)
        PROVE LiveSessionHasHolder'
    <3>1. \A x \in Requests \ {r} : requests'[x] = requests[x] /\ TokenOf(x)' = TokenOf(x)
      BY <2>3, EndEffect DEF Respond, TokenOf
    <3>2. TokenOf(r) \in tokens' /\ tokens \subseteq tokens' /\ UNCHANGED <<sessions, lost>>
      BY <2>3 DEF Respond
    <3>3. QED
      BY <3>1, <3>2 DEF LiveSessionHasHolder
  <2>4. ASSUME NEW r \in Requests, NEW t \in tokens, RefreshFind(r, t)
        PROVE LiveSessionHasHolder'
    BY <2>4, GotoEffect, HolderFrame DEF RefreshFind
  <2>5. ASSUME NEW r \in Requests, RefreshRevoke(r)
        PROVE LiveSessionHasHolder'
    BY <2>5, EndEffect, SoftDeleteKeepsLive, HolderFrame DEF RefreshRevoke
  <2>6. ASSUME NEW r \in Requests, RefreshRotate(r)
        PROVE LiveSessionHasHolder'
    <3> DEFINE s == requests[r].sid
               h == lastHash + 1
    <3>1. s \in SessionIds
      BY <2>6 DEF RefreshRotate, StoreHash, Sign, TypeOK, Request, StepsWithSession
    <3>2. sessions'[s].hash = h /\ \A x \in SessionIds \ {s} : sessions'[x] = sessions[x]
      BY <2>6, <3>1 DEF RefreshRotate, StoreHash, Sign, TypeOK, SessionRow
    <3>3. \A x \in Requests \ {r} : requests'[x] = requests[x] /\ TokenOf(x)' = TokenOf(x)
      BY <2>6, EndEffect, GotoEffect DEF RefreshRotate, StoreHash, Sign, TokenOf
    <3>4. \/ [sid |-> s, hash |-> h] \in lost'
          \/ requests'[r].at = "refresh.respond" /\ TokenOf(r)' = [sid |-> s, hash |-> h]
      BY <2>6, GotoEffect DEF RefreshRotate, StoreHash, Sign, TokenOf, Holding
    <3>5. tokens' = tokens /\ lost \subseteq lost'
      BY <2>6 DEF RefreshRotate, StoreHash, Sign
    <3>6. \A x \in Requests : At(x, "login.respond") \/ At(x, "refresh.respond") => x # r
      BY <2>6 DEF RefreshRotate, StoreHash, Sign
    <3>7. QED
      BY <3>2, <3>3, <3>4, <3>5, <3>6 DEF LiveSessionHasHolder
  <2>7. ASSUME NEW t \in tokens, Logout(t)
        PROVE LiveSessionHasHolder'
    BY <2>7, SoftDeleteKeepsLive DEF Logout, LiveSessionHasHolder, TokenOf
  <2>8. ASSUME NEW r \in Requests, NEW t \in tokens, ChangeFind(r, t)
        PROVE LiveSessionHasHolder'
    BY <2>8, GotoEffect, HolderFrame DEF ChangeFind
  <2>9. ASSUME NEW r \in Requests, ChangeUpdate(r)
        PROVE LiveSessionHasHolder'
    BY <2>9, GotoEffect, HolderFrame DEF ChangeUpdate
  <2>10. ASSUME NEW r \in Requests, ChangeRevoke(r)
        PROVE LiveSessionHasHolder'
    BY <2>10, EndEffect, SoftDeleteKeepsLive, HolderFrame DEF ChangeRevoke, OthersOf
  <2>11. ASSUME NEW r \in Requests, NEW u \in Users, RegisterCreate(r, u)
        PROVE LiveSessionHasHolder'
    BY <2>11, GotoEffect, HolderFrame DEF RegisterCreate
  <2>12. ASSUME NEW r \in Requests, NEW u \in Users, ForgotFind(r, u)
        PROVE LiveSessionHasHolder'
    BY <2>12, GotoEffect, HolderFrame DEF ForgotFind
  <2>13. ASSUME NEW r \in Requests, LinkCreate(r)
        PROVE LiveSessionHasHolder'
    BY <2>13, GotoEffect, HolderFrame DEF LinkCreate
  <2>14. ASSUME NEW r \in Requests, LinkMail(r)
        PROVE LiveSessionHasHolder'
    BY <2>14, EndEffect, HolderFrame DEF LinkMail
  <2>15. ASSUME NEW r \in Requests, NEW c \in links, ConfirmFind(r, c)
        PROVE LiveSessionHasHolder'
    BY <2>15, GotoEffect, HolderFrame DEF ConfirmFind
  <2>16. ASSUME NEW r \in Requests, ConfirmExpire(r)
        PROVE LiveSessionHasHolder'
    BY <2>16, EndEffect, HolderFrame DEF ConfirmExpire
  <2>17. ASSUME NEW r \in Requests, ConfirmRevoke(r)
        PROVE LiveSessionHasHolder'
    BY <2>17, GotoEffect, SoftDeleteKeepsLive, HolderFrame DEF ConfirmRevoke
  <2>18. ASSUME NEW r \in Requests, ConfirmUpdate(r)
        PROVE LiveSessionHasHolder'
    BY <2>18, GotoEffect, HolderFrame DEF ConfirmUpdate
  <2>19. ASSUME NEW r \in Requests, ConfirmDelete(r)
        PROVE LiveSessionHasHolder'
    BY <2>19, EndEffect, HolderFrame DEF ConfirmDelete
  <2>20. ASSUME NEW u \in Users, NEW st \in Statuses, AdminSetStatus(u, st)
        PROVE LiveSessionHasHolder'
    BY <2>20 DEF AdminSetStatus, LiveSessionHasHolder, TokenOf
  <2>21. ASSUME NEW u \in Users, AdminDeleteUser(u)
        PROVE LiveSessionHasHolder'
    BY <2>21 DEF AdminDeleteUser, LiveSessionHasHolder, TokenOf
  <2>22. ASSUME NEW c \in ConfirmIds, ConfirmExpires(c)
        PROVE LiveSessionHasHolder'
    BY <2>22 DEF ConfirmExpires, LiveSessionHasHolder, TokenOf
  <2>23. ASSUME NEW r \in Requests, Fail(r)
        PROVE LiveSessionHasHolder'
    <3>1. \A x \in Requests \ {r} : requests'[x] = requests[x] /\ TokenOf(x)' = TokenOf(x)
      BY <2>23, EndEffect DEF Fail, TokenOf
    <3>2. /\ At(r, "login.respond") \/ At(r, "refresh.respond") => TokenOf(r) \in lost'
          /\ lost \subseteq lost' /\ UNCHANGED <<sessions, tokens>>
      BY <2>23 DEF Fail
    <3>3. QED
      BY <3>1, <3>2 DEF LiveSessionHasHolder
  <2>24. CASE UNCHANGED vars
    BY <2>24 DEF LiveSessionHasHolder, TokenOf
  <2>25. QED
    BY <2>1, <2>2, <2>3, <2>4, <2>5, <2>6, <2>7, <2>8, <2>9, <2>10, <2>11, <2>12,
       <2>13, <2>14, <2>15, <2>16, <2>17, <2>18, <2>19, <2>20, <2>21, <2>22, <2>23,
       <2>24 DEF Next, RequestArrives, HandlerStep, Environment
<1>3. QED
  BY <1>1, <1>2, TypeCorrect, PTL DEF Spec
-----------------------------------------------------------------------------
(* Old passwords.                                                          *)

(* Passwords only grow; a revocation in progress is for a stored password; *)
(* a row that is not there has no password and owns no session.            *)
CutInv ==
    /\ \A u \in Users : /\ cut[u] <= users[u].password
                        /\ users[u].password <= lastPassword
                        /\ users[u].row = "absent" => users[u].password = 0
    /\ \A r \in Requests : At(r, "change.revoke") =>
            requests[r].password <= users[requests[r].user].password
    /\ \A r \in Requests : requests[r].user \in Users =>
            users[requests[r].user].row # "absent"
    /\ \A s \in SessionIds : sessions[s].row # "absent" => sessions[s].user \in Users
    /\ OldPasswordCutOff

(* What the steps that store no password have in common.                   *)
LEMMA CutFrame ==
    ASSUME TypeOK, CutInv, NEW r \in Requests, UNCHANGED <<users, lastPassword, cut>>,
           \A x \in Requests \ {r} : requests'[x] = requests[x],
           requests'[r].at # "change.revoke",
           requests'[r].user \in Users => users[requests'[r].user].row # "absent",
           \A s \in SessionIds : /\ sessions'[s].user = sessions[s].user
                                 /\ sessions'[s].password = sessions[s].password
                                 /\ sessions[s].row = "absent" <=> sessions'[s].row = "absent"
                                 /\ sessions'[s].row = "live" => sessions[s].row = "live",
           spared \subseteq spared', raced \subseteq raced'
    PROVE  CutInv'
  BY DEF CutInv, OldPasswordCutOff

(* A handler stores a new password for its user and goes on.               *)
LEMMA CutStore ==
    ASSUME TypeOK, CutInv, NEW r \in Requests, NEW st \in Statuses,
           requests[r].at \in StepsWithUser, StorePassword(requests[r].user, st),
           UNCHANGED <<sessions, cut, spared, raced>>,
           \A x \in Requests \ {r} : requests'[x] = requests[x],
           requests'[r].user = requests[r].user,
           requests'[r].at = "change.revoke" => requests'[r].password = lastPassword + 1
    PROVE  CutInv'
<1> DEFINE u == requests[r].user
<1>1. u \in Users
  BY DEF TypeOK, Request
<1>2. /\ users'[u].password = lastPassword + 1 /\ users'[u].row = users[u].row
      /\ \A v \in Users \ {u} : users'[v] = users[v]
      /\ lastPassword' = lastPassword + 1
  BY <1>1 DEF StorePassword, TypeOK
<1>3. /\ lastPassword \in Nat
      /\ \A v \in Users : users[v].password \in Nat /\ cut[v] \in Nat
      /\ \A x \in Requests : requests[x].password \in Nat
  BY DEF TypeOK, Passwords, UserRow, Request
<1>4. \A v \in Users : /\ cut'[v] <= users'[v].password
                       /\ users'[v].password <= lastPassword'
                       /\ users'[v].row = "absent" => users'[v].password = 0
                       /\ users[v].password <= users'[v].password
                       /\ users'[v].row = users[v].row
                       /\ users'[v].password \in Nat
  BY <1>1, <1>2, <1>3 DEF CutInv
<1>5. \A x \in Requests : At(x, "change.revoke") => requests[x].user \in Users
  BY DEF TypeOK, Request, StepsWithUser, Steps
<1>6. \A x \in Requests : At(x, "change.revoke") =>
            requests[x].password <= users'[requests[x].user].password
  BY <1>3, <1>4, <1>5 DEF CutInv
<1>7. \A x \in Requests : requests'[x].at = "change.revoke" =>
            requests'[x].password <= users'[requests'[x].user].password
  BY <1>1, <1>2, <1>3, <1>6
<1>8. \A x \in Requests : requests'[x].user \in Users =>
            users'[requests'[x].user].row # "absent"
  BY <1>1, <1>4 DEF CutInv
<1>9. QED
  BY <1>4, <1>7, <1>8 DEF CutInv, OldPasswordCutOff

(* After a completed password change every older session is the caller's   *)
(* own or one that a login had raced into the table.                       *)
THEOREM CutOffCorrect == Spec => []OldPasswordCutOff
<1>1. Init => CutInv
  <2> SUFFICES ASSUME Init PROVE CutInv
    OBVIOUS
  <2>1. \A u \in Users : /\ cut[u] = 0 /\ users[u].password \in {0, 1}
                         /\ users[u].row = "absent" => users[u].password = 0
    BY DEF Init
  <2>2. \A r \in Requests : requests[r].at = "idle" /\ requests[r].user = NoUser
    BY DEF Init, Idle, Holding
  <2>3. \A s \in SessionIds : sessions[s].row = "absent"
    BY DEF Init
  <2>4. \A u \in Users : /\ cut[u] <= users[u].password
                         /\ users[u].password <= lastPassword
                         /\ users[u].row = "absent" => users[u].password = 0
    <3>1. lastPassword = 1
      BY DEF Init
    <3>2. \A p \in {0, 1} : 0 <= p /\ p <= 1
      OBVIOUS
    <3>3. QED
      BY <2>1, <3>1, <3>2
  <2>5. \A r \in Requests : At(r, "change.revoke") =>
            requests[r].password <= users[requests[r].user].password
    BY <2>2
  <2>6. \A r \in Requests : requests[r].user \in Users =>
            users[requests[r].user].row # "absent"
    BY <2>2
  <2>7. \A s \in SessionIds : sessions[s].row # "absent" => sessions[s].user \in Users
    BY <2>3
  <2>8. OldPasswordCutOff
    BY <2>3 DEF OldPasswordCutOff
  <2>9. QED
    BY <2>4, <2>5, <2>6, <2>7, <2>8 DEF CutInv
<1>2. TypeOK /\ CutInv /\ [Next]_vars => CutInv'
  <2> SUFFICES ASSUME TypeOK, CutInv, [Next]_vars PROVE CutInv'
    OBVIOUS
  <2>1. ASSUME NEW r \in Requests, NEW u \in Users, LoginFind(r, u)
        PROVE CutInv'
    BY <2>1, GotoEffect, CutFrame DEF LoginFind, LiveUser, Holding
  <2>2. ASSUME NEW r \in Requests, LoginCreate(r)
        PROVE CutInv'
    <3> DEFINE u == requests[r].user
    <3>1. PICK s \in SessionIds :
            /\ sessions[s].row = "absent"
            /\ sessions' = [sessions EXCEPT ![s] =
                    [row |-> "live", user |-> u, hash |-> lastHash + 1,
                     password |-> requests[r].password]]
            /\ raced' = IF users[u].password = requests[r].password
                        THEN raced ELSE raced \cup {s}
            /\ Goto(r, Holding("login.respond", u, s, lastHash + 1, 0, 0))
      BY <2>2 DEF LoginCreate, NextSession
    <3>2. /\ requests'[r].at = "login.respond" /\ requests'[r].user = u
          /\ \A x \in Requests \ {r} : requests'[x] = requests[x]
      BY <3>1, GotoEffect DEF Holding
    <3>3. \A x \in SessionIds : x # s => sessions'[x] = sessions[x]
      BY <3>1 DEF TypeOK
    <3>4. sessions'[s].user = u /\ sessions'[s].password = requests[r].password
      BY <3>1 DEF TypeOK
    <3>5. u \in Users /\ users[u].row # "absent"
      BY <2>2 DEF LoginCreate, TypeOK, Request, StepsWithUser, Steps, CutInv
    <3>6. UNCHANGED <<users, lastPassword, cut, spared>>
      BY <2>2 DEF LoginCreate
    <3>7. cut[u] \in Nat /\ users[u].password \in Nat /\ cut[u] <= users[u].password
      BY <3>5 DEF TypeOK, Passwords, UserRow, CutInv
    <3>8. sessions'[s].password < cut[u] => s \in raced'
      BY <3>1, <3>4, <3>7
    <3>9. OldPasswordCutOff'
      BY <3>1, <3>3, <3>4, <3>6, <3>8 DEF CutInv, OldPasswordCutOff
    <3>10. QED
      BY <3>2, <3>3, <3>4, <3>5, <3>6, <3>9 DEF CutInv
  <2>3. ASSUME NEW r \in Requests, Respond(r)
        PROVE CutInv'
    BY <2>3, EndEffect, CutFrame DEF Respond, StepsWithUser
  <2>4. ASSUME NEW r \in Requests, NEW t \in tokens, RefreshFind(r, t)
        PROVE CutInv'
    <3>1. requests'[r].user \in Users => users[requests'[r].user].row = "live"
      BY <2>4, GotoEffect DEF RefreshFind, EagerUser, LiveUser, Holding
    <3>2. requests'[r].at # "change.revoke"
      BY <2>4, GotoEffect DEF RefreshFind, Holding
    <3>3. QED
      BY <2>4, <3>1, <3>2, GotoEffect, CutFrame DEF RefreshFind
  <2>5. ASSUME NEW r \in Requests, RefreshRevoke(r)
        PROVE CutInv'
    BY <2>5, EndEffect, SoftDeleteKeepsLive, CutFrame DEF RefreshRevoke, StepsWithUser
  <2>6. ASSUME NEW r \in Requests, RefreshRotate(r)
        PROVE CutInv'
    <3>1. requests[r].sid \in SessionIds
      BY <2>6 DEF RefreshRotate, StoreHash, Sign, TypeOK, Request, StepsWithSession
    <3>2. \A s \in SessionIds : /\ sessions'[s].user = sessions[s].user
                                /\ sessions'[s].password = sessions[s].password
                                /\ sessions'[s].row = sessions[s].row
      BY <2>6, <3>1 DEF RefreshRotate, StoreHash, Sign, TypeOK, SessionRow
    <3>3. CASE requests[r].user = NoUser
      BY <2>6, <3>2, <3>3, EndEffect, CutFrame DEF RefreshRotate, StoreHash, Sign, StepsWithUser
    <3>4. CASE requests[r].user # NoUser
      <4>1. requests[r].user \in Users /\ users[requests[r].user].row # "absent"
        BY <2>6, <3>4 DEF RefreshRotate, StoreHash, Sign, TypeOK, Request, CutInv
      <4>2. QED
        BY <2>6, <3>2, <3>4, <4>1, GotoEffect, CutFrame DEF RefreshRotate, StoreHash, Sign, Holding
    <3>5. QED
      BY <3>3, <3>4
  <2>7. ASSUME NEW t \in tokens, Logout(t)
        PROVE CutInv'
    BY <2>7, SoftDeleteKeepsLive DEF Logout, CutInv, OldPasswordCutOff
  <2>8. ASSUME NEW r \in Requests, NEW t \in tokens, ChangeFind(r, t)
        PROVE CutInv'
    BY <2>8, GotoEffect, CutFrame DEF ChangeFind, LiveUser, Holding
  <2>9. ASSUME NEW r \in Requests, ChangeUpdate(r)
        PROVE CutInv'
    <3>1. /\ requests'[r].user = requests[r].user
          /\ requests'[r].password = lastPassword + 1
          /\ \A x \in Requests \ {r} : requests'[x] = requests[x]
      BY <2>9, GotoEffect DEF ChangeUpdate, Holding
    <3>2. requests[r].at \in StepsWithUser
      BY <2>9 DEF ChangeUpdate, StepsWithUser, Steps
    <3>3. users[requests[r].user].status \in Statuses
      BY <3>2 DEF TypeOK, Request, UserRow
    <3>4. QED
      BY <2>9, <3>1, <3>2, <3>3, CutStore DEF ChangeUpdate
  <2>10. ASSUME NEW r \in Requests, ChangeRevoke(r)
        PROVE CutInv'
    <3> DEFINE q == requests[r]
               u == q.user
    <3>1. u \in Users /\ q.password \in Nat /\ q.password <= users[u].password
      BY <2>10 DEF ChangeRevoke, OthersOf, TypeOK, Request, StepsWithUser, Steps, Passwords, CutInv
    <3>2. /\ cut'[u] = IF q.password > cut[u] THEN q.password ELSE cut[u]
          /\ \A v \in Users \ {u} : cut'[v] = cut[v]
      BY <2>10, <3>1 DEF ChangeRevoke, OthersOf, TypeOK
    <3>3. \A s \in SessionIds : sessions'[s].row = "live" /\ sessions[s].user = u => s = q.sid
      BY <2>10, SoftDeleteKeepsLive DEF ChangeRevoke, OthersOf, SessionsOf
    <3>4. \A s \in SessionIds : /\ sessions'[s].user = sessions[s].user
                                /\ sessions'[s].password = sessions[s].password
                                /\ sessions[s].row = "absent" <=> sessions'[s].row = "absent"
                                /\ sessions'[s].row = "live" => sessions[s].row = "live"
      BY <2>10, SoftDeleteKeepsLive DEF ChangeRevoke, OthersOf
    <3>5. /\ requests'[r].at = "idle" /\ requests'[r].user = NoUser
          /\ \A x \in Requests \ {r} : requests'[x] = requests[x]
          /\ spared' = spared \cup {q.sid} /\ UNCHANGED <<users, lastPassword, raced>>
      BY <2>10, EndEffect DEF ChangeRevoke, OthersOf
    <3>6. \A v \in Users : cut'[v] <= users[v].password
      BY <3>1, <3>2 DEF CutInv
    <3>7. OldPasswordCutOff'
      BY <3>2, <3>3, <3>4, <3>5 DEF CutInv, OldPasswordCutOff
    <3>8. QED
      BY <3>4, <3>5, <3>6, <3>7 DEF CutInv
  <2>11. ASSUME NEW r \in Requests, NEW u \in Users, RegisterCreate(r, u)
        PROVE CutInv'
    <3>1. /\ users'[u].password = 0 /\ users'[u].row = "live"
          /\ \A v \in Users \ {u} : users'[v] = users[v]
          /\ users[u].password = 0
      BY <2>11 DEF RegisterCreate, TypeOK, CutInv
    <3>2. /\ requests'[r].at = "register.link" /\ requests'[r].user = u
          /\ \A x \in Requests \ {r} : requests'[x] = requests[x]
      BY <2>11, GotoEffect DEF RegisterCreate, Holding
    <3>3. \A x \in Requests : At(x, "change.revoke") => requests[x].user \in Users
      BY DEF TypeOK, Request, StepsWithUser, Steps
    <3>4. At(r, "idle") /\ UNCHANGED <<sessions, lastPassword, cut, spared, raced>>
      BY <2>11 DEF RegisterCreate
    <3>5. \A v \in Users : users'[v].password = users[v].password
                           /\ (users[v].row # "absent" => users'[v].row # "absent")
      BY <3>1
    <3>6. QED
      BY <3>1, <3>2, <3>3, <3>4, <3>5 DEF CutInv, OldPasswordCutOff
  <2>12. ASSUME NEW r \in Requests, NEW u \in Users, ForgotFind(r, u)
        PROVE CutInv'
    BY <2>12, GotoEffect, CutFrame DEF ForgotFind, LiveUser, Holding
  <2>13. ASSUME NEW r \in Requests, LinkCreate(r)
        PROVE CutInv'
    <3>1. PICK c \in ConfirmIds : Goto(r, Holding("link.mail", requests[r].user, 0, 0, c, 0))
      BY <2>13 DEF LinkCreate
    <3>2. users[requests[r].user].row # "absent"
      BY <2>13 DEF LinkCreate, CutInv, TypeOK, Request, StepsWithUser, Steps
    <3>3. QED
      BY <2>13, <3>1, <3>2, GotoEffect, CutFrame DEF LinkCreate, Holding
  <2>14. ASSUME NEW r \in Requests, LinkMail(r)
        PROVE CutInv'
    BY <2>14, EndEffect, CutFrame DEF LinkMail, StepsWithUser
  <2>15. ASSUME NEW r \in Requests, NEW c \in links, ConfirmFind(r, c)
        PROVE CutInv'
    <3>1. requests'[r].user \in Users => users[requests'[r].user].row = "live"
      BY <2>15, GotoEffect DEF ConfirmFind, EagerUser, LiveUser, Holding
    <3>2. requests'[r].at # "change.revoke"
      BY <2>15, GotoEffect DEF ConfirmFind, Holding
    <3>3. QED
      BY <2>15, <3>1, <3>2, GotoEffect, CutFrame DEF ConfirmFind, StepsWithUser
  <2>16. ASSUME NEW r \in Requests, ConfirmExpire(r)
        PROVE CutInv'
    BY <2>16, EndEffect, CutFrame DEF ConfirmExpire, StepsWithUser
  <2>17. ASSUME NEW r \in Requests, ConfirmRevoke(r)
        PROVE CutInv'
    <3>1. users[requests[r].user].row # "absent"
      BY <2>17 DEF ConfirmRevoke, CutInv, TypeOK, Request, StepsWithUser, Steps
    <3>2. QED
      BY <2>17, <3>1, GotoEffect, SoftDeleteKeepsLive, CutFrame DEF ConfirmRevoke, Holding
  <2>18. ASSUME NEW r \in Requests, ConfirmUpdate(r)
        PROVE CutInv'
    <3>1. /\ requests'[r].user = requests[r].user /\ requests'[r].at = "confirm.delete"
          /\ \A x \in Requests \ {r} : requests'[x] = requests[x]
      BY <2>18, GotoEffect DEF ConfirmUpdate, Holding
    <3>2. requests[r].at \in StepsWithUser /\ "Active" \in Statuses
      BY <2>18 DEF ConfirmUpdate, StepsWithUser, Steps, Statuses
    <3>3. QED
      BY <2>18, <3>1, <3>2, CutStore DEF ConfirmUpdate
  <2>19. ASSUME NEW r \in Requests, ConfirmDelete(r)
        PROVE CutInv'
    BY <2>19, EndEffect, CutFrame DEF ConfirmDelete, StepsWithUser
  <2>20. ASSUME NEW u \in Users, NEW st \in Statuses, AdminSetStatus(u, st)
        PROVE CutInv'
    <3>1. \A v \in Users : users'[v].password = users[v].password /\ users'[v].row = users[v].row
      BY <2>20 DEF AdminSetStatus, TypeOK, UserRow
    <3>2. \A x \in Requests : requests[x].at \in StepsWithUser => requests[x].user \in Users
      BY DEF TypeOK, Request
    <3>3. QED
      BY <2>20, <3>1, <3>2 DEF AdminSetStatus, CutInv, OldPasswordCutOff, StepsWithUser, Steps
  <2>21. ASSUME NEW u \in Users, AdminDeleteUser(u)
        PROVE CutInv'
    <3>1. \A v \in Users : /\ users'[v].password = users[v].password
                           /\ users'[v].row = "absent" <=> users[v].row = "absent"
      BY <2>21 DEF AdminDeleteUser, LiveUser, TypeOK, UserRow
    <3>2. \A x \in Requests : requests[x].at \in StepsWithUser => requests[x].user \in Users
      BY DEF TypeOK, Request
    <3>3. QED
      BY <2>21, <3>1, <3>2 DEF AdminDeleteUser, CutInv, OldPasswordCutOff, StepsWithUser, Steps
  <2>22. ASSUME NEW c \in ConfirmIds, ConfirmExpires(c)
        PROVE CutInv'
    BY <2>22 DEF ConfirmExpires, CutInv, OldPasswordCutOff
  <2>23. ASSUME NEW r \in Requests, Fail(r)
        PROVE CutInv'
    BY <2>23, EndEffect, CutFrame DEF Fail, StepsWithUser
  <2>24. CASE UNCHANGED vars
    BY <2>24 DEF CutInv, OldPasswordCutOff
  <2>25. QED
    BY <2>1, <2>2, <2>3, <2>4, <2>5, <2>6, <2>7, <2>8, <2>9, <2>10, <2>11, <2>12,
       <2>13, <2>14, <2>15, <2>16, <2>17, <2>18, <2>19, <2>20, <2>21, <2>22, <2>23,
       <2>24 DEF Next, RequestArrives, HandlerStep, Environment
<1>3. CutInv => OldPasswordCutOff
  BY DEF CutInv
<1>4. QED
  BY <1>1, <1>2, <1>3, TypeCorrect, PTL DEF Spec
-----------------------------------------------------------------------------
(* Reuse of refresh tokens.                                                *)

(* The steps at which a handler holds the hash that the session row holds. *)
HashSteps == {"login.respond", "refresh.rotate", "refresh.respond"}

(* A session none of whose tokens was presented twice.  At any time one    *)
(* thing only can continue it: a delivered token not presented yet, or the *)
(* handler that is replacing its hash or delivering it.                    *)
FreshSession(s) ==
    /\ \A t \in tokens : t.sid = s => t \in presented \/ t.hash = sessions[s].hash
    /\ \A r \in Requests : requests[r].at \in HashSteps /\ requests[r].sid = s =>
            /\ requests[r].hash = sessions[s].hash
            /\ \A t \in tokens : t.sid = s => t \in presented
            /\ \A x \in Requests : requests[x].at \in HashSteps /\ requests[x].sid = s => x = r
    /\ \A r \in Requests : At(r, "refresh.revoke") => requests[r].sid # s

TokenInv ==
    /\ \A r \in Requests : requests[r].sid \in SessionIds =>
            sessions[requests[r].sid].row # "absent"
    /\ \A t \in tokens : sessions[t.sid].row # "absent"
    /\ \A s \in SessionIds \ reused : FreshSession(s)

LEMMA NoSession == 0 \notin SessionIds
  BY DEF SessionIds

(* What the steps that neither sign nor look up a token have in common.    *)
LEMMA TokenFrame ==
    ASSUME TypeOK, TokenInv, NEW r \in Requests, UNCHANGED <<tokens, presented, reused>>,
           \A x \in Requests \ {r} : requests'[x] = requests[x],
           requests'[r].at \notin HashSteps \cup {"refresh.revoke"},
           requests'[r].sid \in SessionIds => sessions[requests'[r].sid].row # "absent",
           \A s \in SessionIds : /\ sessions'[s].hash = sessions[s].hash
                                 /\ sessions'[s].row = "absent" <=> sessions[s].row = "absent"
    PROVE  TokenInv'
<1>1. \A t \in tokens : t.sid \in SessionIds
  BY DEF TypeOK, Tokens
<1>2. /\ \A x \in Requests : requests'[x].sid \in SessionIds =>
            sessions'[requests'[x].sid].row # "absent"
      /\ \A t \in tokens' : sessions'[t.sid].row # "absent"
  BY <1>1 DEF TokenInv
<1>3. ASSUME NEW s \in SessionIds \ reused PROVE FreshSession(s)'
  BY DEF TokenInv, FreshSession
<1>4. QED
  BY <1>2, <1>3 DEF TokenInv

(* TokenInv is inductive: refreshTokens keeps one holder per fresh session. *)
LEMMA TokensAlwaysFresh == Spec => []TokenInv
<1>1. Init => TokenInv
  BY DEF Init, TokenInv, FreshSession, HashSteps, Idle, Holding, SessionIds
<1>2. TypeOK /\ TokenInv /\ [Next]_vars => TokenInv'
  <2> SUFFICES ASSUME TypeOK, TokenInv, [Next]_vars PROVE TokenInv'
    OBVIOUS
  <2>1. ASSUME NEW r \in Requests, NEW u \in Users, LoginFind(r, u)
        PROVE TokenInv'
    BY <2>1, GotoEffect, TokenFrame, NoSession DEF LoginFind, Holding, HashSteps
  <2>2. ASSUME NEW r \in Requests, LoginCreate(r)
        PROVE TokenInv'
    <3> DEFINE q == requests[r]
    <3>1. PICK s \in SessionIds :
            /\ sessions[s].row = "absent"
            /\ sessions' = [sessions EXCEPT ![s] =
                    [row |-> "live", user |-> q.user, hash |-> lastHash + 1,
                     password |-> q.password]]
            /\ Goto(r, Holding("login.respond", q.user, s, lastHash + 1, 0, 0))
      BY <2>2 DEF LoginCreate, NextSession
    <3>2. /\ requests'[r].at = "login.respond" /\ requests'[r].sid = s
          /\ requests'[r].hash = lastHash + 1
          /\ \A x \in Requests \ {r} : requests'[x] = requests[x]
      BY <3>1, GotoEffect DEF Holding
    <3>3. /\ sessions'[s].row = "live" /\ sessions'[s].hash = lastHash + 1
          /\ \A x \in SessionIds \ {s} : sessions'[x] = sessions[x]
      BY <3>1 DEF TypeOK
    <3>4. UNCHANGED <<tokens, presented, reused>>
      BY <2>2 DEF LoginCreate
    <3>5. /\ \A x \in Requests \ {r} : requests[x].sid # s
          /\ \A t \in tokens : t.sid # s
      BY <3>1 DEF TokenInv
    <3>6. \A t \in tokens : t.sid \in SessionIds
      BY DEF TypeOK, Tokens
    <3>7. /\ \A x \in Requests : requests'[x].sid \in SessionIds =>
                sessions'[requests'[x].sid].row # "absent"
          /\ \A t \in tokens' : sessions'[t.sid].row # "absent"
      BY <3>2, <3>3, <3>4, <3>5, <3>6 DEF TokenInv
    <3>8. ASSUME NEW x \in SessionIds \ reused'
          PROVE  FreshSession(x)'
      <4>1. CASE x = s
        BY <3>2, <3>3, <3>4, <3>5, <4>1 DEF FreshSession, HashSteps
      <4>2. CASE x # s
        BY <3>2, <3>3, <3>4, <4>2 DEF TokenInv, FreshSession
      <4>3. QED
        BY <4>1, <4>2
    <3>9. QED
      BY <3>7, <3>8 DEF TokenInv
  <2>3. ASSUME NEW r \in Requests, Respond(r)
        PROVE TokenInv'
    <3> DEFINE s == requests[r].sid
    <3>1. /\ tokens' = tokens \cup {TokenOf(r)} /\ UNCHANGED <<sessions, presented, reused>>
          /\ requests[r].at \in HashSteps
      BY <2>3 DEF Respond, HashSteps
    <3>2. s \in SessionIds
      BY <2>3 DEF Respond, TypeOK, Request, StepsWithSession
    <3>3. TokenOf(r).sid = s /\ TokenOf(r).hash = requests[r].hash
      BY DEF TokenOf
    <3>4. /\ requests'[r].at = "idle" /\ requests'[r].sid \notin SessionIds
          /\ \A x \in Requests \ {r} : requests'[x] = requests[x]
      BY <2>3, EndEffect DEF Respond
    <3>5. /\ \A x \in Requests : requests'[x].sid \in SessionIds =>
                sessions'[requests'[x].sid].row # "absent"
          /\ \A t \in tokens' : sessions'[t.sid].row # "absent"
      BY <3>1, <3>2, <3>3, <3>4 DEF TokenInv
    <3>6. ASSUME NEW x \in SessionIds \ reused'
          PROVE  FreshSession(x)'
      <4>1. FreshSession(x)
        BY <3>1 DEF TokenInv
      <4>2. CASE x = s
        BY <3>1, <3>3, <3>4, <4>1, <4>2 DEF FreshSession, HashSteps
      <4>3. CASE x # s
        BY <3>1, <3>3, <3>4, <4>1, <4>3 DEF FreshSession, HashSteps
      <4>4. QED
        BY <4>2, <4>3
    <3>7. QED
      BY <3>5, <3>6 DEF TokenInv
  <2>4. ASSUME NEW r \in Requests, NEW t \in tokens, RefreshFind(r, t)
        PROVE TokenInv'
    <3> DEFINE s == t.sid
    <3>1. /\ s \in SessionIds /\ t = [sid |-> s, hash |-> t.hash]
          /\ \A o \in tokens : o.sid = s /\ o.hash = t.hash => o = t
      BY DEF TypeOK, Tokens
    <3>2. /\ requests'[r].sid = s /\ requests'[r].hash = t.hash
          /\ requests'[r].at = IF sessions[s].hash # t.hash
                                THEN "refresh.revoke" ELSE "refresh.rotate"
          /\ \A x \in Requests \ {r} : requests'[x] = requests[x]
      BY <2>4, GotoEffect DEF RefreshFind, Holding
    <3>3. /\ sessions[s].row = "live" /\ presented' = presented \cup {t}
          /\ reused' = IF t \in presented THEN reused \cup {s} ELSE reused
          /\ UNCHANGED <<sessions, tokens>>
      BY <2>4 DEF RefreshFind
    <3>4. /\ \A x \in Requests : requests'[x].sid \in SessionIds =>
                sessions'[requests'[x].sid].row # "absent"
          /\ \A o \in tokens' : sessions'[o.sid].row # "absent"
      BY <3>2, <3>3 DEF TokenInv
    <3>5. ASSUME NEW x \in SessionIds \ reused'
          PROVE  FreshSession(x)'
      <4>1. FreshSession(x)
        BY <3>3 DEF TokenInv
      <4>2. CASE x = s
        <5>1. t \notin presented
          BY <3>3, <4>2
        <5>2. t.hash = sessions[s].hash
          BY <4>1, <4>2, <5>1 DEF FreshSession
        <5>3. \A y \in Requests : requests[y].at \in HashSteps => requests[y].sid # s
          BY <4>1, <4>2, <5>1 DEF FreshSession
        <5>4. \A o \in tokens : o.sid = s => o \in presented'
          BY <3>1, <3>3, <4>1, <4>2, <5>2 DEF FreshSession
        <5>5. QED
          BY <3>2, <3>3, <4>1, <4>2, <5>2, <5>3, <5>4 DEF FreshSession
      <4>3. CASE x # s
        BY <3>2, <3>3, <4>1, <4>3 DEF FreshSession
      <4>4. QED
        BY <4>2, <4>3
    <3>6. QED
      BY <3>4, <3>5 DEF TokenInv
  <2>5. ASSUME NEW r \in Requests, RefreshRevoke(r)
        PROVE TokenInv'
    BY <2>5, EndEffect, SoftDeleteKeepsLive, TokenFrame DEF RefreshRevoke, HashSteps
  <2>6. ASSUME NEW r \in Requests, RefreshRotate(r)
        PROVE TokenInv'
    <3> DEFINE q == requests[r]
               h == lastHash + 1
    <3>1. q.sid \in SessionIds /\ q.at \in HashSteps
      BY <2>6 DEF RefreshRotate, StoreHash, Sign, TypeOK, Request, StepsWithSession, HashSteps
    <3>2. /\ sessions'[q.sid].hash = h /\ sessions'[q.sid].row = sessions[q.sid].row
          /\ \A x \in SessionIds \ {q.sid} : sessions'[x] = sessions[x]
      BY <2>6, <3>1 DEF RefreshRotate, StoreHash, Sign, TypeOK, SessionRow
    <3>3. /\ \/ requests'[r].at = "idle" /\ requests'[r].sid \notin SessionIds
             \/ /\ requests'[r].at = "refresh.respond"
                /\ requests'[r].sid = q.sid /\ requests'[r].hash = h
          /\ \A x \in Requests \ {r} : requests'[x] = requests[x]
      BY <2>6, EndEffect, GotoEffect DEF RefreshRotate, StoreHash, Sign, Holding
    <3>4. UNCHANGED <<tokens, presented, reused>>
      BY <2>6 DEF RefreshRotate, StoreHash, Sign
    <3>5. \A t \in tokens : t.sid \in SessionIds
      BY DEF TypeOK, Tokens
    <3>6. /\ \A x \in Requests : requests'[x].sid \in SessionIds =>
                sessions'[requests'[x].sid].row # "absent"
          /\ \A t \in tokens' : sessions'[t.sid].row # "absent"
      BY <3>1, <3>2, <3>3, <3>4, <3>5 DEF TokenInv
    <3>7. ASSUME NEW x \in SessionIds \ reused'
          PROVE  FreshSession(x)'
      <4>1. FreshSession(x)
        BY <3>4 DEF TokenInv
      <4>2. CASE x = q.sid
        BY <3>1, <3>2, <3>3, <3>4, <4>1, <4>2 DEF FreshSession, HashSteps
      <4>3. CASE x # q.sid
        BY <3>2, <3>3, <3>4, <4>1, <4>3 DEF FreshSession, HashSteps
      <4>4. QED
        BY <4>2, <4>3
    <3>8. QED
      BY <3>6, <3>7 DEF TokenInv
  <2>7. ASSUME NEW t \in tokens, Logout(t)
        PROVE TokenInv'
    <3>1. \A s \in SessionIds : /\ sessions'[s].hash = sessions[s].hash
                                /\ sessions'[s].row = "absent" <=> sessions[s].row = "absent"
      BY <2>7, SoftDeleteKeepsLive DEF Logout
    <3>2. \A o \in tokens : o.sid \in SessionIds
      BY DEF TypeOK, Tokens
    <3>3. UNCHANGED <<requests, tokens, presented, reused>>
      BY <2>7 DEF Logout
    <3>4. QED
      BY <3>1, <3>2, <3>3 DEF TokenInv, FreshSession
  <2>8. ASSUME NEW r \in Requests, NEW t \in tokens, ChangeFind(r, t)
        PROVE TokenInv'
    <3>1. requests'[r].at \notin HashSteps \cup {"refresh.revoke"} /\ requests'[r].sid = t.sid
      BY <2>8, GotoEffect DEF ChangeFind, Holding, HashSteps
    <3>2. sessions[t.sid].row # "absent"
      BY DEF TokenInv
    <3>3. QED
      BY <2>8, <3>1, <3>2, GotoEffect, TokenFrame DEF ChangeFind
  <2>9. ASSUME NEW r \in Requests, ChangeUpdate(r)
        PROVE TokenInv'
    <3>1. requests'[r].at \notin HashSteps \cup {"refresh.revoke"}
      BY <2>9, GotoEffect DEF ChangeUpdate, Holding, HashSteps
    <3>2. requests'[r].sid = requests[r].sid
      BY <2>9, GotoEffect DEF ChangeUpdate, Holding
    <3>3. requests'[r].sid \in SessionIds => sessions[requests'[r].sid].row # "absent"
      BY <3>2 DEF TokenInv
    <3>4. QED
      BY <2>9, <3>1, <3>3, GotoEffect, TokenFrame DEF ChangeUpdate
  <2>10. ASSUME NEW r \in Requests, ChangeRevoke(r)
        PROVE TokenInv'
    BY <2>10, EndEffect, SoftDeleteKeepsLive, TokenFrame DEF ChangeRevoke, OthersOf, HashSteps
  <2>11. ASSUME NEW r \in Requests, NEW u \in Users, RegisterCreate(r, u)
        PROVE TokenInv'
    BY <2>11, GotoEffect, TokenFrame, NoSession DEF RegisterCreate, Holding, HashSteps
  <2>12. ASSUME NEW r \in Requests, NEW u \in Users, ForgotFind(r, u)
        PROVE TokenInv'
    BY <2>12, GotoEffect, TokenFrame, NoSession DEF ForgotFind, Holding, HashSteps
  <2>13. ASSUME NEW r \in Requests, LinkCreate(r)
        PROVE TokenInv'
    <3>1. PICK c \in ConfirmIds : Goto(r, Holding("link.mail", requests[r].user, 0, 0, c, 0))
      BY <2>13 DEF LinkCreate
    <3>2. requests'[r].at = "link.mail" /\ requests'[r].sid = 0
      BY <3>1, GotoEffect DEF Holding
    <3>3. QED
      BY <2>13, <3>1, <3>2, GotoEffect, TokenFrame, NoSession DEF LinkCreate, HashSteps
  <2>14. ASSUME NEW r \in Requests, LinkMail(r)
        PROVE TokenInv'
    BY <2>14, EndEffect, TokenFrame DEF LinkMail, HashSteps
  <2>15. ASSUME NEW r \in Requests, NEW c \in links, ConfirmFind(r, c)
        PROVE TokenInv'
    <3>1. requests'[r].at \notin HashSteps \cup {"refresh.revoke"} /\ requests'[r].sid = 0
      BY <2>15, GotoEffect DEF ConfirmFind, Holding, HashSteps
    <3>2. QED
      BY <2>15, <3>1, GotoEffect, TokenFrame, NoSession DEF ConfirmFind
  <2>16. ASSUME NEW r \in Requests, ConfirmExpire(r)
        PROVE TokenInv'
    BY <2>16, EndEffect, TokenFrame DEF ConfirmExpire, HashSteps
  <2>17. ASSUME NEW r \in Requests, ConfirmRevoke(r)
        PROVE TokenInv'
    BY <2>17, GotoEffect, SoftDeleteKeepsLive, TokenFrame, NoSession
       DEF ConfirmRevoke, Holding, HashSteps
  <2>18. ASSUME NEW r \in Requests, ConfirmUpdate(r)
        PROVE TokenInv'
    BY <2>18, GotoEffect, TokenFrame, NoSession DEF ConfirmUpdate, Holding, HashSteps
  <2>19. ASSUME NEW r \in Requests, ConfirmDelete(r)
        PROVE TokenInv'
    BY <2>19, EndEffect, TokenFrame DEF ConfirmDelete, HashSteps
  <2>20. ASSUME NEW u \in Users, NEW st \in Statuses, AdminSetStatus(u, st)
        PROVE TokenInv'
    BY <2>20 DEF AdminSetStatus, TokenInv, FreshSession
  <2>21. ASSUME NEW u \in Users, AdminDeleteUser(u)
        PROVE TokenInv'
    BY <2>21 DEF AdminDeleteUser, TokenInv, FreshSession
  <2>22. ASSUME NEW c \in ConfirmIds, ConfirmExpires(c)
        PROVE TokenInv'
    BY <2>22 DEF ConfirmExpires, TokenInv, FreshSession
  <2>23. ASSUME NEW r \in Requests, Fail(r)
        PROVE TokenInv'
    BY <2>23, EndEffect, TokenFrame DEF Fail, HashSteps
  <2>24. CASE UNCHANGED vars
    BY <2>24 DEF TokenInv, FreshSession
  <2>25. QED
    BY <2>1, <2>2, <2>3, <2>4, <2>5, <2>6, <2>7, <2>8, <2>9, <2>10, <2>11, <2>12,
       <2>13, <2>14, <2>15, <2>16, <2>17, <2>18, <2>19, <2>20, <2>21, <2>22, <2>23,
       <2>24 DEF Next, RequestArrives, HandlerStep, Environment
<1>3. QED
  BY <1>1, <1>2, TypeCorrect, PTL DEF Spec

(* The check on line 264 ends a session only if one of its tokens was      *)
(* presented twice, however the refreshes interleave.                      *)
THEOREM ReuseCorrect == Spec => []RevokedOnlyIfReused
<1>1. TypeOK /\ TokenInv => RevokedOnlyIfReused
  <2> SUFFICES ASSUME TypeOK, TokenInv, NEW r \in Requests, At(r, "refresh.revoke")
               PROVE  requests[r].sid \in reused
    BY DEF RevokedOnlyIfReused
  <2>1. requests[r].sid \in SessionIds
    BY DEF TypeOK, Request, StepsWithSession
  <2>2. QED
    BY <2>1 DEF TokenInv, FreshSession
<1>2. QED
  BY <1>1, TypeCorrect, TokensAlwaysFresh, PTL

-----------------------------------------------------------------------------
(* The session table implements SessionLifecycle.                          *)

(* Steps that leave the session table and the hash generator alone.        *)
LEMMA LifecycleStutters ==
    ASSUME UNCHANGED <<sessions, lastHash>>
    PROVE  UNCHANGED Lifecycle!vars
  BY DEF Lifecycle!vars

(* Every step of the abstract table, named by what it does.                *)
LEMMA OpenStep ==
    ASSUME NEW s \in SessionIds, NEW h \in Hashes, Lifecycle!Open(s, h)
    PROVE  Lifecycle!Next
  BY DEF Lifecycle!Next

LEMMA RotateStep ==
    ASSUME NEW s \in SessionIds, NEW h \in Hashes, Lifecycle!Rotate(s, h)
    PROVE  Lifecycle!Next
  BY DEF Lifecycle!Next

LEMMA CloseStep ==
    ASSUME NEW S \in SUBSET SessionIds, Lifecycle!Close(S)
    PROVE  Lifecycle!Next
  BY DEF Lifecycle!Next

(* Any soft delete is a Close of the live sessions it matches.             *)
LEMMA SoftDeleteCloses ==
    ASSUME TypeOK, NEW S, SoftDeleteSessions(S), UNCHANGED lastHash
    PROVE  Lifecycle!Next
<1>0. PICK live \in SUBSET SessionIds :
            live = {s \in SessionIds : s \in S /\ sessions[s].row = "live"}
  OBVIOUS
<1>1. \A s \in SessionIds : /\ sessions'[s].row = IF s \in live THEN "deleted"
                                                  ELSE sessions[s].row
                            /\ sessions'[s].hash = sessions[s].hash
  BY <1>0 DEF SoftDeleteSessions, TypeOK, SessionRow
<1>2. /\ \A s \in live : [x \in SessionIds |-> sessions[x].row][s] = "live"
      /\ [s \in SessionIds |-> sessions'[s].row]
            = [s \in SessionIds |-> IF s \in live THEN "deleted"
                                    ELSE [x \in SessionIds |-> sessions[x].row][s]]
      /\ [s \in SessionIds |-> sessions'[s].hash] = [s \in SessionIds |-> sessions[s].hash]
  BY <1>0, <1>1
<1>3. Lifecycle!Close(live)
  BY <1>2 DEF Lifecycle!Close
<1>4. QED
  BY <1>3, CloseStep

(* No handler brings a closed session back, and no hash is ever stored in  *)
(* two rows or twice in one.                                               *)
THEOREM RefinesLifecycle == Spec => SessionsFollowLifecycle
<1>1. Init => Lifecycle!Init
  <2> SUFFICES ASSUME Init PROVE Lifecycle!Init
    OBVIOUS
  <2>1. /\ [s \in SessionIds |-> sessions[s].row] = [s \in SessionIds |-> "absent"]
        /\ [s \in SessionIds |-> sessions[s].hash] = [s \in SessionIds |-> 0]
    BY DEF Init
  <2>2. 1..lastHash = {}
    BY DEF Init
  <2>3. QED
    BY <2>1, <2>2 DEF Lifecycle!Init
<1>2. TypeOK /\ TokenInv /\ [Next]_vars => [Lifecycle!Next]_(Lifecycle!vars)
  <2> SUFFICES ASSUME TypeOK, TokenInv, [Next]_vars
               PROVE  Lifecycle!Next \/ UNCHANGED Lifecycle!vars
    OBVIOUS
  <2>1. ASSUME lastHash < MaxHashes, lastHash' = lastHash + 1
        PROVE  /\ lastHash + 1 \in Hashes /\ lastHash + 1 \notin 1..lastHash
               /\ 1..lastHash' = 1..lastHash \cup {lastHash + 1}
    BY <2>1 DEF TypeOK, Hashes
  <2>2. ASSUME NEW r \in Requests, LoginCreate(r)
        PROVE  Lifecycle!Next
    <3>0. PICK h \in Hashes : h = lastHash + 1
      BY <2>1, <2>2 DEF LoginCreate
    <3>1. PICK s \in SessionIds :
            /\ sessions[s].row = "absent"
            /\ sessions' = [sessions EXCEPT ![s] =
                    [row |-> "live", user |-> requests[r].user, hash |-> h,
                     password |-> requests[r].password]]
      BY <2>2, <3>0 DEF LoginCreate, NextSession
    <3>2. /\ sessions'[s].row = "live" /\ sessions'[s].hash = h
          /\ \A x \in SessionIds \ {s} : sessions'[x] = sessions[x]
      BY <3>1 DEF TypeOK
    <3>3. /\ [x \in SessionIds |-> sessions'[x].row]
                = [[x \in SessionIds |-> sessions[x].row] EXCEPT ![s] = "live"]
          /\ [x \in SessionIds |-> sessions'[x].hash]
                = [[x \in SessionIds |-> sessions[x].hash] EXCEPT ![s] = h]
      BY <3>2
    <3>4. [x \in SessionIds |-> sessions[x].row][s] = "absent"
      BY <3>1
    <3>5. Lifecycle!Open(s, h)
      BY <2>1, <2>2, <3>0, <3>3, <3>4 DEF Lifecycle!Open, LoginCreate
    <3>6. QED
      BY <3>5, OpenStep
  <2>3. ASSUME NEW r \in Requests, RefreshRotate(r)
        PROVE  Lifecycle!Next
    <3>0. PICK h \in Hashes : h = lastHash + 1
      BY <2>1, <2>3 DEF RefreshRotate, StoreHash, Sign
    <3>1. PICK s \in SessionIds : s = requests[r].sid /\ sessions[s].row # "absent"
      BY <2>3 DEF RefreshRotate, StoreHash, Sign, TypeOK, Request, StepsWithSession, TokenInv
    <3>2. /\ sessions'[s].hash = h /\ sessions'[s].row = sessions[s].row
          /\ \A x \in SessionIds \ {s} : sessions'[x] = sessions[x]
      BY <2>3, <3>0, <3>1 DEF RefreshRotate, StoreHash, Sign, TypeOK, SessionRow
    <3>3. /\ [x \in SessionIds |-> sessions[x].row][s] # "absent"
          /\ [x \in SessionIds |-> sessions'[x].row] = [x \in SessionIds |-> sessions[x].row]
          /\ [x \in SessionIds |-> sessions'[x].hash]
                = [[x \in SessionIds |-> sessions[x].hash] EXCEPT ![s] = h]
      BY <3>1, <3>2
    <3>4. Lifecycle!Rotate(s, h)
      BY <2>1, <2>3, <3>0, <3>3 DEF Lifecycle!Rotate, RefreshRotate, StoreHash, Sign
    <3>5. QED
      BY <3>4, RotateStep
  <2>4. ASSUME NEW r \in Requests,
               RefreshRevoke(r) \/ ChangeRevoke(r) \/ ConfirmRevoke(r)
        PROVE  Lifecycle!Next
    BY <2>4, SoftDeleteCloses DEF RefreshRevoke, ChangeRevoke, ConfirmRevoke
  <2>5. ASSUME NEW t \in tokens, Logout(t)
        PROVE  Lifecycle!Next
    BY <2>5, SoftDeleteCloses DEF Logout
  <2>6. ASSUME NEW r \in Requests, RequestArrives(r)
        PROVE  UNCHANGED <<sessions, lastHash>>
    BY <2>6 DEF RequestArrives, LoginFind, RegisterCreate, ForgotFind, RefreshFind,
                ChangeFind, ConfirmFind
  <2>7. ASSUME NEW r \in Requests,
               \/ Respond(r) \/ ChangeUpdate(r) \/ LinkCreate(r) \/ LinkMail(r)
               \/ ConfirmExpire(r) \/ ConfirmUpdate(r) \/ ConfirmDelete(r) \/ Fail(r)
        PROVE  UNCHANGED <<sessions, lastHash>>
    BY <2>7 DEF Respond, ChangeUpdate, LinkCreate, LinkMail, ConfirmExpire,
                ConfirmUpdate, ConfirmDelete, Fail
  <2>8. ASSUME \/ \E u \in Users : AdminDeleteUser(u)
               \/ \E u \in Users, st \in Statuses : AdminSetStatus(u, st)
               \/ \E c \in ConfirmIds : ConfirmExpires(c)
        PROVE  UNCHANGED <<sessions, lastHash>>
    BY <2>8 DEF AdminDeleteUser, AdminSetStatus, ConfirmExpires
  <2>9. CASE UNCHANGED vars
    BY <2>9, LifecycleStutters
  <2>10. QED
    BY <2>2, <2>3, <2>4, <2>5, <2>6, <2>7, <2>8, <2>9, LifecycleStutters
       DEF Next, HandlerStep, Environment
<1>3. QED
  BY <1>1, <1>2, TypeCorrect, TokensAlwaysFresh, PTL
     DEF Spec, SessionsFollowLifecycle, Lifecycle!Spec
=============================================================================
