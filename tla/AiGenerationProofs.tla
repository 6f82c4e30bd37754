------------------------- MODULE AiGenerationProofs --------------------------
(* Theorems about AiGeneration, for every set of drafts and failures and   *)
(* every number of retries.                                                *)
EXTENDS AiGeneration, TLAPS

USE ConstantsAssumption

-----------------------------------------------------------------------------
(* Answers.                                                                *)

AnswerOK(a) ==
    /\ a.status \in {0, 200, 400, 404, 429, 502, 503, 504}
    /\ a.retryAfter \in Nat /\ a.warnings \subseteq Defects

(* A wait in seconds is no shorter than what was asked for in milliseconds. *)
LEMMA RoundedUp ==
    ASSUME NEW ms \in Nat
    PROVE  RetryAfterSeconds(ms) \in Nat /\ RetryAfterSeconds(ms) * 1000 >= ms
  BY DEF RetryAfterSeconds

LEMMA FailedOK ==
    ASSUME NEW status \in {400, 404, 429, 502, 503, 504}, NEW code, NEW after \in Nat
    PROVE  /\ AnswerOK(Failed(status, code, after))
           /\ Failed(status, code, after).status = status
           /\ Failed(status, code, after).retryAfter = after
  BY DEF AnswerOK, Failed

LEMMA CauseFacts ==
    /\ Aborted \in Causes /\ Invalid \in Causes /\ Failures \subseteq Causes
    /\ \A c \in Causes : c.after \in Nat
<1>1. /\ -1 \in -1..MAX_CAUSE_DEPTH + 1 /\ 0 \in -1..MAX_CAUSE_DEPTH + 1
  OBVIOUS
<1>2. Aborted \in Causes /\ Invalid \in Causes
  BY <1>1 DEF Aborted, Invalid, Causes
<1>3. QED
  BY <1>2 DEF Causes

LEMMA ClassifiedOK ==
    ASSUME NEW c \in Causes, NEW retried
    PROVE  AnswerOK(ToHttpException(c, retried))
<1>1. c.after \in Nat /\ RetryAfterSeconds(c.after) \in Nat /\ 0 \in Nat
  BY CauseFacts, RoundedUp
<1>2. QED
  BY <1>1, FailedOK DEF ToHttpException, Classify

LEMMA DrawnOK ==
    ASSUME NEW draft \in Drafts \cup {{}}
    PROVE  AnswerOK(Drawn(draft)) /\ Drawn(draft).status = 200
  BY DEF AnswerOK, Drawn

-----------------------------------------------------------------------------
(* The inductive invariant.                                                *)

Waiting == at \in {"call", "refused", "backoff"}

(* The calls of the attempts before and of the tries in this one.          *)
Allowed == (IF attempt = 0 THEN 0 ELSE MAX_RETRIES + 1) + try + 1

CallsCounted ==
    /\ at = "idle" => calls = 0
    /\ Waiting => calls <= Allowed
    /\ at = "backoff" => try < MAX_RETRIES
    /\ CallsBounded

(* A draft that came back is kept in previous until the end.               *)
DraftKept ==
    /\ at = "idle" => ~received
    /\ received /\ at # "ended" => previous # NoDraft

KeyIsSet == Waiting => ~NotConfigured(config)

IInv == TypeOK /\ CallsCounted /\ DraftKept /\ DraftNotLost /\ KeyIsSet /\ NoCallWithoutKey

(* The second attempt is the last one, and starts with a full allowance.   *)
LEMMA SecondAttemptKeeps ==
    ASSUME IInv, Waiting, attempt = 0, NEW draft \in Drafts \cup {NoDraft},
           SecondAttempt(draft), UNCHANGED <<config, aborted>>,
           received' \in BOOLEAN, received' => draft # NoDraft
    PROVE  IInv'
<1>1. /\ try \in 0..MAX_RETRIES /\ calls \in Nat /\ calls <= try + 1
      /\ config \in Configs /\ aborted \in BOOLEAN /\ ~NotConfigured(config)
      /\ AnswerOK(answer)
  BY DEF IInv, TypeOK, CallsCounted, Allowed, KeyIsSet, AnswerOK
<1>2. /\ attempt' = 1 /\ try' = 0 /\ last' = NoCause /\ previous' = draft /\ answer' = answer
      /\ at' \in {"refused", "call"} /\ calls' \in {calls, calls + 1}
  BY DEF SecondAttempt
<1>3. calls' \in Nat /\ calls' <= MAX_RETRIES + 2 /\ calls' <= 2 * (MAX_RETRIES + 1)
  BY <1>1, <1>2
<1>4. TypeOK'
  BY <1>1, <1>2, <1>3 DEF TypeOK, Places, AnswerOK
<1>5. CallsCounted'
  BY <1>2, <1>3 DEF CallsCounted, CallsBounded, Allowed, Waiting
<1>6. DraftKept' /\ DraftNotLost'
  BY <1>2 DEF DraftKept, DraftNotLost
<1>7. KeyIsSet' /\ NoCallWithoutKey'
  BY <1>1 DEF KeyIsSet, NoCallWithoutKey, NotConfigured, ProviderOf
<1>8. QED
  BY <1>4, <1>5, <1>6, <1>7 DEF IInv

(* The end: a well-formed answer, and 200 if a draft has been received.    *)
LEMMA EndKeeps ==
    ASSUME IInv, NEW a, AnswerOK(a), End(a),
           UNCHANGED <<config, attempt, try, previous, aborted, last, calls>>,
           received' \in BOOLEAN, received' => a.status = 200
    PROVE  IInv'
<1>1. at' = "ended" /\ answer' = a
  BY DEF End
<1>2. TypeOK'
  BY <1>1 DEF IInv, TypeOK, AnswerOK, Places
<1>3. CallsCounted'
  BY <1>1 DEF IInv, CallsCounted, CallsBounded, Allowed, Waiting
<1>4. DraftKept' /\ DraftNotLost'
  BY <1>1 DEF DraftKept, DraftNotLost
<1>5. KeyIsSet' /\ NoCallWithoutKey'
  BY <1>1 DEF IInv, KeyIsSet, Waiting, NoCallWithoutKey
<1>6. QED
  BY <1>2, <1>3, <1>4, <1>5 DEF IInv

LEMMA CatchKeeps ==
    ASSUME IInv, Waiting, NEW c \in Causes, NEW retried, Catch(c, retried),
           UNCHANGED <<config, aborted, received>>
    PROVE  IInv'
<1>1. /\ previous \in Drafts \cup {NoDraft} /\ received \in BOOLEAN /\ attempt \in 0..1
      /\ received => previous # NoDraft
  BY DEF IInv, TypeOK, DraftKept, Waiting
<1>2. CASE previous # NoDraft
  <2>1. AnswerOK(Drawn(previous)) /\ Drawn(previous).status = 200
    BY <1>1, <1>2, DrawnOK
  <2>2. QED
    BY <1>1, <1>2, <2>1, EndKeeps DEF Catch
<1>3. CASE previous = NoDraft /\ SecondAttempt(NoDraft) /\ attempt = 0
  BY <1>1, <1>3, SecondAttemptKeeps
<1>4. CASE /\ previous = NoDraft /\ End(ToHttpException(c, retried))
           /\ UNCHANGED <<attempt, try, last, calls, previous>>
  <2>1. AnswerOK(ToHttpException(c, retried))
    BY ClassifiedOK
  <2>2. QED
    BY <1>1, <1>4, <2>1, EndKeeps
<1>5. QED
  BY <1>2, <1>3, <1>4 DEF Catch

LEMMA GenerateKeeps ==
    ASSUME IInv, NEW fields, NEW source, Generate(fields, source)
    PROVE  IInv'
<1>1. /\ at = "idle" /\ ~received /\ calls = 0
      /\ UNCHANGED <<config, attempt, try, previous, aborted, last, received>>
      /\ received' \in BOOLEAN
  BY DEF IInv, DraftKept, CallsCounted, Generate, TypeOK
<1>2. /\ AnswerOK(Drawn({})) /\ AnswerOK(Failed(404, "none", 0))
      /\ AnswerOK(Failed(400, "SEO_NO_CONTENT", 0)) /\ AnswerOK(Failed(503, "AI_NOT_CONFIGURED", 0))
  BY DrawnOK, FailedOK
<1>3. CASE calls' = calls /\ \E a : AnswerOK(a) /\ End(a)
  <2>1. PICK a : AnswerOK(a) /\ End(a)
    BY <1>3
  <2>2. QED
    BY <1>1, <1>3, <2>1, EndKeeps
<1>4. CASE at' = "call" /\ calls' = 1 /\ answer' = answer /\ ~NotConfigured(config)
  <2>1. /\ attempt \in 0..1 /\ try \in 0..MAX_RETRIES
    BY DEF IInv, TypeOK
  <2>2. TypeOK'
    BY <1>1, <1>4 DEF IInv, TypeOK, Places
  <2>3. CallsCounted'
    BY <1>1, <1>4, <2>1 DEF CallsCounted, CallsBounded, Allowed, Waiting
  <2>4. DraftKept' /\ DraftNotLost'
    BY <1>1, <1>4 DEF DraftKept, DraftNotLost
  <2>5. KeyIsSet' /\ NoCallWithoutKey'
    <3>1. ProviderOf(config) \in config.keys /\ config' = config
      BY <1>1, <1>4 DEF NotConfigured
    <3>2. QED
      BY <3>1 DEF KeyIsSet, NoCallWithoutKey, NotConfigured, ProviderOf
  <2>6. QED
    BY <2>2, <2>3, <2>4, <2>5 DEF IInv
<1>5. QED
  BY <1>2, <1>3, <1>4 DEF Generate

LEMMA AnswerKeeps ==
    ASSUME IInv, NEW draft \in Drafts, Answer(draft)
    PROVE  IInv'
<1>1. /\ at = "call" /\ Waiting /\ received' = TRUE /\ attempt \in 0..1 /\ draft # NoDraft
      /\ UNCHANGED <<config, aborted>>
  BY DEF IInv, TypeOK, Answer, Waiting
<1>2. CASE End(Drawn(draft)) /\ UNCHANGED <<attempt, try, last, calls, previous>>
  BY <1>1, <1>2, DrawnOK, EndKeeps
<1>3. CASE attempt = 0 /\ SecondAttempt(draft)
  BY <1>1, <1>3, SecondAttemptKeeps
<1>4. QED
  BY <1>1, <1>2, <1>3 DEF Answer

LEMMA CallFailsKeeps ==
    ASSUME IInv, NEW c \in Failures, CallFails(c)
    PROVE  IInv'
<1>1. at = "call" /\ Waiting /\ UNCHANGED <<config, aborted, received>> /\ c \in Causes
  BY CauseFacts DEF CallFails, Waiting
<1>2. CASE Catch(c, try > 0)
  BY <1>1, <1>2, CatchKeeps
<1>3. CASE /\ try < MAX_RETRIES /\ at' = "backoff" /\ last' = c
           /\ UNCHANGED <<attempt, try, calls, previous, answer>>
  <2>1. TypeOK'
    BY <1>1, <1>3 DEF IInv, TypeOK, Places
  <2>2. CallsCounted'
    BY <1>1, <1>3 DEF IInv, CallsCounted, CallsBounded, Allowed, Waiting
  <2>3. DraftKept' /\ DraftNotLost' /\ KeyIsSet' /\ NoCallWithoutKey'
    BY <1>1, <1>3 DEF IInv, DraftKept, DraftNotLost, KeyIsSet, Waiting, NoCallWithoutKey
  <2>4. QED
    BY <2>1, <2>2, <2>3 DEF IInv
<1>4. QED
  BY <1>2, <1>3 DEF CallFails

LEMMA RetryKeeps ==
    ASSUME IInv, Retry
    PROVE  IInv'
<1>1. /\ at = "backoff" /\ Waiting /\ at' = "call" /\ try' = try + 1 /\ calls' = calls + 1
      /\ UNCHANGED <<config, attempt, previous, aborted, last, answer, received>>
  BY DEF Retry, Waiting
<1>2. /\ try \in 0..MAX_RETRIES /\ try < MAX_RETRIES /\ calls \in Nat /\ calls <= Allowed
      /\ attempt \in 0..1
  BY <1>1 DEF IInv, TypeOK, CallsCounted
<1>3. /\ try' \in 0..MAX_RETRIES /\ calls' \in Nat /\ calls' <= Allowed'
      /\ calls' <= 2 * (MAX_RETRIES + 1)
  BY <1>1, <1>2 DEF Allowed
<1>4. TypeOK'
  BY <1>1, <1>3 DEF IInv, TypeOK, Places
<1>5. CallsCounted'
  BY <1>1, <1>3 DEF CallsCounted, CallsBounded
<1>6. DraftKept' /\ DraftNotLost'
  BY <1>1 DEF IInv, DraftKept, DraftNotLost
<1>7. KeyIsSet' /\ NoCallWithoutKey'
  BY <1>1 DEF IInv, KeyIsSet, Waiting, NoCallWithoutKey, NotConfigured, ProviderOf
<1>8. QED
  BY <1>4, <1>5, <1>6, <1>7 DEF IInv

LEMMA Inductive == Spec => []IInv
<1>1. ASSUME Init PROVE IInv
  <2>1. TypeOK
    <3>1. AnswerOK(NoAnswer)
      BY DEF AnswerOK, NoAnswer
    <3>2. 0 \in 0..MAX_RETRIES /\ 0 \in 0..1 /\ 0 \in Nat
      OBVIOUS
    <3>3. /\ config \in Configs /\ at = "idle" /\ attempt = 0 /\ try = 0
          /\ previous = NoDraft /\ aborted = FALSE /\ last = NoCause
          /\ calls = 0 /\ answer = NoAnswer /\ received = FALSE
      BY <1>1 DEF Init
    <3>4. /\ config \in Configs /\ at \in Places
          /\ previous \in Drafts \cup {NoDraft} /\ last \in Failures \cup {NoCause}
          /\ aborted \in BOOLEAN /\ received \in BOOLEAN
      BY <3>3, Zenon DEF Places
    <3>5. attempt \in 0..1 /\ try \in 0..MAX_RETRIES /\ calls \in Nat
      BY <3>2, <3>3
    <3>6. AnswerOK(answer)
      BY <3>1, <3>3, Zenon
    <3>7. QED
      BY <3>4, <3>5, <3>6, Zenon DEF TypeOK, AnswerOK
  <2>2. CallsCounted
    BY <1>1 DEF Init, CallsCounted, CallsBounded, Waiting
  <2>3. DraftKept /\ DraftNotLost /\ KeyIsSet /\ NoCallWithoutKey
    BY <1>1 DEF Init, DraftKept, DraftNotLost, KeyIsSet, NoCallWithoutKey, Waiting
  <2>4. QED
    BY <2>1, <2>2, <2>3 DEF IInv
<1>2. ASSUME IInv, [Next]_vars PROVE IInv'
  <2>1. ASSUME NEW fields, NEW source, Generate(fields, source) PROVE IInv'
    BY <1>2, <2>1, GenerateKeeps
  <2>2. CASE Timeout
    <3>1. /\ aborted' = TRUE
          /\ UNCHANGED <<config, at, attempt, try, previous, last, calls, answer, received>>
      BY <2>2 DEF Timeout
    <3>2. QED
      BY <1>2, <3>1 DEF IInv, TypeOK, CallsCounted, CallsBounded, Allowed, Waiting, DraftKept,
                        DraftNotLost, KeyIsSet, NoCallWithoutKey
  <2>3. CASE Misfit
    BY <1>2, <2>3, CatchKeeps, CauseFacts DEF Misfit, Waiting
  <2>4. CASE Retry
    BY <1>2, <2>4, RetryKeeps
  <2>5. CASE CutOff
    BY <1>2, <2>5, CatchKeeps, CauseFacts DEF CutOff, Waiting
  <2>6. ASSUME NEW draft \in Drafts, Answer(draft) PROVE IInv'
    BY <1>2, <2>6, AnswerKeeps
  <2>7. ASSUME NEW c \in Failures, CallFails(c) PROVE IInv'
    BY <1>2, <2>7, CallFailsKeeps
  <2>8. CASE UNCHANGED vars
    BY <1>2, <2>8 DEF vars, IInv, TypeOK, CallsCounted, CallsBounded, Allowed, Waiting,
                      DraftKept, DraftNotLost, KeyIsSet, NoCallWithoutKey
  <2>9. QED
    BY <1>2, <2>1, <2>2, <2>3, <2>4, <2>5, <2>6, <2>7, <2>8 DEF Next
<1>3. QED
  BY <1>1, <1>2, PTL DEF Spec

-----------------------------------------------------------------------------
(* Theorems.                                                               *)

(* Every answer is of a known status, with a whole number of seconds to    *)
(* wait and warnings that the review knows.                                *)
THEOREM TypeCorrect == Spec => []TypeOK
  BY Inductive, PTL DEF IInv

(* However many retries the SDK is given, the correction gets one round of *)
(* them and no more.                                                       *)
THEOREM CallsAreBounded == Spec => []CallsBounded
  BY Inductive, PTL DEF IInv, CallsCounted

(* A draft that came back survives every failure of its correction.        *)
THEOREM DraftIsNotLost == Spec => []DraftNotLost
  BY Inductive, PTL DEF IInv

(* No call leaves for a provider that has no key.                          *)
THEOREM CallsNeedKey == Spec => []NoCallWithoutKey
  BY Inductive, PTL DEF IInv

(* A rate limit that ends a request is told as one, with a wait that is    *)
(* rounded up.                                                             *)
THEOREM RateLimitTold == Spec => RateLimitIsTold
<1> DEFINE Told ==
        \A c \in Failures :
            /\ CallFails(c) /\ at' = "ended" /\ previous = NoDraft
            /\ c.class = "api" /\ c.status = 429 /\ ~IsAbortError(c)
            => answer'.status = 429 /\ answer'.retryAfter * 1000 >= c.after
<1>1. Told
  <2>1. SUFFICES ASSUME NEW c \in Failures, CallFails(c), at' = "ended", previous = NoDraft,
                        c.class = "api", c.status = 429, ~IsAbortError(c)
                 PROVE  answer'.status = 429 /\ answer'.retryAfter * 1000 >= c.after
    BY Zenon
  <2>2. c.after \in Nat /\ RetryAfterSeconds(c.after) \in Nat
    BY CauseFacts, RoundedUp
  <2>3. answer' = ToHttpException(c, try > 0)
    BY <2>1 DEF CallFails, Catch, SecondAttempt, End
  <2>4. ToHttpException(c, try > 0) = Failed(429, "AI_RATE_LIMITED", RetryAfterSeconds(c.after))
    BY <2>1 DEF ToHttpException, Classify
  <2>5. QED
    BY <2>2, <2>3, <2>4, FailedOK, RoundedUp
<1>2. QED
  BY <1>1, PTL DEF Spec, RateLimitIsTold
=============================================================================
