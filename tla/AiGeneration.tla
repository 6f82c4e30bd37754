----------------------------- MODULE AiGeneration -----------------------------
(***************************************************************************)
(* One generation of SEO fields: AiService.run and the model registry,     *)
(* over a provider that may answer, fail or hang, the retry of the SDK and *)
(* one abort timer for everything.                                         *)
(***************************************************************************)
EXTENDS Integers, FiniteSets

CONSTANTS
    Providers,      \* AiProvider
    Drafts,         \* sets of defects that a valid object may have
    Failures,       \* causes that a call of the provider may fail with
    NoDraft, NoCause,
    MAX_RETRIES,    \* retries of the SDK within one attempt
    MAX_CAUSE_DEPTH

Advisory   == {"short", "keywords"}
Correctable == {"long", "markup", "language"}
Defects    == Advisory \cup Correctable

(* A cause is of class "api", "invalid" (NoObjectGeneratedError) or        *)
(* "other"; abortAt is the depth at which an AbortError or TimeoutError is *)
(* nested in it, -1 when there is none; after is what its Retry-After      *)
(* headers ask for, in milliseconds, 0 when they are absent.               *)
Causes == [class: {"api", "invalid", "other"}, status: {0, 400, 401, 403, 429, 500},
           abortAt: -1..MAX_CAUSE_DEPTH + 1, after: Nat]
Aborted == [class |-> "other", status |-> 0, abortAt |-> 0, after |-> 0]
Invalid == [class |-> "invalid", status |-> 0, abortAt |-> -1, after |-> 0]

ASSUME ConstantsAssumption ==
    /\ Drafts \subseteq SUBSET Defects /\ NoDraft \notin Drafts
    /\ Failures \subseteq Causes /\ NoCause \notin Causes
    /\ MAX_RETRIES \in Nat /\ MAX_CAUSE_DEPTH \in Nat

VARIABLES
    config,         \* ai.provider, ai.model and the keys that are set
    at,             \* where the request is
    attempt, try,   \* index of the loop of run, and of the SDK's inside it
    previous,       \* a valid draft that is being corrected
    aborted,        \* abortSignal.aborted
    last,           \* what the SDK's last try failed with, when it retries
    calls,          \* HTTP calls sent to the provider
    answer,
    received        \* history: a valid draft has come back

vars == <<config, at, attempt, try, previous, aborted, last, calls, answer, received>>

(* A call is refused when the signal had fired before it was made.         *)
Places == {"idle", "call", "refused", "backoff", "ended"}
NoAnswer == [status |-> 0, code |-> "none", retryAfter |-> 0, warnings |-> {}]

(* The prefix of AI_MODEL, "none" when it has none; it may name a provider *)
(* that there is not.                                                      *)
Configs == [provider: Providers, prefix: Providers \cup {"none", "unknown"},
            keys: SUBSET Providers]

TypeOK ==
    /\ config \in Configs
    /\ at \in Places
    /\ attempt \in 0..1 /\ try \in 0..MAX_RETRIES
    /\ previous \in Drafts \cup {NoDraft}
    /\ aborted \in BOOLEAN /\ received \in BOOLEAN
    /\ last \in Failures \cup {NoCause}
    /\ calls \in Nat
    /\ answer.status \in {0, 200, 400, 404, 429, 502, 503, 504}
    /\ answer.retryAfter \in Nat /\ answer.warnings \subseteq Defects

-----------------------------------------------------------------------------
(* AiModelRegistry.                                                        *)


ProviderOf(c) ==
    IF c.prefix = "none" THEN c.provider ELSE c.prefix

NotConfigured(c) == ProviderOf(c) \notin c.keys

-----------------------------------------------------------------------------
(* Classification of what an attempt failed with.                          *)

IsAbortError(c) == c.abortAt \in 0..MAX_CAUSE_DEPTH

RetryAfterSeconds(ms) == (ms + 999) \div 1000

Failed(status, code, after) ==
    [status |-> status, code |-> code, retryAfter |-> after, warnings |-> {}]

Classify(c) ==
    IF IsAbortError(c) THEN Failed(504, "AI_TIMEOUT", 0)
    ELSE IF c.class = "api" THEN
        IF c.status \in {401, 403} THEN Failed(503, "AI_KEY_REJECTED", 0)
        ELSE IF c.status = 429
        THEN Failed(429, "AI_RATE_LIMITED", RetryAfterSeconds(c.after))
        ELSE Failed(502, "AI_PROVIDER_ERROR", 0)
    ELSE IF c.class = "invalid" THEN Failed(502, "AI_INVALID_OUTPUT", 0)
    ELSE Failed(502, "AI_GENERATION_FAILED", 0)

(* RetryError stands for its lastError.                                    *)
ToHttpExceptionWrapped(c, retried) ==   \* mutant: RetryError not unwrapped
    IF retried THEN Failed(502, "AI_GENERATION_FAILED", 0) ELSE Classify(c)
ToHttpException(c, retried) == Classify(c)

Drawn(draft) == [status |-> 200, code |-> "none", retryAfter |-> 0, warnings |-> draft]

(* reviewSeoMetadata warns of every defect, needsCorrection of some.       *)
NeedsCorrection(draft) == draft \cap Correctable # {}

-----------------------------------------------------------------------------
Init ==
    /\ config \in Configs
    /\ at = "idle" /\ attempt = 0 /\ try = 0
    /\ previous = NoDraft /\ aborted = FALSE /\ last = NoCause
    /\ calls = 0 /\ answer = NoAnswer /\ received = FALSE

End(a) == at' = "ended" /\ answer' = a

(* POST /ai/seo-metadata, or /seo/:type/:id/generate, which looks for the  *)
(* material and its text first.  An empty list of fields asks for nothing. *)
Generate(fields, source) ==
    /\ at = "idle"
    /\ IF fields = {} THEN End(Drawn({})) /\ UNCHANGED calls
       ELSE IF source = "missing" THEN End(Failed(404, "none", 0)) /\ UNCHANGED calls
       ELSE IF source = "blank" THEN End(Failed(400, "SEO_NO_CONTENT", 0)) /\ UNCHANGED calls
       ELSE IF NotConfigured(config)
       THEN End(Failed(503, "AI_NOT_CONFIGURED", 0)) /\ UNCHANGED calls
       ELSE at' = "call" /\ calls' = 1 /\ UNCHANGED answer
    /\ UNCHANGED <<config, attempt, try, previous, aborted, last, received>>

(* AbortSignal.timeout(GENERATION_TIMEOUT_MS)                              *)
Timeout ==
    /\ at \in {"call", "backoff"} /\ ~aborted
    /\ aborted' = TRUE
    /\ UNCHANGED <<config, at, attempt, try, previous, last, calls, answer, received>>

(* generateObject of the next attempt: a fetch with an aborted signal is   *)
(* rejected before anything is sent.                                       *)
SecondAttempt(draft) ==
    /\ attempt' = 1 /\ try' = 0 /\ last' = NoCause /\ previous' = draft
    /\ at' = IF aborted THEN "refused" ELSE "call"
    /\ calls' = IF aborted THEN calls ELSE calls + 1
    /\ UNCHANGED answer

(* What the catch of an attempt does with a cause.                         *)
CatchForgets(c, retried) ==     \* mutant: previous is not returned
    IF attempt = 0 /\ c.class = "invalid" /\ ~aborted THEN SecondAttempt(NoDraft)
    ELSE End(ToHttpException(c, retried)) /\ UNCHANGED <<attempt, try, last, calls, previous>>
CatchAlways(c, retried) ==      \* mutant: the index of the attempt is not looked at
    IF previous # NoDraft
    THEN End(Drawn(previous)) /\ UNCHANGED <<attempt, try, last, calls, previous>>
    ELSE IF c.class = "invalid" /\ ~aborted THEN SecondAttempt(NoDraft)
    ELSE End(ToHttpException(c, retried)) /\ UNCHANGED <<attempt, try, last, calls, previous>>
Catch(c, retried) ==
    IF previous # NoDraft
    THEN End(Drawn(previous)) /\ UNCHANGED <<attempt, try, last, calls, previous>>
    ELSE IF attempt = 0 /\ c.class = "invalid" /\ ~aborted THEN SecondAttempt(NoDraft)
    ELSE End(ToHttpException(c, retried)) /\ UNCHANGED <<attempt, try, last, calls, previous>>

(* A valid object; the answer may win against the timer.                   *)
Answer(draft) ==
    /\ at = "call"
    /\ received' = TRUE
    /\ IF attempt = 1 \/ ~NeedsCorrection(draft)
       THEN End(Drawn(draft)) /\ UNCHANGED <<attempt, try, last, calls, previous>>
       ELSE SecondAttempt(draft)
    /\ UNCHANGED <<config, aborted>>

Misfit ==
    /\ at = "call"
    /\ Catch(Invalid, FALSE)
    /\ UNCHANGED <<config, aborted, received>>

(* The SDK tries again what may go away, and wraps what fails then.        *)
Retryable(c) == c.class = "api" /\ c.status \in {0, 429, 500}

CallFails(c) ==
    /\ at = "call"
    /\ IF Retryable(c) /\ try < MAX_RETRIES
       THEN /\ at' = "backoff" /\ last' = c
            /\ UNCHANGED <<attempt, try, calls, previous, answer>>
       ELSE Catch(c, try > 0)
    /\ UNCHANGED <<config, aborted, received>>

Retry ==
    /\ at = "backoff" /\ ~aborted
    /\ at' = "call" /\ try' = try + 1 /\ calls' = calls + 1
    /\ UNCHANGED <<config, attempt, previous, aborted, last, answer, received>>

(* A call or a pause that the signal cuts off.                             *)
CutOffFirst ==      \* mutant: the correction is sent without abortSignal
    /\ at \in {"call", "refused", "backoff"} /\ aborted /\ attempt = 0
    /\ Catch(Aborted, FALSE)
    /\ UNCHANGED <<config, aborted, received>>
CutOff ==
    /\ at \in {"call", "refused", "backoff"} /\ aborted
    /\ Catch(Aborted, FALSE)
    /\ UNCHANGED <<config, aborted, received>>

Next ==
    \/ \E fields \in {{}, {"metaTitle"}}, source \in {"text", "blank", "missing"} :
            Generate(fields, source)
    \/ Timeout \/ Misfit \/ Retry \/ CutOff
    \/ \E draft \in Drafts : Answer(draft)
    \/ \E c \in Failures : CallFails(c)

Spec == Init /\ [][Next]_vars
(* The timer fires and an aborted call is rejected; the provider owes      *)
(* nothing.                                                                *)
FairSpec == Spec /\ WF_vars(Timeout) /\ WF_vars(CutOff)

-----------------------------------------------------------------------------
(* Properties.                                                             *)

(* Two attempts of one call and one retry each, whatever comes back.       *)
CallsBounded == calls <= 2 * (MAX_RETRIES + 1)

(* Once a valid draft has come back, no error of its correction and no     *)
(* timeout can turn the answer into a failure.                             *)
DraftNotLost == received /\ at = "ended" => answer.status = 200

(* Nothing is sent to a provider whose key is not set, the one that a      *)
(* prefix names included.                                                  *)
NoCallWithoutKey ==
    calls > 0 =>
        IF config.prefix = "none" THEN config.provider \in config.keys
        ELSE config.prefix \in config.keys

(* A rate limit that makes a request fail is answered as one, after the    *)
(* SDK's own retry too, and never asks to wait less than the provider did. *)
RateLimitIsTold ==
    [][\A c \in Failures :
        /\ CallFails(c) /\ at' = "ended" /\ previous = NoDraft
        /\ c.class = "api" /\ c.status = 429 /\ ~IsAbortError(c)
        => answer'.status = 429 /\ answer'.retryAfter * 1000 >= c.after]_vars

(* Every request is answered, even if the provider never says a word.      *)
EveryRequestEnds == at = "call" ~> at = "ended"
=============================================================================
