SPECIFICATION FairSpec
CONSTANTS
    Providers = {"anthropic", "openai"}
    Drafts <- AllDrafts
    Failures <- AllFailures
    NoDraft = NoDraft
    NoCause = NoCause
    MAX_RETRIES = 1
    MAX_CAUSE_DEPTH = 3
INVARIANTS CallsBounded DraftNotLost
PROPERTIES RateLimitIsTold EveryRequestEnds
CHECK_DEADLOCK FALSE
