CONSTANTS
    g1 = g1
    g2 = g2
    k1 = k1
    NoExpiry = NoExpiry
    NoSession = NoSession
    NoKey = NoKey
    NoRetries = NoRetries
    Unset = Unset
    NoTimeout = NoTimeout
    NoAnswer = NoAnswer
    NoOperation = NoOperation
    Callers = {g1, g2}
    Scopes <- OAuthScopes
    Margin = 1
    HTTPTimeout = 1
    Lifetimes = {2}
    Secured = TRUE
    MaxTime = 8
    Calls = {"GetServerInfo", "VoidHold"}
    Keys = {k1}
    GlobalRetries = NoRetries
    RetryOptions <- FullRetries
    TimeLimits <- Unlimited
    Intervals = {1}
    MaxElapsed = 1
    LastStart = 0
SPECIFICATION Spec
INVARIANTS ReusedTokenOutlivesRequest TokenCoversRequest TypeOK AckMeansDone OneEffectPerKey
SYMMETRY Interchangeable
CHECK_DEADLOCK FALSE
