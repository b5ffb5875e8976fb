CONSTANTS
    g1 = g1
    g2 = g2
    k1 = k1
    NoExpiry = NoExpiry
    NoSession = NoSession
    NoKey = NoKey
    NoRetries = NoRetries
    Unset = Unset
    NoTimeout = NoTimeout
    NoAnswer = NoAnswer
    NoOperation = NoOperation
    Callers = {g1}
    Scopes <- OAuthScopes
    Margin = 1
    HTTPTimeout = 1
    Lifetimes = {3}
    Secured = TRUE
    MaxTime = 8
    Calls <- Operations
    Keys = {k1}
    GlobalRetries = NoRetries
    RetryOptions <- RetryConfigurations
    TimeLimits <- Limits
    Intervals = {1, 2}
    MaxElapsed = 2
    LastStart = 0
SPECIFICATION FairSpec
INVARIANTS SuccessIsUnderstood UnretriedOnce CallDuration
PROPERTIES EveryCallReturns SessionSpec
CHECK_DEADLOCK FALSE
