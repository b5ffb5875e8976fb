CONSTANTS
    k1 = k1
    k2 = k2
    w1 = w1
    w2 = w2
    w3 = w3
    color = color
    plan = plan
    red = red
    blue = blue
    NoKey = NoKey
    Nil = Nil
    None = None
    Ids = {w1, w2, w3}
    Keys = {k1, k2}
    IdOf <- MCIdOf
    Names = {"alice", "bob"}
    Fields = {color, plan}
    Values = {red, blue}
    Handlers = {h1, h2}
    Requests <- WalletRequests
    MaxReceived = 4
    MaxTime = 1
SPECIFICATION Spec
INVARIANTS TypeOK RepliesMatchRequests ConflictsAreReal EffectOncePerKey
PROPERTIES ImplementsIdempotentCreate IdentityImmutable PatchInForce
SYMMETRY Interchangeable
CHECK_DEADLOCK FALSE
