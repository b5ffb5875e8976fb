SPECIFICATION Spec
CONSTANTS
    Balances = {"main", "bonus", "gift", "spare"}
    Created = {"main", "bonus", "gift"}
    Main = "main"
    World = "world"
    HoldIds = {"hold1", "hold2", "hold3"}
    Keys = {"k1", "k2"}
    NoKey = NoKey
    HoldIdOf <- MCHoldIdOf
    Expiry <- MCExpiry
    Never = Never
    Priority <- MCPriority
    None = None
    Handlers = {p1, p2}
    Requests <- SettleRequests
    Word = 16
    MaxReceived = 6
    MaxTime = 1
SYMMETRY HandlerSymmetry
CHECK_DEADLOCK FALSE
INVARIANTS Inv FundsConserved AnswersTruthful
PROPERTIES ClosedForever ImplementsEscrow
