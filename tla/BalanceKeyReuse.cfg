CONSTANTS
    k1 = k1
    k2 = k2
    a0 = a0
    a1 = a1
    a2 = a2
    NoKey = NoKey
    Never = Never
    None = None
    Accounts = {a0, a1, a2}
    Names = {"main", "ma-in", "gift-card", "giftcard", "vouchers", "gift card"}
    ValidNames = {"main", "ma-in", "gift-card", "giftcard", "vouchers"}
    Main = "main"
    AccountOf <- MCAccountOf
    Keys = {k1, k2}
    Expiries = {5, 7}
    Priorities = {1, 2}
    Handlers = {h1, h2}
    Requests <- ReusedKeyRequests
    MaxReceived = 4
SPECIFICATION Spec
INVARIANT RepliesMatchRequests
CHECK_DEADLOCK FALSE
