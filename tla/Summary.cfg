CONSTANTS
    AnyValue = AnyValue
    Never = Never
    Live = Live
    Wallet = "w1"
    Zero <- LongPast
    FirstAccounts <- OneWallet
    NewAccounts <- ToCome
    Largest = 1
    Moves = 2
    MaxTime = 1
    maxPageSize = 1
SPECIFICATION Spec
INVARIANTS ErrorWithinMoves QuietSummaryExact TotalsByExpiry
CHECK_DEADLOCK FALSE
