CONSTANTS
    AnyValue = AnyValue
    NoPageSize = NoPageSize
    NotANumber = NotANumber
    Garbled = Garbled
    Live = Live
    Requests <- EveryList
    PageSizes <- Sizes
    defaultLimit = 1
    maxPageSize = 2
    FirstAccounts <- ThreeOfEach
    NewAccounts <- Created
    Spots = {1, 4, 9}
    Patches <- VipOrNot
    NewTransactions <- Posted
    Changes = 3
SPECIFICATION Spec
INVARIANTS ListedOnce PagesBounded
PROPERTIES OnlyWhatWasAsked
CHECK_DEADLOCK FALSE
