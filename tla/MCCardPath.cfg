SPECIFICATION Spec
CONSTANTS
    bliztContract = "blizt"
    cardsContract = "cards"
    fuelContracts <- MCFuel
    BURN_ADDRESS = "zero"
    Receipts <- MCReceipts
    Users <- MCUsers
    CardIds <- MCCardIds
    AttributesOf <- MCAttributesOf
    concurrency = 2
    MaxRepeats = 1
    Undefined = Undefined
INVARIANTS
    TypeOK
    LogsRecorded
    CardsFetched
    AttributesKept
CHECK_DEADLOCK FALSE
