\* Two messages of one contact, a balance for one turn, two workers, one fault.
CONSTANTS
    m1 = m1
    m2 = m2
    alice = alice
    NoTurn = NoTurn
    Msgs <- AllMsgs
    Contacts <- People
    ContactOf <- SameContact
    MaxDeliveries = 1
    Attempts = 3
    Metered = TRUE
    StartBalance = 1
    Bridged <- OneMsg
    Streamed = {}
    Memory = TRUE
    Workers = 2
    MaxUpdates = 2
    MaxFaults = 1
SPECIFICATION Spec
INVARIANTS
    TypeOK
    OverdraftIsBounded
    OnlyRacersFail
PROPERTIES
    ToolCallsStayInTheThread
    KeepsContract
CHECK_DEADLOCK FALSE
