\* One message of a metered tenant, delivered twice, streamed, one fault.
CONSTANTS
    m1 = m1
    m2 = m2
    alice = alice
    NoTurn = NoTurn
    Msgs <- OneMsg
    Contacts <- People
    ContactOf <- SameContact
    MaxDeliveries = 2
    Attempts = 3
    Metered = TRUE
    StartBalance = 1
    Bridged = {}
    Streamed <- OneMsg
    Memory = FALSE
    Workers = 2
    MaxUpdates = 2
    MaxFaults = 1
SPECIFICATION FairSpec
INVARIANTS
    RowsTellTheTruth
    NoTwins
PROPERTIES
    EveryRunCloses
    EveryMessageIsHeard
CHECK_DEADLOCK FALSE
