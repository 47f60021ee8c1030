\* Two follow-ups, one addressed; a cap of one, one change to the settings after they
\* are switched on, two faults, and two runs that could overlap.
CONSTANTS
    Last = 2
    Addressed <- OddOnes
    Runs = {1, 2}
    MaxPerDay = 1
    MaxEdits = 2
    MaxFaults = 2
SPECIFICATION FairSpec
INVARIANTS
    TypeOK
    ToldOnce
    SwitchOffHolds
PROPERTIES
    DueIsTakenUp
CHECK_DEADLOCK FALSE
