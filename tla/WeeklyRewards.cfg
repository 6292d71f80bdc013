SPECIFICATION Spec
CONSTANTS
    LockOptions <- MCLockOptions
    MaxPenalty = 100
    EpochsInMonth = 2
    EpochsInWeek = 2
    MaxClaimWeeks = 2
    FirstEpoch = 1
    Weeks = 4
    Locked = 1
    MaxRelocks = 1
    LastActivity = 3
INVARIANTS
    EnergyNeverOverstated
    ExactWhenAlone
    
PROPERTIES
    OneClaimant
    PenaltyOnlyFalls

\* The chain stops after the last week.
CHECK_DEADLOCK FALSE
