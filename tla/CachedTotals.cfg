\* A vote and a veto, of which the first one's record is followed.
SPECIFICATION FairSpec
CONSTANTS
    Kinds = {"down", "veto"}
    Voters = {1}
    MaxEvents = 2
    MaxFailures = 1
INVARIANTS
    TotalsAddUp
    OnlyKnownDeviations
    AckedAreAnnounced
PROPERTIES
    EventuallyExact
\* The contract rests.
CHECK_DEADLOCK FALSE
