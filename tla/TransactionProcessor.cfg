\* Throwing runs, transactions that do not decode, expired timestamps, a late index, full pages.
SPECIFICATION FairSpec
CONSTANTS
    BlockTxs <- MCBlockTxs
    PageSize = 2
    IndexLag = 1
    TtlPeriods = 3
    MaxRunPeriods = 1
    MaxTime = 4
    MaxFailures = 2
INVARIANTS
    NoGaps
    ObservedOnce
PROPERTIES
    PassedIsFinal
    CatchesUp
\* The chain stops at MaxTime.
CHECK_DEADLOCK FALSE
