\* One instance, every kind of failure.
SPECIFICATION FairSpec
CONSTANTS
    w1 = w1
    w2 = w2
    Procs = {w1}
    Delay = 1
    BlockLogs <- MCBlockLogs
    IndexLag = 1
    MaxTime = 5
    MaxFailures = 1
    MaxWriteFailures = 1
    MaxExpiries = 1
INVARIANTS
    ExactOrMissing
    NoGaps
PROPERTIES
    CatchesUp
\* The chain stops at MaxTime.
CHECK_DEADLOCK FALSE
