\* Two calls about the head of the chain or a timestamp of the past.
SPECIFICATION FairSpec
CONSTANTS
    Calls = {1, 2}
    Timestamps = {"head", "past"}
    Head = "head"
    MaxAttempts = 2
    MaxRequests = 3
    MaxFailures = 2
INVARIANTS
    CallsAreShared
    WrongOnlyByJoining
PROPERTIES
    ImplementsSharedQuery
    CallsEnd
\* No more calls when all requests are made.
CHECK_DEADLOCK FALSE
