\* Exceptions, crashes, failed writes, failed reads of the list of pairs and lost channels,
\* which leave calls running next to the redelivered one.
SPECIFICATION FairSpec
CONSTANTS
    p1 = p1
    p2 = p2
    h1 = h1
    h2 = h2
    token = token
    Pairs = {p1, p2}
    Token = token
    Blocks <- MCBlocks
    Listed = {p1}
    Handlers = {h1, h2}
    MaxBlocks = 2
    MaxFailures = 2
    MaxRefreshFailures = 1
    MaxWriteFailures = 1
    MaxReconnects = 1
INVARIANTS
    TypeOK
PROPERTIES
    ImplementsLedger
    QueueDrains

\* The chain stops after MaxBlocks; a consumer with nothing to do is no deadlock.
CHECK_DEADLOCK FALSE
