\* A failed refresh of the filter loses the swaps of every pair.
SPECIFICATION Spec
CONSTANTS
    p1 = p1
    p2 = p2
    h1 = h1
    h2 = h2
    token = token
    Pairs = {p1, p2}
    Token = token
    Blocks <- MCBlocks
    Listed = {p1}
    Handlers = {h1}
    MaxBlocks = 2
    MaxFailures = 0
    MaxRefreshFailures = 1
    MaxWriteFailures = 0
    MaxReconnects = 0
INVARIANTS
    AcknowledgedIsRecorded
