\* A request, pairs that are paused, resumed, locked and traded.
SPECIFICATION RouterSpec
CONSTANTS
    ab = ab
    bc = bc
    ac = ac
    r1 = r1
    BasePoints = 100000
    Fee = 300
    Pairs = {ab, bc, ac}
    Ends <- MCEnds
    ReserveSets <- MCReserveSets
    Swaps <- MCSwaps
    Locked = {bc}
    RouteRequests = {r1}
    MaxChanges = 3
    MaxTrades = 1
    MaxErrors = 1
INVARIANTS
    AllPathsFound
    BestOfAll
    SkipsOnlyWhenStale
    QuoteSuffices
