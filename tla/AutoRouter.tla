-------------------------------- MODULE AutoRouter --------------------------------
(***************************************************************************)
(* AutoRouterService: the best route of a swap over the active pairs.      *)
(* Paths come from a graph of the pairs that GraphService keeps for the    *)
(* process, and are cached; amounts come from the reserves a request read. *)
(*                                                                         *)
(* A cached list of paths is kept as the set of pairs its graph was built  *)
(* from.  Two pairs never trade the same tokens.                           *)
(***************************************************************************)
EXTENDS PairMath, Sequences, SequencesExt, FiniteSets

CONSTANTS
    Pairs,         \* addresses of the pairs
    Ends,          \* Ends[p]: the first and the second token of p
    ReserveSets,   \* what the reserves of a pair may be; none is empty
    Swaps,         \* swaps asked for: type, tokens and amount
    Locked,        \* pairs whose tokens are locked until an epoch
    RouteRequests, \* requests in progress at once
    MaxChanges,    \* bound: changes of the state of a pair
    MaxTrades,     \* bound: changes of reserves
    MaxErrors      \* bound: failing requests

Routes == {<<s.tokenIn, s.tokenOut>> : s \in Swaps}
Tokens == UNION {{Ends[p][1], Ends[p][2]} : p \in Pairs}

ASSUME AutoRouterAssumption ==
    /\ \A p, q \in Pairs : {Ends[p][1], Ends[p][2]} = {Ends[q][1], Ends[q][2]} => p = q
    /\ \A p \in Pairs : Ends[p] = <<Ends[p][1], Ends[p][2]>> /\ Ends[p][1] # Ends[p][2]
    /\ IsFiniteSet(Pairs)
    /\ ReserveSets \subseteq (Nat \ {0}) \X (Nat \ {0})
    /\ \A s \in Swaps :
         s.type \in {"fixedInput", "fixedOutput"} /\ s.amount \in Nat
    /\ {MaxChanges, MaxTrades, MaxErrors} \subseteq Nat

VARIABLES
    active,      \* the active pairs
    reserves,    \* reserves[p]
    locked,      \* the pairs whose tokens are locked
    graph,       \* GraphService.instance: the pairs it was built from
    cached,      \* cached[r]: the graph the cached paths of route r came from
    request,
    changes, trades, errors

routerVars == <<active, reserves, locked, graph, cached, request, changes, trades, errors>>

NoSwap == [type |-> "none", tokenIn |-> "none", tokenOut |-> "none", amount |-> 0]

\* A request knows the pairs that were active, the reserves read so far, the graph
\* of its paths, and the route it answered with.
Idle == [pc |-> "idle", swap |-> NoSwap, pairs |-> {}, info |-> <<>>, graph |-> {}, route |-> <<>>]

--------------------------------------------------------------------------------
(* GraphService                                                            *)

\* Tokens that a pair trades with a token.
Adjacent(pairs, token) ==
    {Ends[p][1] : p \in {p \in pairs : Ends[p][2] = token}}
        \cup {Ends[p][2] : p \in {p \in pairs : Ends[p][1] = token}}

\* The tokens a search meets.
Nodes(source) == Tokens \cup {source}

\* Fault: of the neighbours of a token only the first is followed.
PathsFirst(pairs, source, destination) ==
    LET search[node \in (SUBSET Nodes(source)) \X Nodes(source)] ==
            LET visited == node[1] \cup {node[2]}
                next == Adjacent(pairs, node[2]) \ visited IN
            IF node[2] = destination THEN {<<node[2]>>}
            ELSE IF next = {} THEN {}
            ELSE {<<node[2]>> \o path : path \in search[<<visited, CHOOSE t \in next : TRUE>>]}
    IN search[<<{}, source>>]

\* getAllPathsUtil: the depth first search from a token, with the tokens visited.
Paths(pairs, source, destination) ==
    LET search[node \in (SUBSET Nodes(source)) \X Nodes(source)] ==
            LET visited == node[1] \cup {node[2]} IN
            IF node[2] = destination THEN {<<node[2]>>}
            ELSE {<<node[2]>> \o path : path \in
                     UNION {search[<<visited, next>>] :
                              next \in Adjacent(pairs, node[2]) \ visited}}
    IN search[<<{}, source>>]

\* getInstance: the graph is built again when the number of pairs has changed.
Instance(pairs) == IF Cardinality(graph) # Cardinality(pairs) THEN pairs ELSE graph

--------------------------------------------------------------------------------
(* AutoRouterComputeService                                                *)

\* Fault: a pair is found in one direction only.
PairByTokensForward(pairs, tokenIn, tokenOut) == {p \in pairs : Ends[p] = <<tokenIn, tokenOut>>}

\* getPairByTokens: the pair of two tokens, if it is among the pairs.
PairByTokens(pairs, tokenIn, tokenOut) ==
    {p \in pairs : Ends[p] = <<tokenIn, tokenOut>> \/ Ends[p] = <<tokenOut, tokenIn>>}

\* The hops of a path for which a pair is found; the others are skipped.
Hops(pairs, path) ==
    LET hops[n \in 0..(Len(path) - 1)] ==
            IF n = 0 THEN <<>>
            ELSE IF PairByTokens(pairs, path[n], path[n + 1]) = {} THEN hops[n - 1]
            ELSE Append(hops[n - 1], <<path[n], path[n + 1]>>)
    IN hops[Len(path) - 1]

\* getAddressRoute
AddressRoute(pairs, path) ==
    LET hops == Hops(pairs, path)
    IN [i \in DOMAIN hops |->
          CHOOSE p \in pairs : p \in PairByTokens(pairs, hops[i][1], hops[i][2])]

\* getOrderedReserves, for every hop; info holds the reserves of the pairs.
OrderedReserves(pairs, info, path) ==
    LET hops == Hops(pairs, path) route == AddressRoute(pairs, path)
    IN [i \in DOMAIN hops |-> IF Ends[route[i]][1] = hops[i][1] THEN info[route[i]]
                              ELSE <<info[route[i]][2], info[route[i]][1]>>]

\* computeIntermediaryAmounts: the amounts after each hop, from the one paid in at 0.
\* Of a fixed output 0 stands for 'Infinity'.
AmountsFixedInput(amountIn, both) ==
    LET amount[i \in 0..Len(both)] ==
            IF i = 0 THEN amountIn
            ELSE GetAmountOut(amount[i - 1], both[i][1], both[i][2])
    IN amount

AmountsFixedOutput(amountOut, both) ==
    LET amount[i \in 0..Len(both)] ==
            IF i = Len(both) THEN amountOut
            ELSE IF amount[i + 1] = 0 THEN 0
            ELSE GetAmountIn(amount[i + 1], both[i + 1][1], both[i + 1][2])
    IN amount

Result(r, path) ==
    LET both == OrderedReserves(r.pairs, r.info, path) IN
    IF r.swap.type = "fixedInput" THEN AmountsFixedInput(r.swap.amount, both)[Len(both)]
                                  ELSE AmountsFixedOutput(r.swap.amount, both)[0]

Better(type, one, other) ==
    IF type = "fixedInput" THEN one > other ELSE one # 0 /\ (other = 0 \/ one < other)

\* Fault: the shortest path is taken for the best one.
ShortestPaths(r) ==
    LET paths == Paths(r.graph, r.swap.tokenIn, r.swap.tokenOut) IN
    {path \in paths : Result(r, path) # 0 /\ \A other \in paths : Len(path) <= Len(other)}

\* getBestAmountAndIndex; of paths with the same result any one.
BestPaths(r) ==
    LET paths == Paths(r.graph, r.swap.tokenIn, r.swap.tokenOut)
        result == [path \in paths |-> Result(r, path)] IN
    {path \in paths :
        result[path] # 0 /\ \A other \in paths : ~Better(r.swap.type, result[other], result[path])}

--------------------------------------------------------------------------------
RouterInit ==
    /\ active = Pairs
    /\ reserves \in [Pairs -> ReserveSets]
    /\ locked = Locked
    /\ graph = {} /\ cached = <<>>
    /\ request = [r \in RouteRequests |-> Idle]
    /\ changes = 0 /\ trades = 0 /\ errors = 0

\* A map with one more entry.
With(map, key, value) == [k \in DOMAIN map \cup {key} |-> IF k = key THEN value ELSE map[k]]

bounded == <<changes, trades, errors>>
chain == <<active, reserves, locked>>

\* Contracts: a pair is paused or resumed, or its tokens are traded.
ChangeState(p) ==
    /\ changes < MaxChanges
    /\ changes' = changes + 1
    /\ active' = IF p \in active THEN active \ {p} ELSE active \cup {p}
    /\ UNCHANGED <<reserves, locked, graph, cached, request, trades, errors>>

Trade(p) ==
    /\ trades < MaxTrades
    /\ trades' = trades + 1
    /\ \E both \in ReserveSets : reserves' = [reserves EXCEPT ![p] = both]
    /\ UNCHANGED <<active, locked, graph, cached, request, changes, errors>>

\* The epoch of a locking deadline begins.
Unlock(p) ==
    /\ p \in locked
    /\ locked' = locked \ {p}
    /\ UNCHANGED <<active, reserves, graph, cached, request, bounded>>

\* swap: getAllActivePairs reads the states of all pairs ...
ReadStates(r, swap) ==
    /\ request[r].pc \in {"idle", "answered"}
    /\ request' = [request EXCEPT ![r] = [Idle EXCEPT !.pc = "info", !.swap = swap, !.pairs = active]]
    /\ UNCHANGED <<chain, graph, cached, bounded>>

\* ... and then their reserves, each with a call of its own.
ReadInfo(r, p) ==
    /\ request[r].pc = "info"
    /\ p \in request[r].pairs \ DOMAIN request[r].info
    /\ request' = [request EXCEPT ![r].info = With(@, p, reserves[p])]
    /\ UNCHANGED <<chain, graph, cached, bounded>>

AllRead(r) == request[r].pc = "info" /\ DOMAIN request[r].info = request[r].pairs

Route(r) == <<request[r].swap.tokenIn, request[r].swap.tokenOut>>

\* getAllPaths: the paths are cached, or are looked for in the graph and stored.
GetPaths(r) ==
    /\ AllRead(r) /\ Route(r) \in DOMAIN cached
    /\ request' = [request EXCEPT ![r] = [@ EXCEPT !.pc = "compute", !.graph = cached[Route(r)]]]
    /\ UNCHANGED <<chain, graph, cached, bounded>>

MissPaths(r) ==
    /\ AllRead(r) /\ Route(r) \notin DOMAIN cached
    /\ request' = [request EXCEPT ![r].pc = "search"]
    /\ UNCHANGED <<chain, graph, cached, bounded>>

SearchPaths(r) ==
    /\ request[r].pc = "search"
    /\ graph' = Instance(request[r].pairs)
    /\ request' = [request EXCEPT ![r] = [@ EXCEPT !.pc = "store", !.graph = graph']]
    /\ UNCHANGED <<chain, cached, bounded>>

StorePaths(r) ==
    /\ request[r].pc = "store"
    /\ cached' = With(cached, Route(r), request[r].graph)
    /\ request' = [request EXCEPT ![r].pc = "compute"]
    /\ UNCHANGED <<chain, graph, bounded>>

MeetsLocked(r, path) ==
    LET route == AddressRoute(r.pairs, path) IN Len(route) > 1 /\ ToSet(route) \cap locked # {}

\* multiSwap: the best route; a route of several pairs goes through no locked one.
Answer(r) ==
    /\ request[r].pc = "compute"
    /\ \E path \in BestPaths(request[r]) :
         /\ ~MeetsLocked(request[r], path)
         /\ request' = [request EXCEPT ![r] = [@ EXCEPT !.pc = "answered", !.route = path]]
    /\ UNCHANGED <<chain, graph, cached, bounded>>

\* No route was found, or the one found is refused: the request is answered with an error.
Refuse(r) ==
    /\ request[r].pc = "compute"
    /\ LET best == BestPaths(request[r]) IN
       best = {} \/ \E path \in best : MeetsLocked(request[r], path)
    /\ request' = [request EXCEPT ![r] = Idle]
    /\ UNCHANGED <<chain, graph, cached, bounded>>

\* A call to the cache or to a contract throws.
Fail(r) ==
    /\ request[r].pc \in {"info", "search", "store", "compute"}
    /\ errors < MaxErrors
    /\ errors' = errors + 1
    /\ request' = [request EXCEPT ![r] = Idle]
    /\ UNCHANGED <<chain, graph, cached, changes, trades>>

\* Cached paths live for ten minutes.
Expire(route) ==
    /\ route \in DOMAIN cached
    /\ cached' = [q \in DOMAIN cached \ {route} |-> cached[q]]
    /\ UNCHANGED <<chain, graph, request, bounded>>

RequestStep(r) ==
    \/ \E p \in Pairs : ReadInfo(r, p)
    \/ GetPaths(r) \/ MissPaths(r) \/ SearchPaths(r) \/ StorePaths(r)
    \/ Answer(r) \/ Refuse(r) \/ Fail(r)

RouterNext ==
    \/ \E p \in Pairs : ChangeState(p) \/ Trade(p) \/ Unlock(p)
    \/ \E r \in RouteRequests : RequestStep(r) \/ (\E swap \in Swaps : ReadStates(r, swap))
    \/ \E route \in Routes : Expire(route)

RouterSpec == RouterInit /\ [][RouterNext]_routerVars

--------------------------------------------------------------------------------
(* Properties                                                              *)

\* Type correctness.
RouterTypeOK ==
    /\ active \subseteq Pairs /\ graph \subseteq Pairs /\ locked \subseteq Locked
    /\ reserves \in [Pairs -> ReserveSets]
    /\ DOMAIN cached \subseteq Routes
    /\ \A route \in DOMAIN cached : cached[route] \subseteq Pairs
    /\ \A r \in RouteRequests :
         /\ request[r].pc \in {"idle", "info", "search", "store", "compute", "answered"}
         /\ request[r].swap \in Swaps \cup {NoSwap}
         /\ request[r].graph \subseteq Pairs /\ DOMAIN request[r].info \subseteq request[r].pairs
         /\ request[r].pc = "answered" =>
              /\ request[r].route \in Seq(Nodes(request[r].swap.tokenIn)) \ {<<>>}
              /\ Head(request[r].route) = request[r].swap.tokenIn
              /\ Last(request[r].route) = request[r].swap.tokenOut
    /\ changes \in 0..MaxChanges /\ trades \in 0..MaxTrades /\ errors \in 0..MaxErrors

\* All ways from a token to another one along the pairs that visit no token twice.
SimplePaths(pairs, source, destination) ==
    {path \in UNION {[1..n -> Nodes(source)] : n \in 1..Cardinality(Nodes(source))} :
        /\ path[1] = source /\ path[Len(path)] = destination
        /\ IsInjective(path)
        /\ \A i \in 1..(Len(path) - 1) : PairByTokens(pairs, path[i], path[i + 1]) # {}}

\* The depth first search finds every way to swap, and none that visits a token twice.  All
\* variables keep their types.
AllPathsFound ==
    /\ RouterTypeOK
    /\ \A r \in RouteRequests :
        LET req == request[r] IN
        req.pc = "store" =>
            Paths(req.graph, req.swap.tokenIn, req.swap.tokenOut)
                = SimplePaths(req.graph, req.swap.tokenIn, req.swap.tokenOut)

\* When its paths are those of the pairs it read, a request is answered with the best
\* of all ways to swap, by the reserves it read.
BestOfAll ==
    \A r \in RouteRequests :
        LET req == request[r] IN
        req.pc = "answered" /\ req.graph = req.pairs =>
            LET result == Result(req, req.route) IN
            \A path \in SimplePaths(req.pairs, req.swap.tokenIn, req.swap.tokenOut) :
                IF req.swap.type = "fixedInput" THEN Result(req, path) <= result
                ELSE Result(req, path) = 0 \/ Result(req, path) >= result

\* A route that skips a hop, and takes an amount of one token for one of another, is
\* answered only when its paths come from other pairs than those the request read.
SkipsOnlyWhenStale ==
    \A r \in RouteRequests :
        LET req == request[r] IN
        req.pc = "answered" /\ Len(AddressRoute(req.pairs, req.route)) # Len(req.route) - 1
            => req.graph # req.pairs

\* At every hop of a route with a fixed output, what is paid in is enough for what
\* the next hop, or the user, needs.
QuoteSuffices ==
    \A r \in RouteRequests :
        LET req == request[r]
            both == OrderedReserves(req.pairs, req.info, req.route)
            amounts == AmountsFixedOutput(req.swap.amount, both) IN
        req.pc = "answered" /\ req.swap.type = "fixedOutput" =>
            \A i \in 1..Len(both) : Suffices(amounts[i - 1], amounts[i], both[i][1], both[i][2])
================================================================================
