---------------------------- MODULE ServiceCalls ----------------------------
\* The vocabulary of the call tables: what an asynchronous method of a service
\* may ask of other methods before it answers, and for how long its answer is cached.
\*
\* A method is named by its class ("PairCompute.computeFeesAPR"), a cached one by its
\* cache key without the arguments ("pair.feesAPR").  A row lists every call its body
\* makes; an early return skips some of them, so a method may ask any subset.  A
\* computation that only its own cached getter calls is part of the getter's row.
EXTENDS Naturals

\* Seconds an answer is kept in Redis and in the memory of each process.
Ttl(remote, local) == [remote |-> remote, local |-> local, renewed |-> FALSE]

Token == Ttl(600, 300)
ContractState == Ttl(600, 180)
ContractInfo == Ttl(180, 60)
ContractBalance == Ttl(60, 30)
\* Fault: as long in memory as in Redis.
PriceWithEqualLocal == Ttl(60, 60)

Price == Ttl(60, 30)
Analytics == Ttl(1800, 600)
Attributes == Ttl(3600, 2700)
Minute == Ttl(60, 60)
Hour == Ttl(3600, 3600)
Day == Ttl(86400, 86400)

NotCached == Ttl(0, 0)

\* An entry that every hit stores again for its full time to live.
Renewed == [Token EXCEPT !.renewed = TRUE]

View(n, ttl, calls) == {[node |-> n, ttl |-> ttl, calls |-> calls]}
Views(ns, ttl, calls) == {[node |-> n, ttl |-> ttl, calls |-> calls] : n \in ns}
Call(n, calls) == View(n, NotCached, calls)
Calls(ns, calls) == Views(ns, NotCached, calls)
=============================================================================
