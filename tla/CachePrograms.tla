---------------------------- MODULE CachePrograms ----------------------------
\* The vocabulary of the programs that refresh the cache: crons, event handlers, endpoints.
\*
\* A program is a sequence of steps.  In a "store" step all values are computed before the first
\* one is stored (Promise.all over the computations, then over the setters); what is kept
\* outside the cache goes to a sink.  In an "announce" step the keys are handed to
\* deleteCacheKeys, which drops the copies other processes hold in memory; an announcement
\* that is an array of arrays reaches nobody.
EXTENDS ServiceCalls

\* A value stored under key, computed from what the members of from answer.
Get(key, from) == {[key |-> key, from |-> from]}
Gets(keys, from) == {[key |-> k, from |-> from] : k \in keys}

Store(gets) == [does |-> "store", gets |-> gets, keys |-> {}]
Announce(keys) == [does |-> "announce", gets |-> {}, keys |-> keys]
AnnounceArrays(keys) == [does |-> "announceArrays", gets |-> {}, keys |-> keys]

\* What a value carried by an event, or given by an administrator, is computed from.
Event == {}

\* Where values go that no cache keeps.
Sinks == {"analytics", "database"}

\* period: the seconds between two rounds, 0 for a program that is run on demand.
Program(name, period, steps) == {[name |-> name, period |-> period, steps |-> steps]}

\* Store, then announce the same keys.
StoreAndAnnounce(gets) == <<Store(gets), Announce({g.key : g \in gets} \ Sinks)>>
=============================================================================
