----------------------------- MODULE PendingExecutor -----------------------------
(***************************************************************************)
(* PendingExecutor as the contract queries of GenericAbiService and the    *)
(* API calls of MXApiService use it, below the cache of their callers: a   *)
(* call that finds an identical one in flight waits for its answer.        *)
(*                                                                         *)
(* One query of one process.  A call asks about the head of the chain, or  *)
(* about a timestamp of the past; the timestamp is part of the cache key   *)
(* and of the URL, but not of the key of the executor.  Requests are       *)
(* numbered in the order they are made.                                    *)
(***************************************************************************)
EXTENDS Integers, FiniteSets

CONSTANTS
    Calls,         \* calls in progress at once
    Timestamps,    \* what they may ask about: Head, or timestamps of the past
    Head,
    MaxAttempts,   \* attempts of a request: 1 for queries, 3 for API calls that time out
    MaxRequests,   \* bound: requests made
    MaxFailures    \* bound: attempts that fail

ASSUME PendingExecutorAssumption ==
    /\ Head \in Timestamps
    /\ MaxAttempts \in Nat \ {0}
    /\ {MaxRequests, MaxFailures} \subseteq Nat

VARIABLES
    call,       \* the calls
    request,    \* request[n]: the request numbered n
    pending,    \* the number in the dictionary, 0 when it has none
    made,       \* requests made
    over,       \* over[n]: request n has left the dictionary
    cache,      \* cache[t]: timestamp the cached answer for t is about, if any
    joined,     \* timestamps whose call waited for a request about another one
    failures

vars == <<call, request, pending, made, over, cache, joined, failures>>

Numbers == 1..MaxRequests
Nothing == "nothing"
Failed == "failed"

ASSUME TimestampsAssumption == Nothing \notin Timestamps

\* A call knows what it asks about, the request it waits for, and how many requests
\* were over when it was made; it ends with an answer about some timestamp.
IdleCall == [pc |-> "idle", asks |-> Nothing, awaits |-> 0, floor |-> 0, answer |-> Nothing]
NoRequest == [pc |-> "none", about |-> Nothing, attempt |-> 0]

--------------------------------------------------------------------------------
Init ==
    /\ call = [c \in Calls |-> IdleCall]
    /\ request = [n \in Numbers |-> NoRequest]
    /\ pending = 0 /\ made = 0
    /\ over = {}
    /\ cache = [t \in Timestamps |-> Nothing]
    /\ joined = {}
    /\ failures = 0

\* GetOrSetCache: without a cached answer the query is made.
Ask(c, t) ==
    /\ call[c].pc = "idle"
    /\ cache[t] = Nothing
    /\ call' = [call EXCEPT ![c] = [IdleCall EXCEPT !.pc = "execute", !.asks = t]]
    /\ UNCHANGED <<request, pending, made, over, cache, joined, failures>>

\* execute finds a pending promise, and awaits it.
Join(c) ==
    /\ call[c].pc = "execute" /\ pending # 0
    /\ call' = [call EXCEPT ![c] = [@ EXCEPT !.pc = "await", !.awaits = pending,
                                             !.floor = Cardinality(over)]]
    /\ joined' = IF request[pending].about # call[c].asks THEN joined \cup {call[c].asks}
                                                           ELSE joined
    /\ UNCHANGED <<request, pending, made, over, cache, failures>>

\* Fault: the timestamp is not part of the URL.
SentHead(c) == [pc |-> "sent", about |-> Head, attempt |-> 1]

\* doPostGeneric and doGetGeneric add the timestamp of the caller to the URL.
Sent(c) == [pc |-> "sent", about |-> call[c].asks, attempt |-> 1]

\* Fault: the promise is stored only once it has answered.
ExecuteUnshared(c) ==
    /\ call[c].pc = "execute" /\ pending = 0
    /\ made < MaxRequests
    /\ made' = made + 1
    /\ request' = [request EXCEPT ![made + 1] = Sent(c)]
    /\ call' = [call EXCEPT ![c] = [@ EXCEPT !.pc = "own", !.awaits = made + 1,
                                             !.floor = Cardinality(over)]]
    /\ UNCHANGED <<pending, over, cache, joined, failures>>

\* execute makes the request and stores its promise, in one synchronous step.
Execute(c) ==
    /\ call[c].pc = "execute" /\ pending = 0
    /\ made < MaxRequests
    /\ made' = made + 1
    /\ pending' = made + 1
    /\ request' = [request EXCEPT ![made + 1] = Sent(c)]
    /\ call' = [call EXCEPT ![c] = [@ EXCEPT !.pc = "own", !.awaits = made + 1,
                                             !.floor = Cardinality(over)]]
    /\ UNCHANGED <<over, cache, joined, failures>>

--------------------------------------------------------------------------------
(* The request.                                                            *)

Answer(n) ==
    /\ request[n].pc = "sent"
    /\ request' = [request EXCEPT ![n].pc = "answered"]
    /\ UNCHANGED <<call, pending, made, over, cache, joined, failures>>

\* doGetGeneric: an attempt that timed out is made again after a delay, a few times.
TimesOut(n) ==
    /\ request[n].pc = "sent" /\ failures < MaxFailures
    /\ failures' = failures + 1
    /\ LET r == request[n] IN
         request' = [request EXCEPT ![n] =
            IF r.attempt < MaxAttempts
            THEN [r EXCEPT !.pc = "delayed", !.attempt = r.attempt + 1]
            ELSE [r EXCEPT !.pc = "rejected"]]
    /\ UNCHANGED <<call, pending, made, over, cache, joined>>

Retry(n) ==
    /\ request[n].pc = "delayed"
    /\ request' = [request EXCEPT ![n].pc = "sent"]
    /\ UNCHANGED <<call, pending, made, over, cache, joined, failures>>

\* Any other error is thrown at once.
Fails(n) ==
    /\ request[n].pc = "sent" /\ failures < MaxFailures
    /\ failures' = failures + 1
    /\ request' = [request EXCEPT ![n].pc = "rejected"]
    /\ UNCHANGED <<call, pending, made, over, cache, joined>>

Settled(n) == request[n].pc \in {"answered", "rejected"}

\* The call goes on with what its request answered; an error is thrown to the caller.
Result(c) ==
    LET r == request[call[c].awaits] IN
    IF r.pc = "rejected" THEN [call[c] EXCEPT !.pc = "threw", !.answer = Failed]
                         ELSE [call[c] EXCEPT !.pc = "store", !.answer = r.about]

\* Fault: the promise is dropped only when it was answered, not in finally.
FinishAnswered(c) ==
    /\ call[c].pc = "own" /\ Settled(call[c].awaits)
    /\ IF request[call[c].awaits].pc = "answered"
         THEN pending' = 0 /\ over' = over \cup {call[c].awaits}
         ELSE UNCHANGED <<pending, over>>
    /\ call' = [call EXCEPT ![c] = Result(c)]
    /\ UNCHANGED <<request, made, cache, joined, failures>>

\* The call that made the request resumes first, and drops the promise whether it
\* was answered or rejected.
Finish(c) ==
    /\ call[c].pc = "own" /\ Settled(call[c].awaits)
    /\ pending' = 0
    /\ over' = over \cup {call[c].awaits}
    /\ call' = [call EXCEPT ![c] = Result(c)]
    /\ UNCHANGED <<request, made, cache, joined, failures>>

\* Fault: an error reaches only the call that made the request.
ResumeAnswered(c) ==
    /\ call[c].pc = "await" /\ call[c].awaits \in over
    /\ request[call[c].awaits].pc = "answered"
    /\ call' = [call EXCEPT ![c] = Result(c)]
    /\ UNCHANGED <<request, pending, made, over, cache, joined, failures>>

Resume(c) ==
    /\ call[c].pc = "await" /\ call[c].awaits \in over
    /\ call' = [call EXCEPT ![c] = Result(c)]
    /\ UNCHANGED <<request, pending, made, over, cache, joined, failures>>

\* getOrSet stores the answer under the key of the caller, who gets it.
StoreAnswer(c) ==
    /\ call[c].pc = "store"
    /\ cache' = [cache EXCEPT ![call[c].asks] = call[c].answer]
    /\ call' = [call EXCEPT ![c] = IdleCall]
    /\ UNCHANGED <<request, pending, made, over, joined, failures>>

Throw(c) ==
    /\ call[c].pc = "threw"
    /\ call' = [call EXCEPT ![c] = IdleCall]
    /\ UNCHANGED <<request, pending, made, over, cache, joined, failures>>

Expire(t) ==
    /\ cache[t] # Nothing
    /\ cache' = [cache EXCEPT ![t] = Nothing]
    /\ UNCHANGED <<call, request, pending, made, over, joined, failures>>

CallStep(c) ==
    Join(c) \/ Execute(c) \/ Finish(c) \/ Resume(c) \/ StoreAnswer(c) \/ Throw(c)

RequestStep(n) == Answer(n) \/ TimesOut(n) \/ Retry(n) \/ Fails(n)

Next ==
    \/ \E c \in Calls : CallStep(c) \/ (\E t \in Timestamps : Ask(c, t))
    \/ \E n \in Numbers : RequestStep(n)
    \/ \E t \in Timestamps : Expire(t)

Spec == Init /\ [][Next]_vars

\* The event loop resumes calls, and every attempt is answered or times out.
FairSpec ==
    /\ Spec
    /\ \A c \in Calls : WF_vars(CallStep(c))
    /\ \A n \in Numbers : WF_vars(RequestStep(n))

--------------------------------------------------------------------------------
(* Properties                                                              *)

InFlight == {n \in Numbers : request[n].pc \in {"sent", "delayed"}}

\* Type correctness.
TypeOK ==
    /\ \A c \in Calls :
         /\ call[c].pc \in {"idle", "execute", "own", "await", "store", "threw"}
         /\ call[c].awaits \in 0..made /\ call[c].floor \in 0..made
         /\ call[c].asks \in Timestamps \cup {Nothing}
         /\ call[c].answer \in Timestamps \cup {Nothing, Failed}
    /\ \A n \in Numbers : (request[n].pc = "none") = (n > made)
    /\ \A n \in 1..made : request[n].attempt \in 1..MaxAttempts /\ request[n].about \in Timestamps
    /\ pending \in 0..made /\ made \in 0..MaxRequests
    /\ over \subseteq 1..made
    /\ cache \in [Timestamps -> Timestamps \cup {Nothing}]
    /\ joined \subseteq Timestamps
    /\ failures \in 0..MaxFailures

\* However many calls come while a request is made, retried or answered, there is
\* never a second one for the same query; and no call gets the answer, or the error, of a
\* request that was over before the call was made: a query that failed once is made again.
CallsAreShared ==
    /\ TypeOK
    /\ Cardinality(InFlight) <= 1
    /\ \A c \in Calls : call[c].pc \in {"store", "threw"} => call[c].awaits > call[c].floor

\* An answer about another timestamp than the one asked about comes only from a
\* request that a call about this one has joined.
WrongOnlyByJoining ==
    \A t \in Timestamps : cache[t] \notin {Nothing, t} => t \in joined

\* Calls that wait go on one by one, in any order and while further calls come, and yet it
\* is as if the request had its outcome for all of them at the moment it leaves the
\* dictionary: nobody is left behind, gets it twice, or gets another request's.
Waits(c) == call[c].pc \in {"own", "await"} /\ call[c].awaits \notin over

Outcome(c) ==
    IF call[c].pc \in {"own", "await"} /\ call[c].awaits \in over
    THEN Result(c).answer ELSE call[c].answer

Flying == IF pending = 0 THEN Nothing ELSE request[pending].about

Shared == INSTANCE SharedQuery WITH
    asks    <- [c \in Calls |-> call[c].asks],
    waiting <- {c \in Calls : Waits(c)},
    outcome <- [c \in Calls |-> Outcome(c)],
    flying  <- Flying

ImplementsSharedQuery == Shared!Spec

\* Every call comes to an end, although the one that made its request may fail.
CallsEnd == \A c \in Calls : call[c].pc \in {"own", "await"} ~> call[c].pc = "idle"
================================================================================
