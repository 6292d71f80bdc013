-------------------------------- MODULE GuestCache --------------------------------
(***************************************************************************)
(* GuestCachingMiddleware counts the queries of guests, in memory and per  *)
(* minute, and adds every full batch to a sorted set in Redis.  A cron     *)
(* (CacheWarmerService.cacheGuest) asks its own API again for the queries  *)
(* above a threshold in this minute or the previous one, and stores the    *)
(* responses, which the middleware then serves.                            *)
(*                                                                         *)
(* A minute is TicksPerMinute ticks.  Minutes are named by their age, 0    *)
(* for the current one; a counter older than two minutes has expired or is *)
(* read by nobody.  Locker.lock lets one job per process and query run.    *)
(***************************************************************************)
EXTENDS Integers

CONSTANTS
    Processes,       \* public API processes
    Warmers,         \* cache warmer processes
    Queries,
    Requests,        \* requests that may be in progress at once
    BatchSize,       \* GUEST_CACHE_REDIS_BATCH_SIZE
    Threshold,       \* ENABLE_CACHE_GUEST_RATE_THRESHOLD
    ResponseTtl,     \* time to live of a response (30 s), in ticks
    TicksPerMinute,
    MaxLatency,      \* longest request or job, in ticks, less than a minute
    MaxHits,         \* bound: requests of a query in a minute
    MaxFailures      \* bound: awaits that throw, and crashes

ASSUME GuestCacheAssumption ==
    /\ {BatchSize, Threshold, ResponseTtl, TicksPerMinute} \subseteq Nat \ {0}
    /\ {MaxLatency, MaxHits, MaxFailures} \subseteq Nat
    /\ MaxLatency < TicksPerMinute

VARIABLES
    phase,      \* ticks since the minute began
    hits,       \* hits[a][q]: requests of the minute that did arrive
    counter,    \* counter[p][a][q]: cacheHitsCounter
    started,    \* started[p]: cacheHitsCounter has an entry for this minute
    score,      \* score[a][q]: the sorted set of the minute
    expires,    \* expires[a]: whether that set exists, and has a time to live
    metric,     \* metric[a][q]: what requests of the minute added to guest_queries
    body,       \* body[q]: the stored query
    response,   \* response[q]: the stored response, its age and what is left of it
    req,        \* the requests
    job,        \* job[w][q]: the cron's work on a query
    wasHot,     \* wasHot[q]: guests made Threshold requests within one minute
    failures

vars == <<phase, hits, counter, started, score, expires, metric, body, response,
          req, job, wasHot, failures>>

\* No request sees a minute older than the previous one; the cron may look at the
\* sorted set of the one before.
Ages == 0..1
SetAges == 0..2

\* Request: the process and the query, the age of its minute, whether it is the
\* first of the minute, how long it has been waiting.
NoRequest == [pc |-> "idle", p |-> CHOOSE p \in Processes : TRUE,
              q |-> CHOOSE q \in Queries : TRUE, minute |-> 0, first |-> FALSE, wait |-> 0]
NoJob == [pc |-> "idle", minute |-> 0, hot |-> FALSE, age |-> 0, wait |-> 0]
NoResponse == [age |-> 0, left |-> 0]

NoHits == [q \in Queries |-> 0]
Zero == [a \in Ages |-> NoHits]

\* A minute passes: every minute grows older by one.
Older(f, new) == [a \in DOMAIN f |-> IF a = 0 THEN new ELSE f[a - 1]]

--------------------------------------------------------------------------------
Init ==
    /\ phase = 0
    /\ hits = Zero /\ metric = Zero
    /\ score = [a \in SetAges |-> NoHits]
    /\ counter = [p \in Processes |-> Zero]
    /\ started = [p \in Processes |-> FALSE]
    /\ expires = [a \in SetAges |-> "missing"]
    /\ body = [q \in Queries |-> FALSE]
    /\ response = [q \in Queries |-> NoResponse]
    /\ req = [r \in Requests |-> NoRequest]
    /\ job = [w \in Warmers |-> [q \in Queries |-> NoJob]]
    /\ wasHot = [q \in Queries |-> FALSE]
    /\ failures = 0

\* Fault: the counter of a full batch starts again at the batch.
CountCarried(n) == IF n < BatchSize THEN n + 1 ELSE n

\* A full batch starts again at one.
Count(n) == IF n < BatchSize THEN n + 1 ELSE 1

\* Fault: only the first request of a process gives a set its time to live.
AfterCountOnce(p, r) == IF r.first /\ counter[p][1] = NoHits THEN "create" ELSE "idle"

\* What follows the count: the first request of a minute creates the sorted set.
AfterCount(p, r) == IF r.first THEN "create" ELSE "idle"

\* What follows, the stored response or the execution of the query, changes nothing here.
Moved(request, pc) == IF pc = "idle" THEN NoRequest ELSE [request EXCEPT !.pc = pc]

\* The synchronous part of `use` for a guest, up to its first await.  What users and
\* the cron ask (an authorization or a no-cache header) is not counted.
Arrive(r, p, q) ==
    LET n == Count(counter[p][0][q])
        new == [NoRequest EXCEPT !.p = p, !.q = q, !.first = ~started[p]] IN
    /\ req[r].pc = "idle" /\ hits[0][q] < MaxHits
    /\ hits' = [hits EXCEPT ![0][q] = @ + 1]
    /\ wasHot' = [wasHot EXCEPT ![q] = @ \/ hits[0][q] + 1 >= Threshold]
    /\ started' = [started EXCEPT ![p] = TRUE]
    /\ counter' = [counter EXCEPT ![p][0][q] = n]
    /\ req' = [req EXCEPT ![r] =
                 Moved(new, IF n >= BatchSize THEN "body" ELSE AfterCount(p, new))]
    /\ UNCHANGED <<phase, score, expires, metric, body, response, job, failures>>

Step(r, pc) == req' = [req EXCEPT ![r] = Moved(@, pc)]

StoreBody(r) ==
    /\ req[r].pc = "body"
    /\ body' = [body EXCEPT ![req[r].q] = TRUE]
    /\ Step(r, "increment")
    /\ UNCHANGED <<phase, hits, counter, started, score, expires, metric, response,
                   job, wasHot, failures>>

Exists(a) == [expires EXCEPT ![a] = IF @ = "missing" THEN "never" ELSE @]

\* zIncrementRemote with the counter as it is now, after the await.
Increment(r) ==
    LET m == req[r].minute  q == req[r].q IN
    /\ req[r].pc = "increment"
    /\ score' = [score EXCEPT ![m][q] = @ + counter[req[r].p][m][q]]
    /\ expires' = Exists(m)
    /\ Step(r, "metric")
    /\ UNCHANGED <<phase, hits, counter, started, metric, body, response, job, wasHot,
                   failures>>

CountQueries(r) ==
    LET m == req[r].minute  q == req[r].q IN
    /\ req[r].pc = "metric"
    /\ metric' = [metric EXCEPT ![m][q] = @ + counter[req[r].p][m][q]]
    /\ Step(r, AfterCount(req[r].p, req[r]))
    /\ UNCHANGED <<phase, hits, counter, started, score, expires, body, response, job,
                   wasHot, failures>>

\* zIncrementRemote by 0, so that the set exists.
CreateCounter(r) ==
    /\ req[r].pc = "create"
    /\ expires' = Exists(req[r].minute)
    /\ Step(r, "ttl")
    /\ UNCHANGED <<phase, hits, counter, started, score, metric, body, response, job,
                   wasHot, failures>>

SetTtl(r) ==
    /\ req[r].pc = "ttl"
    /\ expires' = [expires EXCEPT ![req[r].minute] = "later"]
    /\ Step(r, "idle")
    /\ UNCHANGED <<phase, hits, counter, started, score, metric, body, response, job,
                   wasHot, failures>>

--------------------------------------------------------------------------------
(* The cron.                                                               *)

JobStep(w, q, new) ==
    /\ job' = [job EXCEPT ![w][q] = new]
    /\ UNCHANGED <<phase, hits, counter, started, score, expires, metric, body, req, wasHot>>

ReadCurrent(w, q) ==
    /\ job[w][q].pc = "idle"
    /\ JobStep(w, q, [NoJob EXCEPT !.pc = "previous", !.hot = score[0][q] >= Threshold])
    /\ UNCHANGED <<response, failures>>

ReadPrevious(w, q) ==
    LET j == job[w][q]  m == j.minute + 1 IN
    /\ j.pc = "previous"
    /\ JobStep(w, q, IF j.hot \/ (m \in SetAges /\ score[m][q] >= Threshold)
                     THEN [j EXCEPT !.pc = "body"] ELSE NoJob)
    /\ UNCHANGED <<response, failures>>

GetBody(w, q) ==
    /\ job[w][q].pc = "body"
    /\ JobStep(w, q, IF body[q] THEN [job[w][q] EXCEPT !.pc = "post"] ELSE NoJob)
    /\ UNCHANGED <<response, failures>>

\* The API computes the response.
Post(w, q) ==
    /\ job[w][q].pc = "post"
    /\ JobStep(w, q, [job[w][q] EXCEPT !.pc = "store", !.age = 0])
    /\ UNCHANGED <<response, failures>>

\* Fault: a response that is stored again lives on.
StoreProlongs(w, q) ==
    /\ job[w][q].pc = "store"
    /\ response' = [response EXCEPT ![q] =
           [age |-> job[w][q].age,
            left |-> (IF @.left < ResponseTtl THEN @.left ELSE ResponseTtl) + ResponseTtl]]
    /\ JobStep(w, q, NoJob)
    /\ UNCHANGED failures

Store(w, q) ==
    /\ job[w][q].pc = "store"
    /\ response' = [response EXCEPT ![q] = [age |-> job[w][q].age, left |-> ResponseTtl]]
    /\ JobStep(w, q, NoJob)
    /\ UNCHANGED failures

JobFails(w, q) ==
    /\ job[w][q].pc # "idle" /\ failures < MaxFailures
    /\ failures' = failures + 1
    /\ JobStep(w, q, NoJob)
    /\ UNCHANGED response

--------------------------------------------------------------------------------
(* The environment.                                                        *)

RequestFails(r) ==
    /\ req[r].pc # "idle" /\ failures < MaxFailures
    /\ failures' = failures + 1
    /\ req' = [req EXCEPT ![r] = NoRequest]
    /\ UNCHANGED <<phase, hits, counter, started, score, expires, metric, body, response,
                   job, wasHot>>

Crash(p) ==
    /\ started[p] /\ failures < MaxFailures
    /\ failures' = failures + 1
    /\ counter' = [counter EXCEPT ![p] = Zero]
    /\ started' = [started EXCEPT ![p] = FALSE]
    /\ req' = [r \in Requests |-> IF req[r].p = p THEN NoRequest ELSE req[r]]
    /\ UNCHANGED <<phase, hits, score, expires, metric, body, response, job, wasHot>>

BodyExpires(q) ==
    /\ body[q]
    /\ body' = [body EXCEPT ![q] = FALSE]
    /\ UNCHANGED <<phase, hits, counter, started, score, expires, metric, response, req,
                   job, wasHot, failures>>

AgedResponse(e) == IF e.left <= 1 THEN NoResponse ELSE [age |-> e.age + 1, left |-> e.left - 1]

\* What is in progress waits one tick longer; its minute may grow older.
Waited(f, late) ==
    IF f.pc = "idle" THEN f ELSE [f EXCEPT !.wait = @ + 1, !.minute = @ + late]

Tick ==
    LET late == IF phase = TicksPerMinute - 1 THEN 1 ELSE 0 IN
    /\ \A r \in Requests : req[r].wait < MaxLatency
    /\ \A w \in Warmers, q \in Queries : job[w][q].wait < MaxLatency
    /\ phase' = (phase + 1) % TicksPerMinute
    /\ req' = [r \in Requests |-> Waited(req[r], late)]
    /\ job' = [w \in Warmers |-> [q \in Queries |->
                 LET j == Waited(job[w][q], late) IN
                 IF j.pc = "store" THEN [j EXCEPT !.age = @ + 1] ELSE j]]
    /\ response' = [q \in Queries |-> AgedResponse(response[q])]
    /\ IF late = 0
         THEN UNCHANGED <<hits, counter, started, score, expires, metric>>
         ELSE /\ hits' = Older(hits, NoHits)
              /\ score' = Older(score, NoHits)
              /\ metric' = Older(metric, NoHits)
              /\ counter' = [p \in Processes |-> Older(counter[p], NoHits)]
              /\ started' = [p \in Processes |-> FALSE]
              /\ expires' = Older(expires, "missing")
    /\ UNCHANGED <<body, wasHot, failures>>

Next ==
    \/ \E r \in Requests :
         \/ \E p \in Processes, q \in Queries : Arrive(r, p, q)
         \/ StoreBody(r) \/ Increment(r) \/ CountQueries(r)
         \/ CreateCounter(r) \/ SetTtl(r) \/ RequestFails(r)
    \/ \E w \in Warmers, q \in Queries :
         \/ ReadCurrent(w, q) \/ ReadPrevious(w, q) \/ GetBody(w, q)
         \/ Post(w, q) \/ Store(w, q) \/ JobFails(w, q)
    \/ \E p \in Processes : Crash(p)
    \/ \E q \in Queries : BodyExpires(q)
    \/ Tick

Spec == Init /\ [][Next]_vars

--------------------------------------------------------------------------------
(* Properties                                                              *)

RequestPCs == {"idle", "body", "increment", "metric", "create", "ttl"}
JobPCs == {"idle", "previous", "body", "post", "store"}

\* Type correctness.  A request sees the minute it began in or the next one.
TypeOK ==
    /\ phase \in 0..(TicksPerMinute - 1)
    /\ hits \in [Ages -> [Queries -> 0..MaxHits]]
    /\ counter \in [Processes -> [Ages -> [Queries -> 0..BatchSize]]]
    /\ started \in [Processes -> BOOLEAN]
    /\ metric \in [Ages -> [Queries -> Nat]]
    /\ score \in [SetAges -> [Queries -> Nat]]
    /\ expires \in [SetAges -> {"missing", "never", "later"}]
    /\ body \in [Queries -> BOOLEAN]
    /\ \A q \in Queries : response[q].age \in Nat /\ response[q].left \in 0..ResponseTtl
    /\ \A r \in Requests : req[r].pc \in RequestPCs /\ req[r].minute \in 0..1
    /\ \A w \in Warmers, q \in Queries :
         job[w][q].pc \in JobPCs /\ job[w][q].minute \in 0..1
    /\ wasHot \in [Queries -> BOOLEAN]
    /\ failures \in 0..MaxFailures

\* Neither the sorted set nor the metric counts a request that was not made: the
\* counter is read after awaits, when other requests have moved it on, but every
\* reading stands for a batch of its own.  All variables keep their types.
NeverOvercounts ==
    /\ TypeOK
    /\ \A a \in Ages, q \in Queries : score[a][q] <= hits[a][q] /\ metric[a][q] <= hits[a][q]

\* Only a query that guests made Threshold times within one minute is ever warmed, and
\* no guest gets a response computed longer ago than its time to live and the duration
\* of a job, with jobs and expirations in any order.
WarmedAreHotAndRecent ==
    \A q \in Queries :
        /\ response[q].left > 0 \/ (\E w \in Warmers : job[w][q].pc \in {"body", "post", "store"})
             => wasHot[q]
        /\ response[q].left > 0 =>
             response[q].age + response[q].left <= ResponseTtl + MaxLatency

\* A sorted set that no request will touch again has a time to live, unless a
\* request failed before it set one.
CountersExpire ==
    failures = 0 => expires[2] # "never"
================================================================================
