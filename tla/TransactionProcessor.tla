--------------------------- MODULE TransactionProcessor ---------------------------
(***************************************************************************)
(* TransactionProcessorService: every ten seconds it asks the API for the  *)
(* transactions of the seconds after the timestamp the last run left in    *)
(* the cache, up to the head of the chain, and observes in a histogram the *)
(* gas each of them overpaid.                                              *)
(*                                                                         *)
(* Time is counted in periods of the cron: the cached timestamp expires    *)
(* TtlPeriods after it was stored.  A run observes all its transactions    *)
(* without an await in between; one whose arguments cannot be decoded      *)
(* throws, and what was observed before it stays observed.                 *)
(***************************************************************************)
EXTENDS Naturals, Sequences, FiniteSets

CONSTANTS
    BlockTxs,        \* sequences of kinds of transactions a second may carry
    PageSize,        \* transactions the API returns at most, the newest first
    IndexLag,        \* seconds the API may lag behind the chain
    TtlPeriods,      \* time to live of the cached timestamp (120 s), in periods (10 s)
    MaxRunPeriods,   \* periods a run may take, at most
    MaxTime,         \* bound: last second of the chain
    MaxFailures      \* bound: awaits that throw

\* What the arguments of a transaction call: an endpoint of the configured
\* list, another one, or nothing that decodes.
Kinds == {"tracked", "other", "malformed"}

ASSUME TransactionProcessorAssumption ==
    /\ BlockTxs \subseteq Seq(Kinds)
    /\ {PageSize, IndexLag, TtlPeriods, MaxRunPeriods, MaxTime, MaxFailures} \subseteq Nat

VARIABLES
    now,        \* timestamp of the last block of shard 0
    blocks,     \* blocks[s]: kinds of the transactions of second s, in order
    cached,     \* lastProcessedTimestamp, 0 when missing
    age,        \* periods since the timestamp was stored
    run,        \* the run in progress
    observed,   \* observed[s][i]: how often transaction i of second s was observed
    first,      \* second the current chain of intervals started at
    passed,     \* latest timestamp ever stored
    missed,     \* transactions of intervals that are done which the API did not return
    failures

vars == <<now, blocks, cached, age, run, observed, first, passed, missed, failures>>

PCs == {"idle", "getLast", "getNow", "keep", "fetch", "observe", "advance"}

\* todo: transactions <<second, position>> of the page that was returned, observed from the
\* newest on; missed: those of the interval that were not returned.
Idle == [pc |-> "idle", last |-> 0, current |-> 0, todo |-> {}, missed |-> {}, periods |-> 0]

Kind(tx) == blocks[tx[1]][tx[2]]

Newer(tx, other) == \/ tx[1] > other[1]
                    \/ tx[1] = other[1] /\ tx[2] > other[2]

Transactions(from, to) == UNION {{s} \X DOMAIN blocks[s] : s \in from..to}

\* getTransactions answers with the first page of an interval.
FirstPage(all) == {tx \in all : Cardinality({other \in all : Newer(other, tx)}) < PageSize}

\* How much of an interval the API has indexed, when it is asked for it.
Indexed(last, current) == {s \in last..current : s = current \/ now <= s + IndexLag}

\* The transactions from a second on are asked for, of which the API knows those up to seen.
Asked(from, seen) ==
    LET page == FirstPage(Transactions(from, seen)) IN
    [run EXCEPT !.pc = "observe", !.todo = page,
                !.missed = Transactions(from, run.current) \ page]

\* The transactions before the first one that does not decode.
Decoded(page) ==
    {tx \in page : \A other \in page : Kind(other) = "malformed" => Newer(tx, other)}

Store(timestamp) ==
    /\ cached' = timestamp
    /\ age' = 0
    /\ passed' = IF timestamp > passed THEN timestamp ELSE passed

--------------------------------------------------------------------------------
Init ==
    /\ now = 1
    /\ blocks = <<<<>>>>
    /\ cached = 0
    /\ age = 0
    /\ run = Idle
    /\ observed = <<<<>>>>
    /\ first = 0
    /\ passed = 0 /\ missed = {} /\ failures = 0

NextBlock(txs) ==
    /\ now < MaxTime
    /\ now' = now + 1
    /\ blocks' = Append(blocks, txs)
    /\ observed' = Append(observed, [i \in DOMAIN txs |-> 0])
    /\ UNCHANGED <<cached, age, run, first, passed, missed, failures>>

\* The cron fires: isProcessing keeps it from starting a second run.  A period
\* has passed, and the timestamp expires.
CronFires ==
    /\ run.periods < MaxRunPeriods
    /\ run' = IF run.pc = "idle" THEN [Idle EXCEPT !.pc = "getLast"]
              ELSE [run EXCEPT !.periods = @ + 1]
    /\ age' = IF age < TtlPeriods THEN age + 1 ELSE age
    /\ cached' = IF age + 1 >= TtlPeriods THEN 0 ELSE cached
    /\ UNCHANGED <<now, blocks, observed, first, passed, missed, failures>>

GetLast ==
    /\ run.pc = "getLast"
    /\ run' = [run EXCEPT !.pc = "getNow", !.last = cached]
    /\ UNCHANGED <<now, blocks, cached, age, observed, first, passed, missed, failures>>

GetNow ==
    /\ run.pc = "getNow"
    /\ LET last == IF run.last = 0 THEN now ELSE run.last IN
         run' = [run EXCEPT !.pc = IF last = now THEN "keep" ELSE "fetch",
                            !.last = last, !.current = now]
    /\ UNCHANGED <<now, blocks, cached, age, observed, first, passed, missed, failures>>

Keep ==
    /\ run.pc = "keep"
    /\ Store(run.current)
    /\ first' = IF cached = 0 THEN run.current ELSE first
    /\ run' = Idle
    /\ UNCHANGED <<now, blocks, observed, missed, failures>>

\* Fault: the interval includes the second the last run ended with.
FetchInclusive ==
    /\ run.pc = "fetch"
    /\ \E seen \in Indexed(run.last, run.current) : run' = Asked(run.last, seen)
    /\ UNCHANGED <<now, blocks, cached, age, observed, first, passed, missed, failures>>

Fetch ==
    /\ run.pc = "fetch"
    /\ \E seen \in Indexed(run.last, run.current) : run' = Asked(run.last + 1, seen)
    /\ UNCHANGED <<now, blocks, cached, age, observed, first, passed, missed, failures>>

Counted == [s \in DOMAIN observed |-> [i \in DOMAIN observed[s] |->
              IF <<s, i>> \in Decoded(run.todo) /\ blocks[s][i] = "tracked"
              THEN observed[s][i] + 1 ELSE observed[s][i]]]

Throws == \E tx \in run.todo : Kind(tx) = "malformed"

\* Fault: a run that throws stores the timestamp it started with again.
ObserveRenews ==
    /\ run.pc = "observe"
    /\ observed' = Counted
    /\ IF Throws
         THEN run' = Idle /\ Store(run.last)
         ELSE /\ run' = [run EXCEPT !.pc = "advance", !.todo = {}]
              /\ UNCHANGED <<passed, cached, age>>
    /\ UNCHANGED <<now, blocks, first, missed, failures>>

\* The loop over the transactions; it throws at the first that does not decode.
Observe ==
    /\ run.pc = "observe"
    /\ observed' = Counted
    /\ run' = IF Throws THEN Idle ELSE [run EXCEPT !.pc = "advance", !.todo = {}]
    /\ UNCHANGED <<now, blocks, cached, age, first, passed, missed, failures>>

Advance ==
    /\ run.pc = "advance"
    /\ Store(run.current)
    /\ first' = IF cached = 0 THEN run.last ELSE first
    /\ missed' = missed \cup run.missed
    /\ run' = Idle
    /\ UNCHANGED <<now, blocks, observed, failures>>

\* Fault: the timestamp is stored although the run throws.
RunFailsAdvances ==
    /\ run.pc \in {"fetch", "observe", "advance"}
    /\ failures < MaxFailures
    /\ failures' = failures + 1
    /\ Store(run.current)
    /\ first' = IF cached = 0 THEN run.last ELSE first
    /\ missed' = missed \cup run.missed
    /\ run' = Idle
    /\ UNCHANGED <<now, blocks, observed>>

\* An await throws; what was observed stays observed.
RunFails ==
    /\ run.pc # "idle"
    /\ failures < MaxFailures
    /\ failures' = failures + 1
    /\ run' = Idle
    /\ UNCHANGED <<now, blocks, cached, age, observed, first, passed, missed>>

RunStep == GetLast \/ GetNow \/ Keep \/ Fetch \/ Observe \/ Advance \/ RunFails

Next ==
    \/ \E txs \in BlockTxs : NextBlock(txs)
    \/ CronFires
    \/ RunStep

Spec == Init /\ [][Next]_vars

\* Blocks are produced, the cron fires and its runs complete.
FairSpec ==
    /\ Spec
    /\ WF_vars(\E txs \in BlockTxs : NextBlock(txs))
    /\ WF_vars(CronFires)
    /\ WF_vars(RunStep)

--------------------------------------------------------------------------------
(* Properties                                                              *)

\* Type correctness.  No timestamp is ahead of the chain, and a run covers an
\* interval that is.
TypeOK ==
    /\ now \in Nat /\ Len(blocks) = now
    /\ \A s \in 1..now : blocks[s] \in Seq(Kinds)
    /\ cached \in 0..now
    /\ age \in 0..TtlPeriods
    /\ run.pc \in PCs /\ run.last \in 0..now /\ run.current \in 0..now
    /\ run.pc \in {"fetch", "observe", "advance"} => run.last < run.current
    /\ DOMAIN observed = 1..now
    /\ \A s \in 1..now : observed[s] \in [DOMAIN blocks[s] -> Nat]
    /\ {first, passed, failures} \subseteq Nat
    /\ missed \cup run.missed \cup run.todo \subseteq Transactions(1, now)

\* What a stored timestamp passed is never observed again, although runs throw
\* halfway, and although the timestamp expires, even in the middle of a run.
PassedIsFinal ==
    [][\A s \in 1..now : observed'[s] # observed[s] => s > passed]_vars

\* While the timestamp does not expire, every tracked transaction is observed, whichever runs
\* throw, unless the API did not return it to the run that passed its second: it was indexed
\* late, as one of the last IndexLag seconds of its interval may be, or its page was full.  All
\* variables keep their types.
NoGaps ==
    /\ TypeOK
    /\ cached # 0 =>
        \A s \in (first + 1)..cached : \A i \in DOMAIN blocks[s] :
            blocks[s][i] = "tracked" => observed[s][i] >= 1 \/ <<s, i>> \in missed

\* The histogram counts a transaction once, and once more for each run that threw at an await
\* after it had observed it.  Only behind a transaction that does not decode, which makes
\* every run throw that observed those after it, may it be counted any more often.
Blocked(s, i) ==
    \E r \in 1..s : \E j \in DOMAIN blocks[r] :
        blocks[r][j] = "malformed" /\ Newer(<<s, i>>, <<r, j>>)

ObservedOnce ==
    \A s \in 1..now : \A i \in DOMAIN blocks[s] :
        Blocked(s, i) \/ observed[s][i] <= 1 + failures

\* The timestamp catches up with the chain for good.  A transaction that does
\* not decode makes every run throw, until the timestamp expires.
CatchesUp == <>[](cached = MaxTime)
================================================================================
