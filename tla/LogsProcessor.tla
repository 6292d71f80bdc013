------------------------------ MODULE LogsProcessor ------------------------------
(***************************************************************************)
(* LogsProcessorService: once a minute it asks the log index for the swaps *)
(* and the farm exits of an interval of seconds and stores, per second,    *)
(* how many MEX were burned.  The interval starts at the timestamp the     *)
(* last run left in the cache and ends one minute (Delay) before the head  *)
(* of the chain, because the index follows the chain with a lag.           *)
(*                                                                         *)
(* Both ends are inclusive, so the second where two intervals meet is      *)
(* processed twice; the cached timestamp has a time to live; a run may     *)
(* throw at any await; and every cache warmer instance runs the cron.      *)
(***************************************************************************)
EXTENDS Naturals, FiniteSets

CONSTANTS
    Procs,        \* cache warmer instances
    Delay,        \* seconds the interval ends before the head of the chain
    BlockLogs,    \* sets of kinds of logs a second may carry
    IndexLag,     \* seconds until a log is in the index, at most
    MaxTime,      \* bound: last second of the chain
    MaxFailures,  \* bound: runs that throw or crash
    MaxWriteFailures,  \* bound: failed writes
    MaxExpiries   \* bound: times the cached timestamp expires

ASSUME LogsProcessorAssumption ==
    /\ Delay \in Nat \ {0}
    /\ BlockLogs \subseteq SUBSET {"fixedInput", "fixedOutput", "bothSwaps", "exitFarm"}
    /\ IndexLag \in Nat
    /\ IndexLag <= Delay
    /\ MaxTime \in Nat /\ MaxTime > Delay
    /\ MaxFailures \in Nat
    /\ MaxWriteFailures \in Nat
    /\ MaxExpiries \in Nat

VARIABLES
    now,       \* timestamp of the last block of shard 0
    logs,      \* logs[s]: kinds of the logs of second s
    indexed,   \* indexed[s]: those the index returns
    cached,    \* lastLogProcessedTimestamp, 0 when missing
    proc,      \* proc[p]: the run of instance p
    table,     \* table[m][s]: burned amount stored for measure m and second s
    first,     \* second the current chain of intervals started at
    failures, writeFailures, expiries

vars == <<now, logs, indexed, cached, proc, table, first, failures, writeFailures, expiries>>

counters == <<failures, writeFailures, expiries>>

Seconds == 1..MaxTime
Measures == {"feeBurned", "penaltyBurned"}

\* What the log of one transaction holds: swaps of one kind, of both kinds, or
\* the exit from a farm.  Each burns one MEX.
Kinds == {"fixedInput", "fixedOutput", "bothSwaps", "exitFarm"}

Matches == [fixedInput  |-> {"fixedInput", "bothSwaps"},
            fixedOutput |-> {"fixedOutput", "bothSwaps"},
            exitFarm    |-> {"exitFarm"}]

Nothing == [s \in Seconds |-> 0]

\* getTransactionsLogs: the indexed logs of [last, current] that match.
Found(p, query) ==
    [s \in Seconds |-> IF proc[p].last <= s /\ s <= proc[p].current
                       THEN Cardinality(indexed[s] \cap Matches[query]) ELSE 0]

Plus(f, g) == [s \in Seconds |-> f[s] + g[s]]

\* Burned amount of a second.  A log with both kinds of swaps is found by both
\* queries and counts twice.
Burned(m, s) ==
    IF m = "penaltyBurned" THEN Cardinality(logs[s] \cap Matches["exitFarm"])
    ELSE Cardinality(logs[s] \cap Matches["fixedInput"])
           + Cardinality(logs[s] \cap Matches["fixedOutput"])

PCs == {"idle", "getLast", "getNow", "keep", "fixedInput", "fixedOutput", "writeFees",
        "exitFarm", "writePenalty", "advance"}

Run == [pc : PCs, last : Nat, current : Nat, map : [Seconds -> Nat]]

Idle == [pc |-> "idle", last |-> 0, current |-> 0, map |-> Nothing]

Finish(p) == proc' = [proc EXCEPT ![p] = Idle]

--------------------------------------------------------------------------------
Init ==
    /\ now = Delay + 1
    /\ logs = [s \in Seconds |-> {}]
    /\ indexed = [s \in Seconds |-> {}]
    /\ cached = 0
    /\ proc = [p \in Procs |-> Idle]
    /\ table = [m \in Measures |-> Nothing]
    /\ first = 0
    /\ failures = 0 /\ writeFailures = 0 /\ expiries = 0

\* A block of the next second with some logs.  By then the index has what is
\* IndexLag seconds old.
NextBlock(kinds) ==
    /\ now < MaxTime
    /\ \A s \in Seconds : s + IndexLag <= now + 1 => indexed[s] = logs[s]
    /\ now' = now + 1
    /\ logs' = [logs EXCEPT ![now + 1] = kinds]
    /\ UNCHANGED <<indexed, cached, proc, table, first, counters>>

Index(s, kind) ==
    /\ kind \in logs[s] \ indexed[s]
    /\ indexed' = [indexed EXCEPT ![s] = @ \cup {kind}]
    /\ UNCHANGED <<now, logs, cached, proc, table, first, counters>>

\* handleNewLogs: a run in progress (isProcessing) makes the cron return.
StartRun(p) ==
    /\ proc[p].pc = "idle"
    /\ proc' = [proc EXCEPT ![p].pc = "getLast"]
    /\ UNCHANGED <<now, logs, indexed, cached, table, first, counters>>

GetLast(p) ==
    /\ proc[p].pc = "getLast"
    /\ proc' = [proc EXCEPT ![p].pc = "getNow", ![p].last = cached]
    /\ UNCHANGED <<now, logs, indexed, cached, table, first, counters>>

\* getProcessingInterval; without a last timestamp the interval is empty.  The
\* map of the fees is cleared.
GetNow(p) ==
    /\ proc[p].pc = "getNow"
    /\ LET current == now - Delay
           last == IF proc[p].last = 0 THEN current ELSE proc[p].last IN
         proc' = [proc EXCEPT ![p] = [pc |-> IF last = current THEN "keep" ELSE "fixedInput",
                                      last |-> last, current |-> current, map |-> Nothing]]
    /\ UNCHANGED <<now, logs, indexed, cached, table, first, counters>>

\* The empty interval only renews the cached timestamp.  (first restarts when
\* there was none in the cache: what lies before will not be looked at.)
Keep(p) ==
    /\ proc[p].pc = "keep"
    /\ cached' = proc[p].current
    /\ first' = IF cached = 0 THEN proc[p].current ELSE first
    /\ Finish(p)
    /\ UNCHANGED <<now, logs, indexed, table, counters>>

\* getSwapLogs, for one kind of swap and then for the other.
GetSwapLogs(p) ==
    /\ proc[p].pc \in {"fixedInput", "fixedOutput"}
    /\ proc' = [proc EXCEPT ![p].map = Plus(proc[p].map, Found(p, proc[p].pc)),
                            ![p].pc = IF proc[p].pc = "fixedInput"
                                      THEN "fixedOutput" ELSE "writeFees"]
    /\ UNCHANGED <<now, logs, indexed, cached, table, first, counters>>

Measure(p) == IF proc[p].pc = "writeFees" THEN "feeBurned" ELSE "penaltyBurned"

AfterWrite(p) == IF proc[p].pc = "writeFees" THEN "exitFarm" ELSE "advance"

\* Fault: a second processed again adds to what is stored.
WriteRecordsAdds(p) ==
    /\ proc[p].pc \in {"writeFees", "writePenalty"}
    /\ table' = [table EXCEPT ![Measure(p)] = Plus(@, proc[p].map)]
    /\ proc' = [proc EXCEPT ![p].pc = AfterWrite(p), ![p].map = Nothing]
    /\ UNCHANGED <<now, logs, indexed, cached, first, counters>>

\* writeRecords: the seconds of the map are stored, over what was there.
WriteRecords(p) ==
    /\ proc[p].pc \in {"writeFees", "writePenalty"}
    /\ table' = [table EXCEPT ![Measure(p)] =
                   [s \in Seconds |-> IF proc[p].map[s] > 0 THEN proc[p].map[s] ELSE @[s]]]
    /\ proc' = [proc EXCEPT ![p].pc = AfterWrite(p), ![p].map = Nothing]
    /\ UNCHANGED <<now, logs, indexed, cached, first, counters>>

\* A failed write is logged, and the run goes on as if it had succeeded.
WriteFails(p) ==
    /\ proc[p].pc \in {"writeFees", "writePenalty"}
    /\ writeFailures < MaxWriteFailures
    /\ writeFailures' = writeFailures + 1
    /\ proc' = [proc EXCEPT ![p].pc = AfterWrite(p), ![p].map = Nothing]
    /\ UNCHANGED <<now, logs, indexed, cached, table, first, failures, expiries>>

GetExitFarmLogs(p) ==
    /\ proc[p].pc = "exitFarm"
    /\ proc' = [proc EXCEPT ![p].map = Found(p, "exitFarm"), ![p].pc = "writePenalty"]
    /\ UNCHANGED <<now, logs, indexed, cached, table, first, counters>>

Advance(p) ==
    /\ proc[p].pc = "advance"
    /\ cached' = proc[p].current
    /\ first' = IF cached = 0 THEN proc[p].last ELSE first
    /\ Finish(p)
    /\ UNCHANGED <<now, logs, indexed, table, counters>>

\* Fault: the timestamp advances although the run throws.
RunFailsAdvances(p) ==
    /\ proc[p].pc # "idle"
    /\ failures < MaxFailures
    /\ failures' = failures + 1
    /\ cached' = IF proc[p].current > 0 THEN proc[p].current ELSE cached
    /\ first' = IF cached = 0 THEN proc[p].last ELSE first
    /\ Finish(p)
    /\ UNCHANGED <<now, logs, indexed, table, writeFailures, expiries>>

\* Fault: isProcessing is not reset after an exception.
RunFailsStuck(p) ==
    /\ proc[p].pc # "idle"
    /\ failures < MaxFailures
    /\ failures' = failures + 1
    /\ proc' = [proc EXCEPT ![p].pc = "processing"]
    /\ UNCHANGED <<now, logs, indexed, cached, table, first, writeFailures, expiries>>

\* An await throws (the error is logged, isProcessing reset) or the process dies.
RunFails(p) ==
    /\ proc[p].pc # "idle"
    /\ failures < MaxFailures
    /\ failures' = failures + 1
    /\ Finish(p)
    /\ UNCHANGED <<now, logs, indexed, cached, table, first, writeFailures, expiries>>

\* The time to live of the cached timestamp is two periods of the cron.
Expire ==
    /\ cached # 0
    /\ expiries < MaxExpiries
    /\ expiries' = expiries + 1
    /\ cached' = 0
    /\ UNCHANGED <<now, logs, indexed, proc, table, first, failures, writeFailures>>

RunStep(p) ==
    \/ GetLast(p)
    \/ GetNow(p)
    \/ Keep(p)
    \/ GetSwapLogs(p)
    \/ WriteRecords(p)
    \/ WriteFails(p)
    \/ GetExitFarmLogs(p)
    \/ Advance(p)
    \/ RunFails(p)

Next ==
    \/ \E kinds \in BlockLogs : NextBlock(kinds)
    \/ \E s \in Seconds, kind \in Kinds : Index(s, kind)
    \/ \E p \in Procs : StartRun(p)
    \/ \E p \in Procs : RunStep(p)
    \/ Expire

Spec == Init /\ [][Next]_vars

\* Blocks are produced and indexed, the cron fires and its runs complete.
FairSpec ==
    /\ Spec
    /\ WF_vars(\E kinds \in BlockLogs : NextBlock(kinds))
    /\ WF_vars(\E s \in Seconds, kind \in Kinds : Index(s, kind))
    /\ \A p \in Procs : WF_vars(StartRun(p)) /\ WF_vars(RunStep(p))

--------------------------------------------------------------------------------
(* Properties                                                              *)

\* Type correctness.  The timestamp is missing or Delay behind the chain, and
\* the index holds nothing the chain does not.
TypeOK ==
    /\ now \in Nat
    /\ logs \in [Seconds -> SUBSET Kinds]
    /\ indexed \in [Seconds -> SUBSET Kinds]
    /\ \A s \in Seconds : indexed[s] \subseteq logs[s]
    /\ cached \in 0..(now - Delay)
    /\ proc \in [Procs -> Run]
    /\ table \in [Measures -> [Seconds -> Nat]]
    /\ first \in Nat
    /\ failures \in Nat /\ writeFailures \in Nat /\ expiries \in Nat

\* A second has its exact amount or nothing: overlapping intervals, repeated
\* runs and concurrent instances never count a log twice or a part of a second.
ExactOrMissing ==
    \A m \in Measures, s \in Seconds : table[m][s] \in {0, Burned(m, s)}

\* Burned amount of a kind of logs in the interval of a run.
Scanned(p, query, s) ==
    IF proc[p].last <= s /\ s <= proc[p].current
    THEN Cardinality(logs[s] \cap Matches[query]) ELSE 0

\* Nothing has been logged after the head of the chain, and the index knows
\* everything up to IndexLag before it.
IndexInv ==
    /\ Delay < now /\ now <= MaxTime
    /\ \A s \in Seconds : s > now => logs[s] = {}
    /\ \A s \in Seconds : s < now /\ s + IndexLag <= now => indexed[s] = logs[s]

\* A run looks only at seconds the index knows in full, and holds their amounts.
RunInv(p) ==
    LET run == proc[p] IN
    /\ run.last <= now - Delay
    /\ run.pc \notin {"idle", "getLast", "getNow"} =>
           run.last <= run.current /\ run.current <= now - Delay
    /\ run.pc = "fixedInput" => \A s \in Seconds : run.map[s] = 0
    /\ run.pc = "fixedOutput" => \A s \in Seconds : run.map[s] = Scanned(p, "fixedInput", s)
    /\ run.pc = "writeFees" => \A s \in Seconds :
           run.map[s] = Scanned(p, "fixedInput", s) + Scanned(p, "fixedOutput", s)
    /\ run.pc = "writePenalty" => \A s \in Seconds : run.map[s] = Scanned(p, "exitFarm", s)

\* The inductive invariant: what a run is about to store is exact, because the end
\* of its interval is Delay behind the chain and the index is at most IndexLag behind.
ScanInv == TypeOK /\ IndexInv /\ (\A p \in Procs : RunInv(p)) /\ ExactOrMissing

\* Without a failed write and an expired timestamp, every second from the start
\* to the cached timestamp has its amount: no run that throws, dies or overlaps
\* with another one leaves a gap behind.  All variables keep their types.
NoGaps ==
    /\ TypeOK
    /\ cached # 0 /\ writeFailures = 0 /\ expiries = 0 =>
        \A m \in Measures, s \in first..cached :
            first < cached => table[m][s] = Burned(m, s)

\* The timestamp catches up with the chain for good, as long as it is renewed.
CatchesUp == <>[](cached = MaxTime - Delay)
================================================================================
