-------------------------- MODULE LogsProcessor_proofs --------------------------
(***************************************************************************)
(* What the logs processor stores is exact, for any number of instances,   *)
(* failures and expirations, and any delay at least as long as the lag of  *)
(* the index; and what a single instance has passed is complete.           *)
(***************************************************************************)
EXTENDS LogsProcessor, FiniteSetTheorems, TLAPS

Queries == {"fixedInput", "fixedOutput", "exitFarm"}

\* The amount of a kind of logs in a second is a number, and none without logs.
LEMMA HitsType ==
    ASSUME NEW query \in Queries, NEW set \in SUBSET Kinds
    PROVE  /\ Cardinality(set \cap Matches[query]) \in Nat
           /\ set = {} => Cardinality(set \cap Matches[query]) = 0
<1>1. IsFiniteSet(Kinds)
  <2> DEFINE A == {}  B == A \cup {"fixedInput"}  C == B \cup {"fixedOutput"}
             D == C \cup {"bothSwaps"}  E == D \cup {"exitFarm"}
  <2>1. IsFiniteSet(A) BY FS_EmptySet
  <2>2. IsFiniteSet(B) BY <2>1, FS_AddElement
  <2>3. IsFiniteSet(C) BY <2>2, FS_AddElement
  <2>4. IsFiniteSet(D) BY <2>3, FS_AddElement
  <2>5. IsFiniteSet(E) BY <2>4, FS_AddElement
  <2>6. E = Kinds BY DEF Kinds
  <2>. QED BY <2>5, <2>6
<1>2. IsFiniteSet(set \cap Matches[query])
  <2>1. IsFiniteSet(set) BY <1>1, FS_Subset
  <2>. QED BY <2>1, FS_Subset
<1>3. Cardinality(set \cap Matches[query]) \in Nat
  BY <1>2, FS_CardinalityType
<1>4. ASSUME set = {} PROVE Cardinality(set \cap Matches[query]) = 0
  <2>1. set \cap Matches[query] = {} BY <1>4
  <2>. QED BY <2>1, FS_EmptySet
<1>. QED BY <1>3, <1>4

\* Amounts of a run and of a second are numbers.
LEMMA AmountType ==
    ASSUME TypeOK
    PROVE  /\ \A p \in Procs, query \in Queries, s \in Seconds :
                  Scanned(p, query, s) \in Nat
           /\ \A m \in Measures, s \in Seconds :
                  Burned(m, s) \in Nat /\ (logs[s] = {} => Burned(m, s) = 0)
<1>1. \A s \in Seconds : logs[s] \in SUBSET Kinds BY DEF TypeOK
<1>2. \A query \in Queries, s \in Seconds :
         /\ Cardinality(logs[s] \cap Matches[query]) \in Nat
         /\ logs[s] = {} => Cardinality(logs[s] \cap Matches[query]) = 0
  BY <1>1, HitsType
<1>3. \A p \in Procs, query \in Queries, s \in Seconds : Scanned(p, query, s) \in Nat
  BY <1>2 DEF Scanned
<1>4. \A m \in Measures, s \in Seconds :
         Burned(m, s) \in Nat /\ (logs[s] = {} => Burned(m, s) = 0)
  BY <1>2 DEF Burned, Queries, Measures
<1>. QED BY <1>3, <1>4

--------------------------------------------------------------------------------
LEMMA Initially == Init => ScanInv
<1> SUFFICES ASSUME Init PROVE ScanInv OBVIOUS
<1>. USE LogsProcessorAssumption
<1>1. Idle \in Run BY DEF Idle, Run, PCs, Nothing
<1>2. TypeOK
  <2>1. proc \in [Procs -> Run] BY <1>1 DEF Init
  <2>2. table \in [Measures -> [Seconds -> Nat]] BY DEF Init, Nothing
  <2>3. cached \in 0..(now - Delay) BY DEF Init
  <2>4. /\ logs \in [Seconds -> SUBSET Kinds] /\ indexed \in [Seconds -> SUBSET Kinds]
        /\ \A s \in Seconds : indexed[s] \subseteq logs[s]
    BY DEF Init
  <2>. QED BY <2>1, <2>2, <2>3, <2>4 DEF TypeOK, Init
<1>3. IndexInv BY DEF Init, IndexInv
<1>4. ASSUME NEW p \in Procs PROVE RunInv(p)
  BY DEF Init, RunInv, Idle
<1>5. ExactOrMissing BY DEF Init, ExactOrMissing, Nothing
<1>. QED BY <1>2, <1>3, <1>4, <1>5 DEF ScanInv

\* A run that does not take the step keeps its invariant while the logs of past
\* seconds stay the same.
LEMMA SteadyRun ==
    ASSUME ScanInv, NEW p \in Procs, proc'[p] = proc[p],
           now' \in Nat, now <= now', \A s \in Seconds : s <= now => logs'[s] = logs[s]
    PROVE  RunInv(p)'
<1>. USE LogsProcessorAssumption
<1>1. RunInv(p) BY DEF ScanInv
<1>2. proc[p] \in Run /\ now \in Nat BY DEF ScanInv, TypeOK
<1>3. ASSUME NEW query \in Queries, NEW s \in Seconds, proc[p].pc \notin {"idle", "getLast", "getNow"}
      PROVE  Scanned(p, query, s)' = Scanned(p, query, s)
  <2>1. proc[p].current <= now - Delay BY <1>1, <1>3 DEF RunInv
  <2>2. s <= proc[p].current => logs'[s] = logs[s] BY <2>1, <1>2 DEF Seconds, Run
  <2>. QED BY <2>2 DEF Scanned
<1>. QED BY <1>1, <1>2, <1>3 DEF RunInv, Queries, Run

\* A block logs nothing in a past second; the second it logs in holds no amount yet.
LEMMA BlockKeepsScanInv ==
    ASSUME ScanInv, NEW kinds \in BlockLogs, NextBlock(kinds)
    PROVE  ScanInv'
<1>. USE LogsProcessorAssumption
<1>1. /\ TypeOK /\ IndexInv /\ ExactOrMissing
      /\ now \in Nat /\ now + 1 \in Seconds /\ kinds \in SUBSET Kinds
  BY DEF ScanInv, TypeOK, NextBlock, Seconds, Kinds
<1>2. /\ \A s \in Seconds : s # now + 1 => logs'[s] = logs[s]
      /\ logs'[now + 1] = kinds /\ logs[now + 1] = {}
      /\ logs' \in [Seconds -> SUBSET Kinds]
  BY <1>1 DEF NextBlock, IndexInv, TypeOK
<1>3. TypeOK'
  <2>1. \A s \in Seconds : indexed'[s] \subseteq logs'[s]
    BY <1>1, <1>2 DEF TypeOK, NextBlock
  <2>2. cached' \in 0..(now' - Delay)
    BY <1>1 DEF TypeOK, NextBlock
  <2>. QED BY <1>1, <1>2, <2>1, <2>2 DEF TypeOK, NextBlock, counters
<1>4. IndexInv'
  BY <1>1, <1>2 DEF IndexInv, NextBlock, Seconds
<1>5. ASSUME NEW p \in Procs PROVE RunInv(p)'
  BY <1>1, <1>2, SteadyRun DEF NextBlock, Seconds
<1>6. ExactOrMissing'
  <2> SUFFICES ASSUME NEW m \in Measures, NEW s \in Seconds
               PROVE  table[m][s] \in {0, Burned(m, s)'}
    BY DEF ExactOrMissing, NextBlock
  <2>1. table[m][s] \in {0, Burned(m, s)} BY <1>1 DEF ExactOrMissing
  <2>2. CASE s = now + 1
    BY <2>1, <2>2, <1>1, <1>2, AmountType
  <2>3. CASE s # now + 1
    BY <2>1, <2>3, <1>2 DEF Burned
  <2>. QED BY <2>2, <2>3
<1>. QED BY <1>3, <1>4, <1>5, <1>6 DEF ScanInv

\* The index only completes seconds, and no run looks at those it may complete.
LEMMA IndexKeepsScanInv ==
    ASSUME ScanInv, NEW s0 \in Seconds, NEW kind \in Kinds, Index(s0, kind)
    PROVE  ScanInv'
<1>. USE LogsProcessorAssumption
<1>1. TypeOK /\ IndexInv /\ ExactOrMissing /\ now \in Nat BY DEF ScanInv, TypeOK
<1>2. /\ indexed' \in [Seconds -> SUBSET Kinds]
      /\ \A s \in Seconds : indexed[s] \subseteq indexed'[s] /\ indexed'[s] \subseteq logs[s]
  BY <1>1 DEF Index, TypeOK
<1>3. TypeOK' BY <1>1, <1>2 DEF TypeOK, Index, counters
<1>4. IndexInv'
  <2>1. \A s \in Seconds : indexed[s] = logs[s] => indexed'[s] = logs[s] BY <1>2
  <2>. QED BY <1>1, <2>1 DEF IndexInv, Index
<1>5. ASSUME NEW p \in Procs PROVE RunInv(p)'
  BY <1>1, SteadyRun DEF Index
<1>6. ExactOrMissing' BY <1>1 DEF ExactOrMissing, Index, Burned
<1>. QED BY <1>3, <1>4, <1>5, <1>6 DEF ScanInv

LEMMA ExpireKeepsScanInv == ScanInv /\ Expire => ScanInv'
<1> SUFFICES ASSUME ScanInv, Expire PROVE ScanInv' OBVIOUS
<1>. USE LogsProcessorAssumption
<1>1. TypeOK /\ IndexInv /\ ExactOrMissing /\ now \in Nat BY DEF ScanInv, TypeOK
<1>2. TypeOK' BY <1>1 DEF TypeOK, Expire
<1>3. IndexInv' BY <1>1 DEF IndexInv, Expire
<1>4. ASSUME NEW p \in Procs PROVE RunInv(p)'
  BY <1>1, SteadyRun DEF Expire
<1>5. ExactOrMissing' BY <1>1 DEF ExactOrMissing, Expire, Burned
<1>. QED BY <1>2, <1>3, <1>4, <1>5 DEF ScanInv

--------------------------------------------------------------------------------
\* The index answers a run with the exact amounts of its interval.
LEMMA FoundIsExact ==
    ASSUME ScanInv, NEW p \in Procs, NEW query \in Queries, NEW s \in Seconds,
           proc[p].pc \notin {"idle", "getLast", "getNow"}
    PROVE  Found(p, query)[s] = Scanned(p, query, s)
<1>. USE LogsProcessorAssumption
<1>1. RunInv(p) /\ IndexInv /\ now \in Nat /\ proc[p] \in Run BY DEF ScanInv, TypeOK
<1>2. s <= proc[p].current => indexed[s] = logs[s]
  <2> SUFFICES ASSUME s <= proc[p].current PROVE s < now /\ s + IndexLag <= now
    BY <1>1 DEF IndexInv
  <2>1. s <= now - Delay BY <1>1 DEF RunInv, Run, Seconds
  <2>. QED BY <1>1, <2>1 DEF Seconds
<1>. QED BY <1>2 DEF Found, Scanned

\* A run that moves on leaves chain and index alone: what is left to show is its
\* own invariant and the rows it stores.
LEMMA RunMoves ==
    ASSUME ScanInv, NEW p \in Procs, NEW run \in Run, proc' = [proc EXCEPT ![p] = run],
           UNCHANGED <<now, logs, indexed>>, RunInv(p)',
           cached' \in 0..(now - Delay), first' \in Nat,
           failures' \in Nat, writeFailures' \in Nat, expiries' \in Nat,
           table' \in [Measures -> [Seconds -> Nat]],
           \A m \in Measures, s \in Seconds : table'[m][s] \in {table[m][s], 0, Burned(m, s)}
    PROVE  ScanInv'
<1>1. TypeOK /\ IndexInv /\ ExactOrMissing /\ now \in Nat BY DEF ScanInv, TypeOK
<1>2. TypeOK' BY <1>1 DEF TypeOK
<1>3. IndexInv' BY <1>1 DEF IndexInv
<1>4. ASSUME NEW q \in Procs PROVE RunInv(q)'
  <2>1. CASE q = p BY <2>1
  <2>2. CASE q # p
    <3>1. proc'[q] = proc[q] BY <2>2, <1>1 DEF TypeOK
    <3>. QED BY <1>1, <3>1, SteadyRun
  <2>. QED BY <2>1, <2>2
<1>5. ExactOrMissing' BY <1>1 DEF ExactOrMissing, Burned
<1>. QED BY <1>2, <1>3, <1>4, <1>5 DEF ScanInv

LEMMA RunKeepsScanInv ==
    ASSUME ScanInv, NEW p \in Procs, StartRun(p) \/ RunStep(p)
    PROVE  ScanInv'
<1>. USE LogsProcessorAssumption
<1>1. /\ TypeOK /\ IndexInv /\ RunInv(p) /\ ExactOrMissing
      /\ now \in Nat /\ now - Delay \in Nat /\ proc \in [Procs -> Run] /\ proc[p] \in Run
  BY DEF ScanInv, TypeOK, IndexInv
<1>2. Idle \in Run BY DEF Idle, Run, PCs, Nothing
<1>3. CASE StartRun(p)
  <2> DEFINE run == [proc[p] EXCEPT !.pc = "getLast"]
  <2>1. run \in Run /\ proc' = [proc EXCEPT ![p] = run] BY <1>1, <1>3 DEF StartRun, Run, PCs
  <2>2. RunInv(p)' BY <1>1, <1>3, <2>1 DEF StartRun, RunInv
  <2>. QED BY <1>1, <1>3, <2>1, <2>2, RunMoves DEF StartRun, TypeOK, counters
<1>4. CASE GetLast(p)
  <2> DEFINE run == [proc[p] EXCEPT !.pc = "getNow", !.last = cached]
  <2>1. cached \in Nat /\ cached <= now - Delay BY <1>1 DEF TypeOK
  <2>2. run \in Run /\ proc' = [proc EXCEPT ![p] = run]
    BY <1>1, <1>4, <2>1 DEF GetLast, Run, PCs
  <2>3. RunInv(p)' BY <1>1, <1>4, <2>1, <2>2 DEF GetLast, RunInv
  <2>. QED BY <1>1, <1>4, <2>2, <2>3, RunMoves DEF GetLast, TypeOK, counters
<1>5. CASE GetNow(p)
  <2> DEFINE last == IF proc[p].last = 0 THEN now - Delay ELSE proc[p].last
             run == [pc |-> IF last = now - Delay THEN "keep" ELSE "fixedInput",
                     last |-> last, current |-> now - Delay, map |-> Nothing]
  <2>1. last \in Nat /\ last <= now - Delay BY <1>1 DEF RunInv, Run
  <2>2. Nothing \in [Seconds -> Nat] BY DEF Nothing
  <2>3. run \in Run BY <1>1, <2>1, <2>2 DEF Run, PCs
  <2>4. proc' = [proc EXCEPT ![p] = run] BY <1>5 DEF GetNow
  <2>5. RunInv(p)'
    BY <1>1, <1>5, <2>1, <2>4 DEF GetNow, RunInv, Nothing
  <2>. QED BY <1>1, <1>5, <2>3, <2>4, <2>5, RunMoves DEF GetNow, TypeOK, counters
<1>6. CASE Keep(p)
  <2>1. proc' = [proc EXCEPT ![p] = Idle] BY <1>6 DEF Keep, Finish
  <2>2. RunInv(p)' BY <1>1, <1>6, <2>1 DEF Keep, RunInv, Idle
  <2>3. proc[p].current \in 0..(now - Delay) BY <1>1, <1>6 DEF Keep, RunInv, Run
  <2>4. cached' \in 0..(now - Delay) /\ first' \in Nat
    BY <1>1, <1>6, <2>3 DEF Keep, TypeOK
  <2>. QED BY <1>1, <1>2, <1>6, <2>1, <2>2, <2>4, RunMoves DEF Keep, TypeOK, counters
<1>7. CASE GetSwapLogs(p)
  <2> DEFINE map == Plus(proc[p].map, Found(p, proc[p].pc))
             run == [proc[p] EXCEPT !.map = map,
                       !.pc = IF proc[p].pc = "fixedInput" THEN "fixedOutput" ELSE "writeFees"]
  <2>1. proc[p].pc \in Queries /\ proc[p].pc \notin {"idle", "getLast", "getNow"}
    BY <1>7 DEF GetSwapLogs, Queries
  <2>2. ASSUME NEW s \in Seconds PROVE map[s] = proc[p].map[s] + Scanned(p, proc[p].pc, s)
    <3>1. Found(p, proc[p].pc)[s] = Scanned(p, proc[p].pc, s) BY <2>1, FoundIsExact
    <3>. QED BY <3>1 DEF Plus
  <2>3. \A query \in Queries, s \in Seconds : Scanned(p, query, s) \in Nat
    BY <1>1, AmountType
  <2>4. map \in [Seconds -> Nat]
    <3>1. \A s \in Seconds : map[s] \in Nat BY <1>1, <2>1, <2>2, <2>3 DEF Run
    <3>. QED BY <3>1 DEF Plus
  <2>5. run \in Run BY <1>1, <2>4 DEF Run, PCs
  <2>6. proc' = [proc EXCEPT ![p] = run] BY <1>1, <1>7 DEF GetSwapLogs
  <2>7. \A query \in Queries, s \in Seconds : Scanned(p, query, s)' = Scanned(p, query, s)
    BY <1>1, <1>7, <2>6 DEF GetSwapLogs, Scanned, Run
  <2>8. RunInv(p)'
    <3> HIDE DEF map
    <3>1. /\ proc'[p].map = map /\ proc'[p].last = proc[p].last
          /\ proc'[p].current = proc[p].current
          /\ proc'[p].pc = IF proc[p].pc = "fixedInput" THEN "fixedOutput" ELSE "writeFees"
      BY <1>1, <2>6 DEF Run
    <3>2. now' = now BY <1>7 DEF GetSwapLogs
    <3>3. CASE proc[p].pc = "fixedInput"
      BY <1>1, <2>2, <2>3, <2>7, <3>1, <3>2, <3>3 DEF RunInv, Queries
    <3>4. CASE proc[p].pc = "fixedOutput"
      BY <1>1, <2>2, <2>3, <2>7, <3>1, <3>2, <3>4 DEF RunInv, Queries
    <3>. QED BY <1>7, <3>3, <3>4 DEF GetSwapLogs
  <2>. QED BY <1>1, <1>7, <2>5, <2>6, <2>8, RunMoves DEF GetSwapLogs, TypeOK, counters
<1>8. CASE WriteRecords(p)
  <2> DEFINE run == [proc[p] EXCEPT !.pc = AfterWrite(p), !.map = Nothing]
  <2>1. run \in Run BY <1>1 DEF Run, PCs, AfterWrite, Nothing
  <2>2. proc' = [proc EXCEPT ![p] = run] BY <1>1, <1>8 DEF WriteRecords
  <2>3. RunInv(p)' BY <1>1, <1>8, <2>2 DEF WriteRecords, RunInv, AfterWrite, Run
  <2>4. ASSUME NEW s \in Seconds
        PROVE  proc[p].map[s] \in {0, Burned(Measure(p), s)}
    <3>1. \/ \A query \in Queries : Scanned(p, query, s) = 0
          \/ \A query \in Queries : Scanned(p, query, s) = Cardinality(logs[s] \cap Matches[query])
      BY DEF Scanned
    <3>2. CASE proc[p].pc = "writeFees"
      BY <1>1, <3>1, <3>2 DEF RunInv, Burned, Measure, Queries
    <3>3. CASE proc[p].pc = "writePenalty"
      BY <1>1, <3>1, <3>3 DEF RunInv, Burned, Measure, Queries
    <3>. QED BY <1>8, <3>2, <3>3 DEF WriteRecords
  <2>5. Measure(p) \in Measures BY DEF Measure, Measures
  <2>6. table' \in [Measures -> [Seconds -> Nat]]
    BY <1>1, <1>8, <2>5 DEF WriteRecords, TypeOK, Run
  <2>7. ASSUME NEW m \in Measures, NEW s \in Seconds
        PROVE  table'[m][s] \in {table[m][s], 0, Burned(m, s)}
    <3>1. table'[m][s] = IF m = Measure(p) /\ proc[p].map[s] > 0
                         THEN proc[p].map[s] ELSE table[m][s]
      BY <1>1, <1>8, <2>5 DEF WriteRecords, TypeOK
    <3>. QED BY <2>4, <3>1
  <2>. QED BY <1>1, <1>8, <2>1, <2>2, <2>3, <2>6, <2>7, RunMoves
           DEF WriteRecords, TypeOK, counters
<1>9. CASE WriteFails(p)
  <2> DEFINE run == [proc[p] EXCEPT !.pc = AfterWrite(p), !.map = Nothing]
  <2>1. run \in Run BY <1>1 DEF Run, PCs, AfterWrite, Nothing
  <2>2. proc' = [proc EXCEPT ![p] = run] BY <1>1, <1>9 DEF WriteFails
  <2>3. RunInv(p)' BY <1>1, <1>9, <2>2 DEF WriteFails, RunInv, AfterWrite, Run
  <2>4. /\ UNCHANGED <<now, logs, indexed, cached, first, table>>
        /\ failures' \in Nat /\ writeFailures' \in Nat /\ expiries' \in Nat
    BY <1>1, <1>9 DEF WriteFails, TypeOK
  <2>5. cached' \in 0..(now - Delay) /\ first' \in Nat /\ table' \in [Measures -> [Seconds -> Nat]]
    BY <1>1, <2>4 DEF TypeOK
  <2>. QED BY <2>1, <2>2, <2>3, <2>4, <2>5, RunMoves
<1>10. CASE GetExitFarmLogs(p)
  <2> DEFINE map == Found(p, "exitFarm")
             run == [proc[p] EXCEPT !.map = map, !.pc = "writePenalty"]
  <2>1. ASSUME NEW s \in Seconds PROVE map[s] = Scanned(p, "exitFarm", s)
    BY <1>10, FoundIsExact DEF GetExitFarmLogs, Queries
  <2>2. \A s \in Seconds : Scanned(p, "exitFarm", s) \in Nat
    BY <1>1, AmountType DEF Queries
  <2>3. map \in [Seconds -> Nat]
    <3>1. \A s \in Seconds : map[s] \in Nat BY <2>1, <2>2
    <3>. QED BY <3>1 DEF Found
  <2>4. run \in Run BY <1>1, <2>3 DEF Run, PCs
  <2>5. proc' = [proc EXCEPT ![p] = run] BY <1>1, <1>10 DEF GetExitFarmLogs
  <2>6. \A s \in Seconds : Scanned(p, "exitFarm", s)' = Scanned(p, "exitFarm", s)
    BY <1>1, <1>10, <2>5 DEF GetExitFarmLogs, Scanned, Run
  <2>7. RunInv(p)'
    <3> HIDE DEF map
    <3>. QED BY <1>1, <1>10, <2>1, <2>5, <2>6 DEF GetExitFarmLogs, RunInv, Run
  <2>. QED BY <1>1, <1>10, <2>4, <2>5, <2>7, RunMoves DEF GetExitFarmLogs, TypeOK, counters
<1>11. CASE Advance(p)
  <2>1. proc' = [proc EXCEPT ![p] = Idle] BY <1>11 DEF Advance, Finish
  <2>2. RunInv(p)' BY <1>1, <1>11, <2>1 DEF Advance, RunInv, Idle
  <2>3. proc[p].current \in 0..(now - Delay) /\ proc[p].last \in Nat
    BY <1>1, <1>11 DEF Advance, RunInv, Run
  <2>4. cached' \in 0..(now - Delay) /\ first' \in Nat
    BY <1>1, <1>11, <2>3 DEF Advance, TypeOK
  <2>. QED BY <1>1, <1>2, <1>11, <2>1, <2>2, <2>4, RunMoves DEF Advance, TypeOK, counters
<1>12. CASE RunFails(p)
  <2>1. proc' = [proc EXCEPT ![p] = Idle] BY <1>12 DEF RunFails, Finish
  <2>2. RunInv(p)' BY <1>1, <1>12, <2>1 DEF RunFails, RunInv, Idle
  <2>3. /\ UNCHANGED <<now, logs, indexed, cached, first, table>>
        /\ failures' \in Nat /\ writeFailures' \in Nat /\ expiries' \in Nat
    BY <1>1, <1>12 DEF RunFails, TypeOK
  <2>4. cached' \in 0..(now - Delay) /\ first' \in Nat /\ table' \in [Measures -> [Seconds -> Nat]]
    BY <1>1, <2>3 DEF TypeOK
  <2>. QED BY <1>2, <2>1, <2>2, <2>3, <2>4, RunMoves
<1>. QED
  BY <1>3, <1>4, <1>5, <1>6, <1>7, <1>8, <1>9, <1>10, <1>11, <1>12 DEF RunStep

--------------------------------------------------------------------------------
\* The inductive invariant.
THEOREM ScanInvariant == Spec => []ScanInv
<1>1. Init => ScanInv BY Initially
<1>2. ScanInv /\ [Next]_vars => ScanInv'
  <2> SUFFICES ASSUME ScanInv, [Next]_vars PROVE ScanInv' OBVIOUS
  <2>1. ASSUME NEW kinds \in BlockLogs, NextBlock(kinds) PROVE ScanInv'
    BY <2>1, BlockKeepsScanInv
  <2>2. ASSUME NEW s \in Seconds, NEW kind \in Kinds, Index(s, kind) PROVE ScanInv'
    BY <2>2, IndexKeepsScanInv
  <2>3. ASSUME NEW p \in Procs, StartRun(p) \/ RunStep(p) PROVE ScanInv'
    BY <2>3, RunKeepsScanInv
  <2>4. CASE Expire BY <2>4, ExpireKeepsScanInv
  <2>5. CASE UNCHANGED vars
    <3>1. TypeOK' BY <2>5 DEF vars, ScanInv, TypeOK
    <3>2. IndexInv' BY <2>5 DEF vars, ScanInv, IndexInv
    <3>3. now \in Nat BY DEF ScanInv, TypeOK
    <3>4. ASSUME NEW p \in Procs PROVE RunInv(p)' BY <2>5, <3>3, SteadyRun DEF vars
    <3>5. ExactOrMissing' BY <2>5 DEF vars, ScanInv, ExactOrMissing, Burned
    <3>. QED BY <3>1, <3>2, <3>4, <3>5 DEF ScanInv
  <2>. QED BY <2>1, <2>2, <2>3, <2>4, <2>5 DEF Next
<1>. QED BY <1>1, <1>2, PTL DEF Spec

\* LogsProcessor keeps its types in every behaviour.
THEOREM LogsTypeCorrect == Spec => []TypeOK
<1>1. ScanInv => TypeOK BY DEF ScanInv
<1>. QED BY <1>1, ScanInvariant, PTL

\* Whatever runs throw, die, repeat a second or overlap with those of other
\* instances, the table holds the exact amount of a second or nothing.
THEOREM StoredIsExact == Spec => []ExactOrMissing
<1>1. ScanInv => ExactOrMissing BY DEF ScanInv
<1>. QED BY <1>1, ScanInvariant, PTL

\* What is stored of a second is final: a write over it, of a run that repeats the second or of
\* a slower instance that is behind, stores the same amount, and none takes it away.
StoredIsFinal ==
    [][\A m \in Measures, s \in Seconds : table[m][s] # 0 => table'[m][s] = table[m][s]]_vars

THEOREM StoredNeverChanges == Spec => StoredIsFinal
<1>. DEFINE A == \A m \in Measures, s \in Seconds :
                    table[m][s] # 0 => table'[m][s] = table[m][s]
<1>1. ScanInv /\ ScanInv' /\ [Next]_vars => [A]_vars
  <2>. SUFFICES ASSUME ScanInv, ScanInv', Next PROVE A
    OBVIOUS
  <2>1. CASE UNCHANGED table
    BY <2>1
  <2>2. ASSUME NEW p \in Procs, WriteRecords(p) PROVE A
    <3>. SUFFICES ASSUME NEW m \in Measures, NEW s \in Seconds, table[m][s] # 0
                  PROVE  table'[m][s] = table[m][s]
      OBVIOUS
    <3>1. table'[m][s] \in {table[m][s], proc[p].map[s]} /\ table'[m][s] # 0
      BY <2>2 DEF WriteRecords, ScanInv, TypeOK
    <3>2. table[m][s] \in {0, Burned(m, s)} /\ table'[m][s] \in {0, Burned(m, s)'}
      BY DEF ScanInv, ExactOrMissing
    <3>3. Burned(m, s)' = Burned(m, s)
      BY <2>2 DEF WriteRecords, Burned
    <3>. QED BY <3>1, <3>2, <3>3
  <2>. QED BY <2>1, <2>2
           DEF Next, NextBlock, Index, StartRun, RunStep, GetLast, GetNow, Keep, GetSwapLogs,
               WriteFails, GetExitFarmLogs, Advance, RunFails, Expire
<1>. QED BY <1>1, ScanInvariant, PTL DEF Spec, StoredIsFinal

--------------------------------------------------------------------------------
(* One instance leaves no gaps: until a write fails or the timestamp expires, a      *)
(* run starts where the one before it ended, and moves the timestamp only after it   *)
(* stored both measures of its interval.                                             *)

Quiet == writeFailures = 0 /\ expiries = 0

Exact(m, s) == table[m][s] = Burned(m, s)

Scanning == {"fixedInput", "fixedOutput", "writeFees", "exitFarm", "writePenalty", "advance"}

\* The timestamp and the second its chain of intervals started at.
ChainInv ==
    cached # 0 => /\ 1 <= first /\ first <= cached
                  /\ first < cached => \A m \in Measures, s \in first..cached : Exact(m, s)

\* What a run holds is the timestamp; behind it are the measures it has stored.
GapRun(p) ==
    LET run == proc[p]  interval == run.last..run.current IN
    /\ run.pc = "getNow" => run.last = cached
    /\ run.pc = "keep" => 1 <= run.current /\ cached \in {0, run.current}
    /\ run.pc \in Scanning => run.last = cached /\ cached # 0
    /\ run.pc \in {"exitFarm", "writePenalty", "advance"} =>
           \A s \in interval : Exact("feeBurned", s)
    /\ run.pc = "advance" => \A s \in interval : Exact("penaltyBurned", s)

GapInv == Quiet => ChainInv /\ \A p \in Procs : GapRun(p)

\* Seconds that were looked at are of the chain, and keep their amount when it grows.
LEMMA PastSeconds ==
    ASSUME ScanInv
    PROVE  /\ cached \in Nat /\ cached <= now - Delay /\ now - Delay <= MaxTime /\ now \in Nat
           /\ \A p \in Procs : /\ proc[p].last \in Nat /\ proc[p].current \in Nat
                               /\ proc[p].pc \in Scanning \cup {"keep"} =>
                                     proc[p].last <= proc[p].current /\ proc[p].current <= now - Delay
           /\ \A s \in Nat : 1 <= s /\ s <= now - Delay => s \in Seconds /\ s < now
<1>. USE LogsProcessorAssumption
<1>1. TypeOK /\ IndexInv /\ now \in Nat BY DEF ScanInv, TypeOK
<1>2. cached \in Nat /\ cached <= now - Delay BY <1>1 DEF TypeOK, IndexInv
<1>3. now - Delay <= MaxTime BY <1>1 DEF IndexInv
<1>4. \A s \in Nat : 1 <= s /\ s <= now - Delay => s \in Seconds /\ s < now
  BY <1>1, <1>3 DEF Seconds
<1>5. ASSUME NEW p \in Procs
      PROVE  /\ proc[p].last \in Nat /\ proc[p].current \in Nat
             /\ proc[p].pc \in Scanning \cup {"keep"} =>
                  proc[p].last <= proc[p].current /\ proc[p].current <= now - Delay
  <2>1. proc[p] \in Run BY <1>1 DEF TypeOK
  <2>2. RunInv(p) BY DEF ScanInv
  <2>. QED BY <2>1, <2>2 DEF Run, RunInv, Scanning
<1>. QED BY <1>1, <1>2, <1>3, <1>4, <1>5

\* The chain grows, is indexed, or nothing happens: no past second changes.
LEMMA GapSteady ==
    ASSUME ScanInv, GapInv, UNCHANGED <<cached, proc, table, first, writeFailures, expiries>>,
           \A s \in Seconds : s <= now => logs'[s] = logs[s]
    PROVE  GapInv'
<1>. SUFFICES ASSUME Quiet PROVE ChainInv' /\ \A p \in Procs : GapRun(p)'
  BY DEF GapInv, Quiet
<1>1. \A m, s : s \in Seconds /\ s <= now /\ Exact(m, s) => Exact(m, s)'
  BY DEF Exact, Burned
<1>2. ASSUME NEW m, NEW s \in Nat, 1 <= s, s <= now - Delay, Exact(m, s) PROVE Exact(m, s)'
  BY <1>1, <1>2, PastSeconds
<1>3. ChainInv'
  <2>. SUFFICES ASSUME cached # 0, first < cached, NEW m \in Measures, NEW s \in first..cached
                PROVE  Exact(m, s)'
    BY DEF ChainInv, GapInv
  <2>1. first \in Nat BY DEF ScanInv, TypeOK
  <2>2. s \in Nat /\ 1 <= s /\ s <= now - Delay
    BY <2>1, PastSeconds, LogsProcessorAssumption DEF GapInv, ChainInv
  <2>3. Exact(m, s) BY DEF GapInv, ChainInv
  <2>. QED BY <1>2, <2>2, <2>3
<1>4. ASSUME NEW p \in Procs PROVE GapRun(p)'
  <2>1. GapRun(p) BY DEF GapInv
  <2>2. ASSUME NEW m, NEW s \in proc[p].last..proc[p].current, proc[p].pc \in Scanning,
               Exact(m, s)
        PROVE  Exact(m, s)'
    <3>1. /\ s \in Nat /\ 1 <= s /\ s <= now - Delay
      BY <2>1, <2>2, PastSeconds, LogsProcessorAssumption DEF GapRun
    <3>. QED BY <1>2, <2>2, <3>1
  <2>. QED BY <2>1, <2>2 DEF GapRun, Scanning
<1>. QED BY <1>3, <1>4
\* A run of the only instance that stores nothing leaves what is exact alone.
LEMMA GapRunMoves ==
    ASSUME ScanInv, GapInv, NEW p \in Procs, \A q \in Procs : q = p,
           UNCHANGED <<now, logs, cached, table, first, writeFailures, expiries>>,
           Quiet => GapRun(p)'
    PROVE  GapInv'
<1>. SUFFICES ASSUME Quiet PROVE ChainInv' /\ \A q \in Procs : GapRun(q)'
  BY DEF GapInv, Quiet
<1>1. ChainInv'
  BY DEF GapInv, ChainInv, Exact, Burned
<1>2. \A q \in Procs : GapRun(q)'
  OBVIOUS
<1>. QED BY <1>1, <1>2

\* A write leaves exact rows exact, and makes those of its interval exact.
LEMMA WriteIsExact ==
    ASSUME ScanInv, NEW p \in Procs, WriteRecords(p)
    PROVE  /\ \A m \in Measures, s \in Seconds : Exact(m, s) => Exact(m, s)'
           /\ \A m \in Measures, s \in Seconds :
                m = Measure(p) /\ proc[p].last <= s /\ s <= proc[p].current => Exact(m, s)'
<1>1. /\ TypeOK /\ RunInv(p) /\ ExactOrMissing /\ proc[p] \in Run
      /\ proc[p].pc \in {"writeFees", "writePenalty"} /\ Measure(p) \in Measures
  BY DEF ScanInv, TypeOK, WriteRecords, Measure, Measures
<1>2. \A m \in Measures, s \in Seconds :
        table'[m][s] = IF m = Measure(p) /\ proc[p].map[s] > 0
                       THEN proc[p].map[s] ELSE table[m][s]
  BY <1>1 DEF WriteRecords, TypeOK
<1>3. \A m, s : Burned(m, s)' = Burned(m, s)
  BY DEF WriteRecords, Burned
<1>4. ASSUME NEW s \in Seconds
      PROVE  /\ proc[p].last <= s /\ s <= proc[p].current =>
                  proc[p].map[s] = Burned(Measure(p), s)
             /\ ~(proc[p].last <= s /\ s <= proc[p].current) => proc[p].map[s] = 0
  <2>1. CASE proc[p].pc = "writeFees"
    BY <1>1, <2>1 DEF RunInv, Burned, Measure, Scanned
  <2>2. CASE proc[p].pc = "writePenalty"
    BY <1>1, <2>2 DEF RunInv, Burned, Measure, Scanned
  <2>. QED BY <1>1, <2>1, <2>2
<1>5. \A m \in Measures, s \in Seconds :
        Burned(m, s) \in Nat /\ table[m][s] \in {0, Burned(m, s)}
  BY <1>1, AmountType DEF ExactOrMissing
<1>6. ASSUME NEW m \in Measures, NEW s \in Seconds, Exact(m, s) PROVE Exact(m, s)'
  <2>1. table'[m][s] = Burned(m, s)
    BY <1>1, <1>2, <1>4, <1>6 DEF Exact
  <2>. QED BY <1>3, <2>1 DEF Exact
<1>7. ASSUME NEW m \in Measures, NEW s \in Seconds,
             m = Measure(p), proc[p].last <= s, s <= proc[p].current
      PROVE  Exact(m, s)'
  <2>1. proc[p].map[s] = Burned(m, s)
    BY <1>4, <1>7
  <2>2. Burned(m, s) \in Nat /\ table[m][s] \in {0, Burned(m, s)}
    BY <1>5
  <2>3. table'[m][s] = Burned(m, s)
    BY <1>2, <1>7, <2>1, <2>2
  <2>. QED BY <1>3, <2>3 DEF Exact
<1>. QED BY <1>6, <1>7
\* The steps of the only instance: the timestamp moves to the end of an interval after both
\* measures of it were stored.
LEMMA GapRunStep ==
    ASSUME ScanInv, GapInv, NEW p \in Procs, \A q \in Procs : q = p, StartRun(p) \/ RunStep(p)
    PROVE  GapInv'
<1>. USE LogsProcessorAssumption
<1>1. /\ TypeOK /\ proc \in [Procs -> Run] /\ proc[p] \in Run /\ cached \in Nat /\ first \in Nat
      /\ now \in Nat /\ now - Delay \in Nat /\ 1 <= now - Delay
      /\ writeFailures \in Nat /\ expiries \in Nat
  BY DEF ScanInv, TypeOK, IndexInv
<1>2. Quiet => ChainInv /\ GapRun(p)
  BY DEF GapInv
<1>3. CASE StartRun(p)
  <2>1. proc'[p].pc = "getLast"
    BY <1>1, <1>3 DEF StartRun
  <2>. QED BY <1>3, <2>1, GapRunMoves DEF StartRun, counters, GapRun, Scanning
<1>4. CASE GetLast(p)
  <2>1. proc'[p].pc = "getNow" /\ proc'[p].last = cached /\ cached' = cached
    BY <1>1, <1>4 DEF GetLast, Run
  <2>. QED BY <1>4, <2>1, GapRunMoves DEF GetLast, counters, GapRun, Scanning
<1>5. CASE GetNow(p)
  <2> DEFINE last == IF proc[p].last = 0 THEN now - Delay ELSE proc[p].last
  <2>1. /\ proc'[p].pc = IF last = now - Delay THEN "keep" ELSE "fixedInput"
        /\ proc'[p].last = last /\ proc'[p].current = now - Delay
        /\ cached' = cached /\ proc[p].pc = "getNow"
    BY <1>1, <1>5 DEF GetNow
  <2>2. Quiet => GapRun(p)'
    BY <1>1, <1>2, <2>1 DEF GapRun, Scanning
  <2>. QED BY <1>5, <2>2, GapRunMoves DEF GetNow, counters
<1>6. CASE GetSwapLogs(p)
  <2>1. /\ proc[p].pc \in Scanning /\ proc'[p].pc \in {"fixedOutput", "writeFees"}
        /\ proc'[p].last = proc[p].last /\ cached' = cached
    BY <1>1, <1>6 DEF GetSwapLogs, Run, Scanning
  <2>2. Quiet => GapRun(p)'
    BY <1>2, <2>1 DEF GapRun, Scanning
  <2>. QED BY <1>6, <2>2, GapRunMoves DEF GetSwapLogs, counters
<1>7. CASE GetExitFarmLogs(p)
  <2>1. /\ proc[p].pc = "exitFarm" /\ proc'[p].pc = "writePenalty"
        /\ proc'[p].last = proc[p].last /\ proc'[p].current = proc[p].current
        /\ cached' = cached /\ UNCHANGED <<table, logs>>
    BY <1>1, <1>7 DEF GetExitFarmLogs, Run
  <2>2. Quiet => GapRun(p)'
    BY <1>2, <2>1 DEF GapRun, Scanning, Exact, Burned
  <2>. QED BY <1>7, <2>2, GapRunMoves DEF GetExitFarmLogs, counters
<1>8. CASE RunFails(p)
  <2>1. proc'[p].pc = "idle" /\ UNCHANGED <<now, logs, cached, table, first, writeFailures, expiries>>
    BY <1>1, <1>8 DEF RunFails, Finish, Idle
  <2>. QED BY <2>1, GapRunMoves DEF GapRun, Scanning
<1>9. CASE WriteFails(p)
  <2>1. ~Quiet'
    BY <1>1, <1>9 DEF WriteFails, Quiet
  <2>. QED BY <2>1 DEF GapInv
<1>10. CASE Keep(p)
  <2>1. /\ proc[p].pc = "keep" /\ cached' = proc[p].current /\ proc'[p].pc = "idle"
        /\ first' = IF cached = 0 THEN proc[p].current ELSE first
        /\ UNCHANGED <<logs, table, writeFailures, expiries>>
    BY <1>1, <1>10 DEF Keep, Finish, Idle, counters
  <2>2. proc[p].current \in Nat
    BY PastSeconds
  <2>3. ASSUME Quiet PROVE ChainInv'
    <3>1. 1 <= proc[p].current /\ cached \in {0, proc[p].current}
      BY <1>2, <2>1, <2>3 DEF GapRun
    <3>2. CASE cached = 0
      BY <2>1, <2>2, <3>1, <3>2 DEF ChainInv
    <3>3. CASE cached # 0
      BY <1>2, <2>1, <2>3, <3>1, <3>3 DEF ChainInv, Exact, Burned
    <3>. QED BY <3>2, <3>3
  <2>4. GapRun(p)'
    BY <2>1 DEF GapRun, Scanning
  <2>. QED BY <2>1, <2>3, <2>4 DEF GapInv, Quiet
<1>11. CASE WriteRecords(p)
  <2>. DEFINE last == proc[p].last  current == proc[p].current
  <2>1. /\ proc[p].pc \in {"writeFees", "writePenalty"} /\ proc[p].pc \in Scanning
        /\ proc'[p].pc = AfterWrite(p) /\ proc'[p].last = last /\ proc'[p].current = current
        /\ UNCHANGED <<logs, cached, first, writeFailures, expiries>>
    BY <1>1, <1>11 DEF WriteRecords, Run, counters, Scanning
  <2>2. /\ \A m \in Measures, s \in Seconds : Exact(m, s) => Exact(m, s)'
        /\ \A m \in Measures, s \in Seconds :
             m = Measure(p) /\ last <= s /\ s <= current => Exact(m, s)'
    BY <1>11, WriteIsExact
  <2>3. Measures = {"feeBurned", "penaltyBurned"}
    BY DEF Measures
  <2>4. ASSUME Quiet PROVE ChainInv'
    <3>. SUFFICES ASSUME cached # 0, first < cached, NEW m \in Measures, NEW s \in first..cached
                  PROVE  Exact(m, s)'
      BY <1>2, <2>1, <2>4 DEF ChainInv
    <3>1. s \in Seconds
      BY <1>1, <1>2, <2>4, PastSeconds DEF ChainInv
    <3>2. Exact(m, s)
      BY <1>2, <2>4 DEF ChainInv
    <3>. QED BY <2>2, <3>1, <3>2
  <2>5. ASSUME Quiet PROVE GapRun(p)'
    <3>1. last = cached /\ cached # 0
      BY <1>2, <2>1, <2>5 DEF GapRun
    <3>2. ASSUME NEW s \in last..current
          PROVE  s \in Seconds /\ last <= s /\ s <= current
      BY <1>1, <2>1, <3>1, PastSeconds
    <3>3. CASE proc[p].pc = "writeFees"
      <4>1. proc'[p].pc = "exitFarm" /\ Measure(p) = "feeBurned"
        BY <2>1, <3>3 DEF AfterWrite, Measure
      <4>2. \A s \in last..current : Exact("feeBurned", s)'
        BY <2>2, <2>3, <3>2, <4>1
      <4>. QED BY <2>1, <3>1, <4>1, <4>2 DEF GapRun, Scanning
    <3>4. CASE proc[p].pc = "writePenalty"
      <4>1. proc'[p].pc = "advance" /\ Measure(p) = "penaltyBurned"
        BY <2>1, <3>4 DEF AfterWrite, Measure
      <4>2. \A s \in last..current : Exact("penaltyBurned", s)'
        BY <2>2, <2>3, <3>2, <4>1
      <4>3. \A s \in last..current : Exact("feeBurned", s)
        BY <1>2, <2>5, <3>4 DEF GapRun
      <4>4. \A s \in last..current : Exact("feeBurned", s)'
        BY <2>2, <2>3, <3>2, <4>3
      <4>. QED BY <2>1, <3>1, <4>1, <4>2, <4>4 DEF GapRun, Scanning
    <3>. QED BY <2>1, <3>3, <3>4
  <2>. QED BY <2>1, <2>4, <2>5 DEF GapInv, Quiet
<1>12. CASE Advance(p)
  <2>. DEFINE last == proc[p].last  current == proc[p].current
  <2>1. /\ proc[p].pc = "advance" /\ cached' = current /\ proc'[p].pc = "idle"
        /\ first' = IF cached = 0 THEN last ELSE first
        /\ UNCHANGED <<logs, table, writeFailures, expiries>>
    BY <1>1, <1>12 DEF Advance, Finish, Idle, counters
  <2>2. last \in Nat /\ current \in Nat /\ last <= current
    BY <2>1, PastSeconds DEF Scanning
  <2>3. ASSUME Quiet PROVE ChainInv'
    <3>1. /\ last = cached /\ cached # 0
          /\ \A s \in last..current : Exact("feeBurned", s) /\ Exact("penaltyBurned", s)
      BY <1>2, <2>1, <2>3 DEF GapRun, Scanning
    <3>2. 1 <= first /\ first <= cached /\ first' = first
      BY <1>2, <2>1, <2>3, <3>1 DEF ChainInv
    <3>3. \A m \in Measures, s \in first..current : Exact(m, s)
      <4>1. ASSUME NEW m \in Measures, NEW s \in first..cached, first < cached
            PROVE  Exact(m, s)
        BY <1>2, <2>3, <3>1, <4>1 DEF ChainInv
      <4>2. \A s \in first..current :
              s \in last..current \/ (first < cached /\ s \in first..cached)
        BY <1>1, <2>2, <3>1, <3>2
      <4>. QED BY <3>1, <4>1, <4>2 DEF Measures
    <3>4. \A m, s : Exact(m, s)' <=> Exact(m, s)
      BY <2>1 DEF Exact, Burned
    <3>. QED BY <1>1, <2>1, <2>2, <3>1, <3>2, <3>3, <3>4 DEF ChainInv
  <2>4. GapRun(p)'
    BY <2>1 DEF GapRun, Scanning
  <2>. QED BY <2>1, <2>3, <2>4 DEF GapInv, Quiet
<1>. QED BY <1>3, <1>4, <1>5, <1>6, <1>7, <1>8, <1>9, <1>10, <1>11, <1>12 DEF RunStep

\* While only one instance runs the cron, no write fails and the timestamp does not expire, every
\* second it has passed has its exact amounts, whichever runs throw or die.
THEOREM OneInstanceLeavesNoGaps ==
    ASSUME NEW w, Procs = {w}
    PROVE  Spec => []NoGaps
<1>1. Init => GapInv
  BY DEF Init, GapInv, ChainInv, GapRun, Scanning, Idle
<1>2. ScanInv /\ GapInv /\ [Next]_vars => GapInv'
  <2> SUFFICES ASSUME ScanInv, GapInv, [Next]_vars PROVE GapInv' OBVIOUS
  <2>1. ASSUME NEW kinds \in BlockLogs, NextBlock(kinds) PROVE GapInv'
    <3>1. \A s \in Seconds : s <= now => logs'[s] = logs[s]
      BY <2>1 DEF NextBlock, ScanInv, TypeOK
    <3>. QED BY <2>1, <3>1, GapSteady DEF NextBlock, counters
  <2>2. ASSUME NEW s \in Seconds, NEW kind \in Kinds, Index(s, kind) PROVE GapInv'
    BY <2>2, GapSteady DEF Index, counters
  <2>3. ASSUME NEW p \in Procs, StartRun(p) \/ RunStep(p) PROVE GapInv'
    BY <2>3, GapRunStep
  <2>4. CASE Expire
    <3>1. ~Quiet' BY <2>4 DEF Expire, Quiet, ScanInv, TypeOK
    <3>. QED BY <3>1 DEF GapInv
  <2>5. CASE UNCHANGED vars BY <2>5, GapSteady DEF vars
  <2>. QED BY <2>1, <2>2, <2>3, <2>4, <2>5 DEF Next
<1>3. ScanInv /\ GapInv => NoGaps
  BY DEF ScanInv, GapInv, Quiet, ChainInv, Exact, NoGaps
<1>. QED BY <1>1, <1>2, <1>3, ScanInvariant, PTL DEF Spec
================================================================================
