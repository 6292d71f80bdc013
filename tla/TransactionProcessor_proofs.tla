----------------------- MODULE TransactionProcessor_proofs -----------------------
(***************************************************************************)
(* No transaction is observed again once its second was passed, none that  *)
(* the API returned is left out, and none is observed more often than runs *)
(* failed: for any transactions, page size, lag of the index, time to live *)
(* and number of failures.                                                 *)
(***************************************************************************)
EXTENDS TransactionProcessor, SequenceTheorems, TLAPS

Txs == SUBSET (Nat \X Nat)

RunType == [pc : PCs, last : Nat, current : Nat, todo : Txs, missed : Txs, periods : Nat]

--------------------------------------------------------------------------------
(* The invariant.                                                          *)

ChainInv ==
    /\ now \in Nat \ {0}
    /\ blocks \in Seq(Seq(Kinds)) /\ Len(blocks) = now
    /\ observed \in Seq(Seq(Nat)) /\ Len(observed) = now
    /\ \A s \in 1..now : DOMAIN observed[s] = DOMAIN blocks[s]

StampInv ==
    /\ passed \in 0..now /\ cached \in {0, passed}
    /\ age \in 0..TtlPeriods /\ first \in Nat /\ failures \in Nat

RunInv ==
    /\ run \in RunType /\ run.last \in 0..now /\ run.current \in 0..now
    /\ run.todo \subseteq Transactions(1, now) /\ run.missed \subseteq Transactions(1, now)
    /\ missed \subseteq Transactions(1, now)

\* What a run knows of the timestamp: it may have expired since, but nothing was stored.
IntervalInv ==
    /\ run.pc = "getNow" => /\ run.last \in {0, passed}
                            /\ cached # 0 => run.last = passed
    /\ run.pc = "keep" => /\ passed <= run.current
                          /\ cached # 0 => run.current = passed
    /\ run.pc \in {"fetch", "observe", "advance"} =>
            run.last = passed /\ run.last < run.current

\* What is returned is of the interval; what is not is remembered.
PageInv ==
    run.pc = "observe" =>
        /\ \A tx \in run.todo : tx[1] > run.last
        /\ \A s \in (run.last + 1)..run.current : \A i \in DOMAIN blocks[s] :
             <<s, i>> \in run.todo \cup run.missed

Done(s, i) == blocks[s][i] = "tracked" => observed[s][i] >= 1 \/ <<s, i>> \in run.missed
Passed(s, i) == blocks[s][i] = "tracked" => observed[s][i] >= 1 \/ <<s, i>> \in missed

\* Before the timestamp moves, everything up to the new one was observed.
DoneInv ==
    run.pc = "advance" =>
        \A s \in (run.last + 1)..run.current : \A i \in DOMAIN blocks[s] : Done(s, i)

PassedInv ==
    cached # 0 => \A s \in (first + 1)..cached : \A i \in DOMAIN blocks[s] : Passed(s, i)

IInv == ChainInv /\ StampInv /\ RunInv /\ IntervalInv /\ PageInv /\ DoneInv /\ PassedInv

--------------------------------------------------------------------------------
(* Transactions.                                                           *)

\* A transaction is a second and a position in it.
LEMMA TransactionPairs ==
    ASSUME NEW from, NEW to
    PROVE  /\ \A s, i : <<s, i>> \in Transactions(from, to) <=>
                            s \in from..to /\ i \in DOMAIN blocks[s]
           /\ \A tx \in Transactions(from, to) : /\ tx = <<tx[1], tx[2]>>
                                                 /\ tx[1] \in from..to
                                                 /\ tx[2] \in DOMAIN blocks[tx[1]]
  BY DEF Transactions

\* Those of a part of the chain are of the chain, and are pairs of numbers.
LEMMA TransactionsOfChain ==
    ASSUME ChainInv, NEW from \in Nat \ {0}, NEW to \in 0..now
    PROVE  /\ Transactions(from, to) \subseteq Transactions(1, now)
           /\ Transactions(1, now) \in Txs
<1>1. \A s \in from..to : s \in 1..now
  BY DEF ChainInv
<1>2. \A s \in 1..now : blocks[s] \in Seq(Kinds)
  BY ElementOfSeq DEF ChainInv
<1>3. \A s \in 1..now : DOMAIN blocks[s] \subseteq Nat
  BY <1>2, LenProperties
<1>. QED BY <1>1, <1>3 DEF Transactions, Txs

\* A block more leaves the transactions there are.
LEMMA AddedBlock ==
    ASSUME ChainInv, NEW txs \in Seq(Kinds), now' = now + 1,
           blocks' = Append(blocks, txs), observed' = Append(observed, [i \in DOMAIN txs |-> 0])
    PROVE  /\ ChainInv'
           /\ \A s \in 1..now : blocks'[s] = blocks[s] /\ observed'[s] = observed[s]
           /\ Transactions(1, now) \subseteq Transactions(1, now)'
<1>1. /\ blocks' \in Seq(Seq(Kinds)) /\ Len(blocks') = now + 1
      /\ \A s \in 1..now : blocks'[s] = blocks[s]
      /\ blocks'[now + 1] = txs
  BY AppendProperties DEF ChainInv
<1>2. [i \in DOMAIN txs |-> 0] \in Seq(Nat)
  <2>1. DOMAIN txs = 1..Len(txs) /\ Len(txs) \in Nat
    BY LenProperties
  <2>2. [i \in 1..Len(txs) |-> 0] \in Seq(Nat)
    BY <2>1, IsASeq
  <2>. QED BY <2>1, <2>2
<1>. DEFINE none == [i \in DOMAIN txs |-> 0]
<1>3. DOMAIN none = DOMAIN txs
  OBVIOUS
<1>4. observed' = Append(observed, none) /\ none \in Seq(Nat)
  BY <1>2
<1>. HIDE DEF none
<1>5. /\ observed' \in Seq(Seq(Nat)) /\ Len(observed') = now + 1
      /\ \A s \in 1..now : observed'[s] = observed[s]
      /\ observed'[now + 1] = none
  BY <1>4, AppendProperties DEF ChainInv
<1>6. \A s \in 1..now' : DOMAIN observed'[s] = DOMAIN blocks'[s]
  <2>1. \A s \in 1..now' : s \in 1..now \/ s = now + 1
    BY DEF ChainInv
  <2>. QED BY <1>1, <1>3, <1>5, <2>1 DEF ChainInv
<1>7. now' \in Nat \ {0}
  BY DEF ChainInv
<1>8. Transactions(1, now) \subseteq Transactions(1, now)'
  <2>1. \A s \in 1..now : s \in 1..now'
    BY DEF ChainInv
  <2>. QED BY <1>1, <2>1 DEF Transactions
<1>. QED BY <1>1, <1>5, <1>6, <1>7, <1>8 DEF ChainInv

\* What a run observes is added where it is of the page, and nothing is taken away.
LEMMA CountedTyped ==
    ASSUME ChainInv
    PROVE  /\ Counted \in Seq(Seq(Nat)) /\ Len(Counted) = now
           /\ \A s \in 1..now :
                /\ DOMAIN Counted[s] = DOMAIN blocks[s]
                /\ \A i \in DOMAIN blocks[s] :
                     /\ observed[s][i] \in Nat /\ Counted[s][i] \in Nat
                     /\ Counted[s][i] >= observed[s][i]
                     /\ <<s, i>> \in Decoded(run.todo) /\ blocks[s][i] = "tracked"
                          => Counted[s][i] >= 1
                /\ (\A i \in DOMAIN blocks[s] : <<s, i>> \notin run.todo)
                     => Counted[s] = observed[s]
<1>. DEFINE row(s) == [i \in DOMAIN observed[s] |->
                         IF <<s, i>> \in Decoded(run.todo) /\ blocks[s][i] = "tracked"
                         THEN observed[s][i] + 1 ELSE observed[s][i]]
<1>1. DOMAIN observed = 1..now /\ now \in Nat
  BY LenProperties DEF ChainInv
<1>2. ASSUME NEW s \in 1..now
      PROVE  /\ observed[s] \in Seq(Nat) /\ Len(observed[s]) \in Nat
             /\ DOMAIN observed[s] = 1..Len(observed[s])
             /\ observed[s] = [i \in DOMAIN observed[s] |-> observed[s][i]]
             /\ DOMAIN observed[s] = DOMAIN blocks[s]
             /\ \A i \in DOMAIN blocks[s] : observed[s][i] \in Nat
  <2>1. observed[s] \in Seq(Nat) /\ DOMAIN observed[s] = DOMAIN blocks[s]
    BY ElementOfSeq DEF ChainInv
  <2>2. Len(observed[s]) \in Nat /\ DOMAIN observed[s] = 1..Len(observed[s])
    BY <2>1, LenProperties
  <2>3. \A i \in 1..Len(observed[s]) : observed[s][i] \in Nat
    BY <2>1, ElementOfSeq
  <2>4. observed[s] = [i \in DOMAIN observed[s] |-> observed[s][i]]
    BY <2>1, SeqDef
  <2>. QED BY <2>1, <2>2, <2>3, <2>4
<1>3. ASSUME NEW s \in 1..now
      PROVE  /\ row(s) \in Seq(Nat)
             /\ DOMAIN row(s) = DOMAIN blocks[s]
             /\ \A i \in DOMAIN blocks[s] :
                  /\ row(s)[i] \in Nat /\ row(s)[i] >= observed[s][i]
                  /\ <<s, i>> \in Decoded(run.todo) /\ blocks[s][i] = "tracked" => row(s)[i] >= 1
             /\ (\A i \in DOMAIN blocks[s] : <<s, i>> \notin run.todo) => row(s) = observed[s]
  <2>1. DOMAIN row(s) = DOMAIN blocks[s]
    BY <1>2
  <2>2. \A i \in DOMAIN blocks[s] :
          /\ row(s)[i] \in Nat /\ row(s)[i] >= observed[s][i]
          /\ <<s, i>> \in Decoded(run.todo) /\ blocks[s][i] = "tracked" => row(s)[i] >= 1
    <3>. SUFFICES ASSUME NEW i \in DOMAIN blocks[s]
                  PROVE  /\ row(s)[i] \in Nat /\ row(s)[i] >= observed[s][i]
                         /\ <<s, i>> \in Decoded(run.todo) /\ blocks[s][i] = "tracked"
                              => row(s)[i] >= 1
      OBVIOUS
    <3>. DEFINE counts == <<s, i>> \in Decoded(run.todo) /\ blocks[s][i] = "tracked"
    <3>1. observed[s][i] \in Nat /\ i \in DOMAIN observed[s]
      BY <1>2
    <3>2. counts => row(s)[i] = observed[s][i] + 1
      BY <3>1
    <3>3. ~counts => row(s)[i] = observed[s][i]
      BY <3>1
    <3>. HIDE DEF row
    <3>. QED BY <3>1, <3>2, <3>3
  <2>3. ASSUME \A i \in DOMAIN blocks[s] : <<s, i>> \notin run.todo PROVE row(s) = observed[s]
    <3>1. \A i \in DOMAIN observed[s] : row(s)[i] = observed[s][i]
      BY <1>2, <2>3 DEF Decoded
    <3>2. row(s) = [i \in DOMAIN observed[s] |-> observed[s][i]]
      BY <3>1
    <3>. QED BY <1>2, <3>2
  <2>4. row(s) \in Seq(Nat)
    <3>. DEFINE r == row(s)  n == Len(observed[s])
    <3>1. n \in Nat /\ DOMAIN r = 1..n /\ \A i \in 1..n : r[i] \in Nat
      BY <1>2, <2>1, <2>2
    <3>2. r = [i \in DOMAIN r |-> r[i]]
      OBVIOUS
    <3>. HIDE DEF r, n
    <3>3. r \in [1..n -> Nat]
      BY <3>1, <3>2
    <3>4. r \in Seq(Nat)
      BY <3>1, <3>3, SeqDef
    <3>. QED BY <3>4 DEF r
  <2>. QED BY <2>1, <2>2, <2>3, <2>4
<1>4. Counted = [s \in 1..now |-> row(s)]
  BY <1>1 DEF Counted
<1>. HIDE DEF row
<1>5. Counted \in [1..now -> Seq(Nat)] /\ \A s \in 1..now : Counted[s] = row(s)
  BY <1>3, <1>4
<1>6. Counted \in Seq(Seq(Nat)) /\ Len(Counted) = now
  BY <1>1, <1>5, SeqDef
<1>. QED BY <1>2, <1>3, <1>5, <1>6

\* What waits for a run that is over, or starts.
LEMMA OtherPcs ==
    ASSUME run'.pc \in {"idle", "getLast"}
    PROVE  IntervalInv' /\ PageInv' /\ DoneInv'
  BY DEF IntervalInv, PageInv, DoneInv

LEMMA IdleIsRun ==
    /\ Idle \in RunType /\ Idle.pc = "idle" /\ Idle.last = 0 /\ Idle.current = 0
    /\ Idle.todo = {} /\ Idle.missed = {}
  BY DEF Idle, RunType, PCs, Txs

\* The fields of a run.
LEMMA RunFields ==
    ASSUME RunInv, ChainInv
    PROVE  /\ run.pc \in PCs /\ run.last \in Nat /\ run.current \in Nat /\ now \in Nat
           /\ run.last <= now /\ run.current <= now
           /\ run.todo \in Txs /\ run.missed \in Txs /\ run.periods \in Nat
  BY DEF RunInv, RunType, ChainInv

LEMMA InitInv == Init => IInv
<1>. SUFFICES ASSUME Init PROVE IInv
  OBVIOUS
<1>. USE DEF Init
<1>1. <<>> \in Seq(Kinds) /\ <<>> \in Seq(Nat)
  BY EmptySeq
<1>2. ChainInv
  <2>1. blocks \in Seq(Seq(Kinds)) /\ Len(blocks) = 1 /\ blocks[1] = <<>>
    BY <1>1
  <2>2. observed \in Seq(Seq(Nat)) /\ Len(observed) = 1 /\ observed[1] = <<>>
    BY <1>1
  <2>. QED BY <2>1, <2>2 DEF ChainInv
<1>3. StampInv
  BY TransactionProcessorAssumption DEF StampInv
<1>4. RunInv
  BY IdleIsRun DEF RunInv
<1>. QED BY <1>2, <1>3, <1>4, IdleIsRun
         DEF IInv, IntervalInv, PageInv, DoneInv, PassedInv

\* A block is added.
LEMMA NextBlockInv ==
    ASSUME IInv, NEW txs \in BlockTxs, NextBlock(txs)
    PROVE  IInv'
<1>. USE DEF IInv
<1>1. /\ now' = now + 1 /\ blocks' = Append(blocks, txs)
      /\ observed' = Append(observed, [i \in DOMAIN txs |-> 0])
      /\ UNCHANGED <<cached, age, run, first, passed, missed, failures>>
      /\ txs \in Seq(Kinds)
  BY TransactionProcessorAssumption DEF NextBlock
<1>2. /\ ChainInv'
      /\ \A s \in 1..now : blocks'[s] = blocks[s] /\ observed'[s] = observed[s]
      /\ Transactions(1, now) \subseteq Transactions(1, now)'
  BY <1>1, AddedBlock
<1>3. now \in Nat /\ cached \in Nat /\ cached <= now /\ first \in Nat
  BY DEF ChainInv, StampInv
<1>4. StampInv'
  BY <1>1, <1>3 DEF StampInv
<1>5. RunInv'
  BY <1>1, <1>2, <1>3 DEF RunInv
<1>6. IntervalInv'
  BY <1>1 DEF IntervalInv
<1>7. \A s \in (run.last + 1)..run.current : s \in 1..now
  BY <1>3, RunFields
<1>8. PageInv' /\ DoneInv'
  BY <1>1, <1>2, <1>7 DEF PageInv, DoneInv, Done
<1>9. \A s \in (first + 1)..cached : s \in 1..now
  BY <1>3
<1>10. PassedInv'
  BY <1>1, <1>2, <1>9 DEF PassedInv, Passed
<1>. QED BY <1>2, <1>4, <1>5, <1>6, <1>8, <1>10

\* The chain and what is observed are left alone.
LEMMA SameChain ==
    ASSUME UNCHANGED <<now, blocks, observed>>
    PROVE  /\ ChainInv => ChainInv'
           /\ Transactions(1, now)' = Transactions(1, now)
  BY DEF ChainInv, Transactions

\* The cron fires; the timestamp may expire.
LEMMA CronFiresInv ==
    ASSUME IInv, CronFires
    PROVE  IInv'
<1>. USE DEF IInv
<1>1. /\ UNCHANGED <<now, blocks, observed, first, passed, missed, failures>>
      /\ run' = IF run.pc = "idle" THEN [Idle EXCEPT !.pc = "getLast"]
                ELSE [run EXCEPT !.periods = @ + 1]
      /\ age' = IF age < TtlPeriods THEN age + 1 ELSE age
      /\ cached' \in {0, cached}
  BY DEF CronFires
<1>2. ChainInv' /\ Transactions(1, now)' = Transactions(1, now)
  BY <1>1, SameChain
<1>3. StampInv'
  BY <1>1, TransactionProcessorAssumption DEF StampInv
<1>4. PassedInv'
  BY <1>1 DEF PassedInv, Passed
<1>5. CASE run.pc = "idle"
  <2>1. /\ run' \in RunType /\ run'.pc = "getLast" /\ run'.last = 0 /\ run'.current = 0
        /\ run'.todo = {} /\ run'.missed = {}
    BY <1>1, <1>5 DEF Idle, RunType, PCs, Txs
  <2>2. RunInv'
    BY <1>1, <1>2, <2>1 DEF RunInv, ChainInv
  <2>. QED BY <1>2, <1>3, <1>4, <2>1, <2>2, OtherPcs
<1>6. CASE run.pc # "idle"
  <2>1. /\ run' \in RunType /\ run'.pc = run.pc /\ run'.last = run.last
        /\ run'.current = run.current /\ run'.todo = run.todo /\ run'.missed = run.missed
    BY <1>1, <1>6 DEF RunInv, RunType
  <2>2. RunInv'
    BY <1>1, <1>2, <2>1 DEF RunInv
  <2>3. IntervalInv' /\ PageInv' /\ DoneInv'
    BY <1>1, <2>1 DEF IntervalInv, PageInv, DoneInv, Done
  <2>. QED BY <1>2, <1>3, <1>4, <2>2, <2>3
<1>. QED BY <1>5, <1>6
\* The run reads the timestamp.
LEMMA GetLastInv ==
    ASSUME IInv, GetLast
    PROVE  IInv'
<1>. USE DEF IInv
<1>1. /\ UNCHANGED <<now, blocks, cached, age, observed, first, passed, missed, failures>>
      /\ run' = [run EXCEPT !.pc = "getNow", !.last = cached]
  BY DEF GetLast
<1>2. ChainInv' /\ Transactions(1, now)' = Transactions(1, now)
  BY <1>1, SameChain
<1>3. /\ run' \in RunType /\ run'.pc = "getNow" /\ run'.last = cached
      /\ run'.current = run.current /\ run'.todo = run.todo /\ run'.missed = run.missed
  <2>1. run \in RunType /\ cached \in Nat
    BY DEF RunInv, StampInv, ChainInv
  <2>. QED BY <1>1, <2>1 DEF RunType, PCs
<1>4. cached \in 0..now
  BY DEF StampInv, ChainInv
<1>5. StampInv'
  BY <1>1 DEF StampInv
<1>6. RunInv'
  BY <1>1, <1>2, <1>3, <1>4 DEF RunInv
<1>7. IntervalInv' /\ PageInv' /\ DoneInv'
  BY <1>1, <1>3 DEF IntervalInv, PageInv, DoneInv, StampInv
<1>8. PassedInv'
  BY <1>1 DEF PassedInv, Passed
<1>. QED BY <1>2, <1>5, <1>6, <1>7, <1>8

\* The run reads the head of the chain.
LEMMA GetNowInv ==
    ASSUME IInv, GetNow
    PROVE  IInv'
<1>. USE DEF IInv
<1>. DEFINE last == IF run.last = 0 THEN now ELSE run.last
            pc == IF last = now THEN "keep" ELSE "fetch"
<1>1. /\ UNCHANGED <<now, blocks, cached, age, observed, first, passed, missed, failures>>
      /\ run.pc = "getNow"
      /\ run' = [run EXCEPT !.pc = pc, !.last = last, !.current = now]
  BY DEF GetNow
<1>2. ChainInv' /\ Transactions(1, now)' = Transactions(1, now)
  BY <1>1, SameChain
<1>3. last \in 0..now /\ now \in 0..now /\ pc \in {"keep", "fetch"}
  BY RunFields DEF RunInv, ChainInv
<1>4. pc = "keep" => last = now
  OBVIOUS
<1>5. pc = "fetch" => last = passed /\ last < now
  BY <1>1, <1>3 DEF IntervalInv
<1>6. cached # 0 => last = passed
  BY <1>1 DEF IntervalInv, StampInv
<1>. HIDE DEF last, pc
<1>7. /\ run' \in RunType /\ run'.pc = pc /\ run'.last = last
      /\ run'.current = now /\ run'.todo = run.todo /\ run'.missed = run.missed
  <2>1. run \in RunType /\ last \in Nat /\ now \in Nat
    BY <1>3 DEF RunInv, ChainInv
  <2>. QED BY <1>1, <1>3, <2>1 DEF RunType, PCs
<1>8. StampInv'
  BY <1>1 DEF StampInv
<1>9. RunInv'
  BY <1>1, <1>2, <1>3, <1>7 DEF RunInv
<1>10. IntervalInv'
  BY <1>1, <1>3, <1>4, <1>5, <1>6, <1>7 DEF IntervalInv, StampInv
<1>11. PageInv' /\ DoneInv'
  BY <1>3, <1>7 DEF PageInv, DoneInv
<1>12. PassedInv'
  BY <1>1 DEF PassedInv, Passed
<1>. QED BY <1>2, <1>8, <1>9, <1>10, <1>11, <1>12

\* A run is over: nothing is asked of it any more.
LEMMA IdleInv ==
    ASSUME ChainInv, ChainInv', run' = Idle, Transactions(1, now)' = Transactions(1, now),
           missed' \subseteq Transactions(1, now)
    PROVE  RunInv' /\ IntervalInv' /\ PageInv' /\ DoneInv'
<1>1. RunInv'
  BY IdleIsRun DEF RunInv, ChainInv
<1>. QED BY <1>1, IdleIsRun, OtherPcs

\* The chain has no second the run did not pass: the timestamp is stored again.
LEMMA KeepInv ==
    ASSUME IInv, Keep
    PROVE  IInv'
<1>. USE DEF IInv
<1>1. /\ UNCHANGED <<now, blocks, observed, missed, failures>> /\ run.pc = "keep"
      /\ cached' = run.current /\ age' = 0 /\ run' = Idle
      /\ passed' = IF run.current > passed THEN run.current ELSE passed
      /\ first' = IF cached = 0 THEN run.current ELSE first
  BY DEF Keep, Store
<1>2. ChainInv' /\ Transactions(1, now)' = Transactions(1, now)
  BY <1>1, SameChain
<1>3. /\ run.current \in 0..now /\ now \in Nat /\ passed \in Nat /\ passed <= run.current
      /\ cached # 0 => run.current = passed /\ cached = passed
  BY <1>1 DEF RunInv, IntervalInv, StampInv, ChainInv
<1>4. passed' = run.current
  BY <1>1, <1>3
<1>5. StampInv'
  BY <1>1, <1>3, <1>4, TransactionProcessorAssumption DEF StampInv
<1>6. RunInv' /\ IntervalInv' /\ PageInv' /\ DoneInv'
  BY <1>1, <1>2, IdleInv DEF RunInv
<1>7. PassedInv'
  <2>1. CASE cached = 0
    <3>1. (first' + 1)..cached' = {}
      BY <1>1, <1>3, <2>1
    <3>. QED BY <3>1 DEF PassedInv
  <2>2. CASE cached # 0
    <3>1. cached' = cached /\ first' = first
      BY <1>1, <1>3, <2>2
    <3>. QED BY <1>1, <3>1 DEF PassedInv, Passed
  <2>. QED BY <2>1, <2>2
<1>. QED BY <1>2, <1>5, <1>6, <1>7
\* The page of the interval is asked for; what it leaves out is remembered.
LEMMA FetchInv ==
    ASSUME IInv, Fetch
    PROVE  IInv'
<1>. USE DEF IInv
<1>1. PICK seen \in Indexed(run.last, run.current) : run' = Asked(run.last + 1, seen)
  BY DEF Fetch
<1>2. UNCHANGED <<now, blocks, cached, age, observed, first, passed, missed, failures>>
      /\ run.pc = "fetch"
  BY DEF Fetch
<1>3. ChainInv' /\ Transactions(1, now)' = Transactions(1, now)
  BY <1>2, SameChain
<1>. DEFINE page == FirstPage(Transactions(run.last + 1, seen))
            all == Transactions(run.last + 1, run.current)
<1>4. run' = [run EXCEPT !.pc = "observe", !.todo = page, !.missed = all \ page]
  BY <1>1 DEF Asked
<1>5. run.last + 1 \in Nat \ {0} /\ run.current \in 0..now /\ seen \in 0..now /\ run.last \in Nat
  BY RunFields DEF RunInv, Indexed
<1>6. /\ page \subseteq Transactions(run.last + 1, seen)
      /\ Transactions(run.last + 1, seen) \subseteq Transactions(1, now)
      /\ all \subseteq Transactions(1, now) /\ Transactions(1, now) \in Txs
  BY <1>5, TransactionsOfChain DEF FirstPage
<1>7. \A tx \in page : tx[1] > run.last
  <2>1. \A tx \in page : tx[1] \in (run.last + 1)..seen
    BY <1>6, TransactionPairs
  <2>. QED BY <1>5, <2>1
<1>8. \A s \in (run.last + 1)..run.current : \A i \in DOMAIN blocks[s] : <<s, i>> \in all
  BY TransactionPairs
<1>. HIDE DEF page, all
<1>9. /\ run' \in RunType /\ run'.pc = "observe" /\ run'.last = run.last
      /\ run'.current = run.current /\ run'.todo = page /\ run'.missed = all \ page
  <2>1. run \in RunType /\ page \in Txs /\ all \ page \in Txs
    BY <1>6 DEF RunInv, Txs
  <2>. QED BY <1>4, <2>1 DEF RunType, PCs
<1>10. StampInv'
  BY <1>2 DEF StampInv
<1>11. RunInv'
  BY <1>2, <1>3, <1>6, <1>9 DEF RunInv
<1>12. IntervalInv'
  BY <1>2, <1>9 DEF IntervalInv
<1>13. PageInv'
  <2>1. \A s, i : <<s, i>> \in all => <<s, i>> \in run'.todo \cup run'.missed
    BY <1>9
  <2>. QED BY <1>2, <1>7, <1>8, <1>9, <2>1 DEF PageInv
<1>14. DoneInv'
  BY <1>9 DEF DoneInv
<1>15. PassedInv'
  BY <1>2 DEF PassedInv, Passed
<1>. QED BY <1>3, <1>10, <1>11, <1>12, <1>13, <1>14, <1>15

\* The transactions of the page are observed, up to the first that does not decode.
LEMMA ObserveInv ==
    ASSUME IInv, Observe
    PROVE  IInv'
<1>. USE DEF IInv
<1>1. /\ UNCHANGED <<now, blocks, cached, age, first, passed, missed, failures>>
      /\ run.pc = "observe" /\ observed' = Counted
      /\ run' = IF Throws THEN Idle ELSE [run EXCEPT !.pc = "advance", !.todo = {}]
  BY DEF Observe
<1>2. /\ observed' \in Seq(Seq(Nat)) /\ Len(observed') = now
      /\ \A s \in 1..now :
           /\ DOMAIN observed'[s] = DOMAIN blocks[s]
           /\ \A i \in DOMAIN blocks[s] :
                /\ observed[s][i] \in Nat /\ observed'[s][i] \in Nat
                /\ observed'[s][i] >= observed[s][i]
                /\ <<s, i>> \in Decoded(run.todo) /\ blocks[s][i] = "tracked"
                     => observed'[s][i] >= 1
  BY <1>1, CountedTyped
<1>3. ChainInv' /\ Transactions(1, now)' = Transactions(1, now)
  BY <1>1, <1>2 DEF ChainInv, Transactions
<1>4. \A s \in 1..now : \A i \in DOMAIN blocks[s] : observed[s][i] >= 1 => observed'[s][i] >= 1
  <2>1. \A a, b \in Nat : b >= a /\ a >= 1 => b >= 1
    OBVIOUS
  <2>2. ASSUME NEW s \in 1..now, NEW i \in DOMAIN blocks[s], observed[s][i] >= 1
        PROVE  observed'[s][i] >= 1
    <3>1. /\ observed[s][i] \in Nat /\ observed'[s][i] \in Nat
          /\ observed'[s][i] >= observed[s][i]
      BY <1>2
    <3>. QED BY <2>1, <2>2, <3>1
  <2>. QED BY <2>2
<1>5. StampInv'
  BY <1>1 DEF StampInv
<1>6. PassedInv'
  <2>1. \A s \in (first + 1)..cached : s \in 1..now
    BY DEF StampInv, ChainInv
  <2>2. \A s \in 1..now : \A i \in DOMAIN blocks[s] : Passed(s, i) => Passed(s, i)'
    BY <1>1, <1>4 DEF Passed
  <2>. QED BY <1>1, <2>1, <2>2 DEF PassedInv
<1>7. CASE Throws
  <2>1. run' = Idle /\ missed' \subseteq Transactions(1, now)
    BY <1>1, <1>7 DEF RunInv
  <2>. QED BY <1>3, <1>5, <1>6, <2>1, IdleInv
<1>8. CASE ~Throws
  <2>1. /\ run' \in RunType /\ run'.pc = "advance" /\ run'.last = run.last
        /\ run'.current = run.current /\ run'.todo = {} /\ run'.missed = run.missed
    <3>1. run \in RunType /\ {} \in Txs
      BY DEF RunInv, Txs
    <3>2. run' = [run EXCEPT !.pc = "advance", !.todo = {}]
      BY <1>1, <1>8
    <3>. QED BY <3>1, <3>2 DEF RunType, PCs
  <2>2. RunInv'
    BY <1>1, <1>3, <2>1 DEF RunInv
  <2>3. IntervalInv' /\ PageInv'
    BY <1>1, <2>1 DEF IntervalInv, PageInv
  <2>4. Decoded(run.todo) = run.todo
    BY <1>8 DEF Throws, Decoded
  <2>5. \A s \in (run.last + 1)..run.current : s \in 1..now
    BY RunFields
  <2>6. \A s \in (run.last + 1)..run.current : \A i \in DOMAIN blocks[s] : Done(s, i)'
    BY <1>1, <1>2, <2>1, <2>4, <2>5 DEF PageInv, Done
  <2>7. DoneInv'
    BY <1>1, <2>1, <2>6 DEF DoneInv
  <2>. QED BY <1>3, <1>5, <1>6, <2>2, <2>3, <2>7
<1>. QED BY <1>7, <1>8
\* The interval is done: the timestamp moves to its end.
LEMMA AdvanceInv ==
    ASSUME IInv, Advance
    PROVE  IInv'
<1>. USE DEF IInv
<1>1. /\ UNCHANGED <<now, blocks, observed, failures>> /\ run.pc = "advance"
      /\ cached' = run.current /\ age' = 0 /\ run' = Idle
      /\ passed' = IF run.current > passed THEN run.current ELSE passed
      /\ first' = IF cached = 0 THEN run.last ELSE first
      /\ missed' = missed \cup run.missed
  BY DEF Advance, Store
<1>2. ChainInv' /\ Transactions(1, now)' = Transactions(1, now)
  BY <1>1, SameChain
<1>3. /\ run.current \in 0..now /\ now \in Nat /\ run.last \in Nat /\ first \in Nat
      /\ run.last = passed /\ run.last < run.current
      /\ cached # 0 => cached = run.last
  BY <1>1 DEF RunInv, IntervalInv, StampInv, ChainInv
<1>4. passed' = run.current
  BY <1>1, <1>3
<1>5. StampInv'
  BY <1>1, <1>3, <1>4, TransactionProcessorAssumption DEF StampInv
<1>6. RunInv' /\ IntervalInv' /\ PageInv' /\ DoneInv'
  BY <1>1, <1>2, IdleInv DEF RunInv
<1>7. PassedInv'
  <2>1. \A s \in (run.last + 1)..run.current : \A i \in DOMAIN blocks[s] : Passed(s, i)'
    <3>1. \A s \in (run.last + 1)..run.current : \A i \in DOMAIN blocks[s] : Done(s, i)
      BY <1>1 DEF DoneInv
    <3>2. \A s, i : Done(s, i) => Passed(s, i)'
      BY <1>1 DEF Done, Passed
    <3>. QED BY <3>1, <3>2
  <2>2. CASE cached = 0
    <3>1. first' = run.last /\ cached' = run.current
      BY <1>1, <2>2
    <3>. QED BY <1>1, <2>1, <3>1 DEF PassedInv
  <2>3. CASE cached # 0
    <3>1. first' = first /\ cached' = run.current
      BY <1>1, <2>3
    <3>2. \A s \in (first + 1)..run.current :
            s \in (first + 1)..cached \/ s \in (run.last + 1)..run.current
      BY <1>3, <2>3
    <3>3. \A s \in (first + 1)..cached : \A i \in DOMAIN blocks[s] : Passed(s, i)
      BY <2>3 DEF PassedInv
    <3>4. \A s, i : Passed(s, i) => Passed(s, i)'
      BY <1>1 DEF Passed
    <3>5. \A s \in (first + 1)..run.current : \A i \in DOMAIN blocks[s] : Passed(s, i)'
      BY <2>1, <3>2, <3>3, <3>4
    <3>. QED BY <1>1, <3>1, <3>5 DEF PassedInv
  <2>. QED BY <2>2, <2>3
<1>. QED BY <1>2, <1>5, <1>6, <1>7

\* A run that throws leaves the timestamp where it is.
LEMMA RunFailsInv ==
    ASSUME IInv, RunFails
    PROVE  IInv'
<1>. USE DEF IInv
<1>1. /\ UNCHANGED <<now, blocks, cached, age, observed, first, passed, missed>>
      /\ failures' = failures + 1 /\ run' = Idle
  BY DEF RunFails
<1>2. ChainInv' /\ Transactions(1, now)' = Transactions(1, now)
  BY <1>1, SameChain
<1>3. StampInv'
  BY <1>1 DEF StampInv
<1>4. RunInv' /\ IntervalInv' /\ PageInv' /\ DoneInv'
  BY <1>1, <1>2, IdleInv DEF RunInv
<1>5. PassedInv'
  BY <1>1 DEF PassedInv, Passed
<1>. QED BY <1>2, <1>3, <1>4, <1>5

LEMMA StepInv == IInv /\ [Next]_vars => IInv'
<1>. SUFFICES ASSUME IInv, [Next]_vars PROVE IInv'
  OBVIOUS
<1>1. CASE \E txs \in BlockTxs : NextBlock(txs)
  BY <1>1, NextBlockInv
<1>2. CASE CronFires
  BY <1>2, CronFiresInv
<1>3. CASE RunStep
  BY <1>3, GetLastInv, GetNowInv, KeepInv, FetchInv, ObserveInv, AdvanceInv, RunFailsInv
     DEF RunStep
<1>4. CASE UNCHANGED vars
  BY <1>4 DEF vars, IInv, ChainInv, StampInv, RunInv, IntervalInv, PageInv, DoneInv, Done,
              PassedInv, Passed, Transactions
<1>. QED BY <1>1, <1>2, <1>3, <1>4 DEF Next

LEMMA AlwaysInv == Spec => []IInv
  BY InitInv, StepInv, PTL DEF Spec

--------------------------------------------------------------------------------
(* Theorems.                                                               *)

\* While the timestamp does not expire, every tracked transaction of the seconds it passed was
\* observed or was not returned by the API; all variables keep their types.
THEOREM TransactionGaps == Spec => []NoGaps
<1>1. IInv => NoGaps
  <2>. SUFFICES ASSUME IInv PROVE NoGaps
    OBVIOUS
  <2>. USE DEF IInv
  <2>1. \A s \in 1..now : observed[s] \in [DOMAIN blocks[s] -> Nat]
    <3>. SUFFICES ASSUME NEW s \in 1..now PROVE observed[s] \in [DOMAIN blocks[s] -> Nat]
      OBVIOUS
    <3>1. observed[s] \in Seq(Nat)
      BY ElementOfSeq DEF ChainInv
    <3>2. DOMAIN observed[s] = 1..Len(observed[s])
      BY <3>1, LenProperties
    <3>3. observed[s] \in [1..Len(observed[s]) -> Nat]
      BY <3>1, LenProperties
    <3>4. DOMAIN observed[s] = DOMAIN blocks[s]
      BY DEF ChainInv
    <3>. QED BY <3>2, <3>3, <3>4
  <2>2. \A s \in 1..now : blocks[s] \in Seq(Kinds)
    BY ElementOfSeq DEF ChainInv
  <2>3. DOMAIN observed = 1..now /\ now \in Nat /\ Len(blocks) = now
    BY LenProperties DEF ChainInv
  <2>4. cached \in 0..now /\ age \in 0..TtlPeriods /\ {first, passed, failures} \subseteq Nat
    BY DEF StampInv, ChainInv
  <2>5. /\ run.pc \in PCs /\ run.last \in 0..now /\ run.current \in 0..now
        /\ missed \cup run.missed \cup run.todo \subseteq Transactions(1, now)
    BY RunFields DEF RunInv
  <2>6. run.pc \in {"fetch", "observe", "advance"} => run.last < run.current
    BY DEF IntervalInv
  <2>7. TypeOK
    BY <2>1, <2>2, <2>3, <2>4, <2>5, <2>6 DEF TypeOK
  <2>. QED BY <2>7 DEF NoGaps, PassedInv, Passed
<1>. QED BY <1>1, AlwaysInv, PTL

\* A transaction of a second that a stored timestamp passed is never observed again, whichever
\* runs throw and whenever the timestamp expires.
THEOREM PassedNeverObserved == Spec => PassedIsFinal
<1>. DEFINE A == \A s \in 1..now : observed'[s] # observed[s] => s > passed
<1>1. IInv /\ [Next]_vars => [A]_vars
  <2>. SUFFICES ASSUME IInv, Next PROVE A
    OBVIOUS
  <2>. USE DEF IInv
  <2>1. CASE \E txs \in BlockTxs : NextBlock(txs)
    <3>1. PICK txs \in BlockTxs : NextBlock(txs)
      BY <2>1
    <3>2. /\ now' = now + 1 /\ blocks' = Append(blocks, txs) /\ txs \in Seq(Kinds)
          /\ observed' = Append(observed, [i \in DOMAIN txs |-> 0])
      BY <3>1, TransactionProcessorAssumption DEF NextBlock
    <3>. QED BY <3>2, AddedBlock
  <2>2. CASE Observe
    <3>1. run.pc = "observe" /\ observed' = Counted
      BY <2>2 DEF Observe
    <3>2. run.last = passed /\ passed \in Nat
      BY <3>1 DEF IntervalInv, StampInv, ChainInv
    <3>. SUFFICES ASSUME NEW s \in 1..now, ~(s > passed) PROVE observed'[s] = observed[s]
      OBVIOUS
    <3>3. \A i \in DOMAIN blocks[s] : <<s, i>> \notin run.todo
      BY <3>1, <3>2 DEF PageInv
    <3>. QED BY <3>1, <3>3, CountedTyped
  <2>3. CASE UNCHANGED observed
    BY <2>3
  <2>. QED BY <2>1, <2>2, <2>3
           DEF Next, RunStep, CronFires, GetLast, GetNow, Keep, Fetch, Advance, RunFails
<1>. QED BY <1>1, AlwaysInv, PTL DEF Spec, PassedIsFinal

--------------------------------------------------------------------------------
(* How often a transaction is observed.                                    *)

\* One observation is allowed for once the timestamp passed a second, or is about to.
Allowed(s) == IF s <= passed \/ (run.pc = "advance" /\ s <= run.current) THEN 1 ELSE 0

PageEnd == run.pc = "observe" => \A tx \in run.todo : tx[1] <= run.current

OnceInv ==
    /\ PageEnd
    /\ \A s \in 1..now : \A i \in DOMAIN blocks[s] :
          Blocked(s, i) \/ observed[s][i] <= failures + Allowed(s)

\* Numbers of the state.
LEMMA OnceFacts ==
    ASSUME IInv
    PROVE  /\ now \in Nat /\ passed \in Nat /\ failures \in Nat
           /\ run.last \in Nat /\ run.current \in Nat
           /\ \A s \in 1..now : s \in Nat
           /\ \A s \in 1..now : \A i \in DOMAIN blocks[s] : observed[s][i] \in Nat
<1>1. now \in Nat /\ passed \in Nat /\ failures \in Nat
  BY DEF IInv, ChainInv, StampInv
<1>2. run.last \in Nat /\ run.current \in Nat
  BY RunFields DEF IInv
<1>3. \A s \in 1..now : \A i \in DOMAIN blocks[s] : observed[s][i] \in Nat
  BY CountedTyped DEF IInv
<1>. QED BY <1>1, <1>2, <1>3

\* Nothing is observed, and more is allowed for.
LEMMA OnceKept ==
    ASSUME IInv, OnceInv, UNCHANGED <<now, blocks, observed>>, PageEnd',
           failures' \in Nat,
           \A s \in 1..now : failures + Allowed(s) <= failures' + Allowed(s)'
    PROVE  OnceInv'
<1>1. ASSUME NEW s \in 1..now, NEW i \in DOMAIN blocks[s]
      PROVE  Blocked(s, i)' \/ observed'[s][i] <= failures' + Allowed(s)'
  <2>1. Blocked(s, i) \/ observed[s][i] <= failures + Allowed(s)
    BY DEF OnceInv
  <2>2. Blocked(s, i) => Blocked(s, i)'
    BY DEF Blocked
  <2>3. /\ observed'[s][i] \in Nat /\ observed'[s][i] = observed[s][i]
        /\ failures \in Nat
        /\ Allowed(s) \in Nat /\ Allowed(s)' \in Nat
        /\ failures + Allowed(s) <= failures' + Allowed(s)'
    BY OnceFacts DEF Allowed
  <2>. QED BY <2>1, <2>2, <2>3
<1>. QED BY <1>1 DEF OnceInv

LEMMA OnceInit == Init => OnceInv
<1>. SUFFICES ASSUME Init PROVE OnceInv
  OBVIOUS
<1>1. now = 1 /\ blocks[1] = <<>> /\ run.pc = "idle"
  BY DEF Init, Idle
<1>2. DOMAIN blocks[1] = {}
  BY <1>1
<1>. QED BY <1>1, <1>2 DEF OnceInv, PageEnd

LEMMA NextBlockOnce ==
    ASSUME IInv, OnceInv, NEW txs \in BlockTxs, NextBlock(txs)
    PROVE  OnceInv'
<1>1. /\ now' = now + 1 /\ blocks' = Append(blocks, txs)
      /\ observed' = Append(observed, [i \in DOMAIN txs |-> 0])
      /\ UNCHANGED <<run, passed, failures>>
      /\ txs \in Seq(Kinds)
  BY TransactionProcessorAssumption DEF NextBlock
<1>2. \A s \in 1..now : blocks'[s] = blocks[s] /\ observed'[s] = observed[s]
  BY <1>1, AddedBlock DEF IInv
<1>3. blocks'[now + 1] = txs /\ observed'[now + 1] = [i \in DOMAIN txs |-> 0]
  BY <1>1, AppendProperties DEF IInv, ChainInv
<1>4. PageEnd'
  BY <1>1 DEF OnceInv, PageEnd
<1>5. ASSUME NEW s \in 1..now', NEW i \in DOMAIN blocks'[s]
      PROVE  Blocked(s, i)' \/ observed'[s][i] <= failures' + Allowed(s)'
  <2>1. Allowed(s)' = Allowed(s) /\ Allowed(s) \in Nat /\ failures' = failures
    BY <1>1 DEF Allowed
  <2>2. CASE s \in 1..now
    <3>1. Blocked(s, i) \/ observed[s][i] <= failures + Allowed(s)
      BY <1>2, <1>5, <2>2 DEF OnceInv
    <3>2. \A r \in 1..s : r \in 1..now
      BY <2>2, OnceFacts
    <3>3. Blocked(s, i) => Blocked(s, i)'
      BY <1>2, <3>2 DEF Blocked, Newer
    <3>. QED BY <1>2, <2>1, <2>2, <3>1, <3>3
  <2>3. CASE s = now + 1
    <3>1. observed'[s][i] = 0
      BY <1>3, <1>5, <2>3
    <3>2. failures \in Nat
      BY OnceFacts
    <3>. QED BY <2>1, <3>1, <3>2
  <2>4. now \in Nat /\ s \in 1..(now + 1)
    BY <1>1, <1>5, OnceFacts
  <2>5. s \in 1..now \/ s = now + 1
    BY <2>4
  <2>. QED BY <2>2, <2>3, <2>5
<1>. QED BY <1>4, <1>5 DEF OnceInv

\* A run that throws while it observes found something that does not decode before all that it
\* observed; another one has them all to its name.
LEMMA ObserveOnce ==
    ASSUME IInv, OnceInv, Observe
    PROVE  OnceInv'
<1>1. /\ UNCHANGED <<now, blocks, passed, failures>>
      /\ run.pc = "observe" /\ observed' = Counted
      /\ run' = IF Throws THEN Idle ELSE [run EXCEPT !.pc = "advance", !.todo = {}]
  BY DEF Observe
<1>2. /\ run \in RunType /\ run.todo \subseteq Transactions(1, now)
      /\ run.last = passed
      /\ \A tx \in run.todo : tx[1] > run.last /\ tx[1] <= run.current
  BY <1>1 DEF IInv, RunInv, IntervalInv, PageInv, OnceInv, PageEnd
<1>3. PageEnd'
  <2>1. run'.pc # "observe"
    BY <1>1, <1>2, IdleIsRun DEF RunType
  <2>. QED BY <2>1 DEF PageEnd
<1>4. ~Throws => run'.pc = "advance" /\ run'.current = run.current
  BY <1>1, <1>2 DEF RunType
<1>5. ASSUME NEW s \in 1..now, NEW i \in DOMAIN blocks[s]
      PROVE  Blocked(s, i)' \/ observed'[s][i] <= failures + Allowed(s)'
  <2>1. Blocked(s, i) \/ observed[s][i] <= failures
                            + (IF s <= passed THEN 1 ELSE 0)
    BY <1>1 DEF OnceInv, Allowed
  <2>2. Blocked(s, i)' <=> Blocked(s, i)
    BY <1>1 DEF Blocked
  <2>3. /\ s \in Nat /\ passed \in Nat /\ failures \in Nat /\ observed[s][i] \in Nat
        /\ run.current \in Nat
    BY OnceFacts
  <2>4. /\ i \in DOMAIN observed[s]
        /\ observed'[s][i] = IF <<s, i>> \in Decoded(run.todo) /\ blocks[s][i] = "tracked"
                              THEN observed[s][i] + 1 ELSE observed[s][i]
    <3>1. s \in DOMAIN observed /\ DOMAIN observed[s] = DOMAIN blocks[s]
      BY LenProperties DEF IInv, ChainInv
    <3>. QED BY <1>1, <3>1 DEF Counted
  <2>5. CASE <<s, i>> \notin Decoded(run.todo)
    <3>1. observed'[s][i] = observed[s][i]
      BY <2>4, <2>5
    <3>2. Allowed(s)' \in Nat /\ Allowed(s)' >= (IF s <= passed THEN 1 ELSE 0)
      BY <1>1 DEF Allowed
    <3>. QED BY <2>1, <2>2, <2>3, <3>1, <3>2
  <2>6. CASE <<s, i>> \in Decoded(run.todo)
    <3>1. <<s, i>> \in run.todo
      BY <2>6 DEF Decoded
    <3>2. s > passed /\ s <= run.current
      <4>1. <<s, i>>[1] = s
        OBVIOUS
      <4>. QED BY <1>2, <3>1, <4>1
    <3>3. CASE Throws
      <4>1. PICK tx \in run.todo : Kind(tx) = "malformed"
        BY <3>3 DEF Throws
      <4>2. /\ tx[1] \in 1..now /\ tx[2] \in DOMAIN blocks[tx[1]] /\ tx = <<tx[1], tx[2]>>
        BY <1>2, <4>1, TransactionPairs
      <4>3. Newer(<<s, i>>, tx)
        BY <2>6, <4>1 DEF Decoded
      <4>4. tx[1] \in 1..s
        BY <2>3, <4>2, <4>3, OnceFacts DEF Newer
      <4>5. Newer(<<s, i>>, <<tx[1], tx[2]>>) /\ blocks[tx[1]][tx[2]] = "malformed"
        BY <4>1, <4>3 DEF Newer, Kind
      <4>6. Blocked(s, i)
        BY <4>2, <4>4, <4>5 DEF Blocked
      <4>. QED BY <2>2, <4>6
    <3>4. CASE ~Throws
      <4>1. Allowed(s)' = 1
        BY <1>1, <1>4, <3>2, <3>4 DEF Allowed
      <4>2. Blocked(s, i) \/ observed[s][i] <= failures
        BY <2>1, <2>3, <3>2
      <4>. QED BY <2>2, <2>3, <2>4, <4>1, <4>2
    <3>. QED BY <3>3, <3>4
  <2>. QED BY <2>5, <2>6
<1>. QED BY <1>1, <1>3, <1>5 DEF OnceInv

\* The other steps observe nothing: one that gives up what it observed is a failure.
LEMMA OtherOnce ==
    ASSUME IInv, OnceInv, [Next]_vars, UNCHANGED <<now, blocks, observed>>, ~Observe
    PROVE  OnceInv'
<1>1. run \in RunType /\ run.periods \in Nat
  BY RunFields DEF IInv, RunInv
<1>2. /\ passed \in Nat /\ failures \in Nat /\ run.current \in Nat /\ run.last \in Nat
      /\ \A s \in 1..now : s \in Nat
  BY OnceFacts
<1>3. CASE CronFires \/ UNCHANGED vars
  <2>1. /\ \/ run' = run
           \/ run.pc = "idle" /\ run' = [Idle EXCEPT !.pc = "getLast"]
           \/ run' = [run EXCEPT !.periods = @ + 1]
        /\ passed' = passed /\ failures' = failures
    BY <1>3 DEF CronFires, vars
  <2>2. \/ run'.pc = run.pc /\ run'.current = run.current /\ run'.todo = run.todo
        \/ run'.pc = "getLast" /\ run.pc = "idle"
    BY <1>1, <2>1 DEF Idle, RunType
  <2>3. PageEnd'
    BY <2>2 DEF OnceInv, PageEnd
  <2>. QED BY <1>2, <2>1, <2>2, <2>3, OnceKept DEF Allowed
<1>4. CASE GetLast \/ GetNow \/ Fetch
  <2>1. run.pc # "advance" /\ passed' = passed /\ failures' = failures
    BY <1>4 DEF GetLast, GetNow, Fetch
  <2>2. PageEnd'
    <3>1. CASE GetLast \/ GetNow
      <4>1. run'.pc # "observe"
        BY <1>1, <3>1 DEF GetLast, GetNow, RunType
      <4>. QED BY <4>1 DEF PageEnd
    <3>2. CASE Fetch
      <4>1. PICK seen \in Indexed(run.last, run.current) : run' = Asked(run.last + 1, seen)
        BY <3>2 DEF Fetch
      <4>2. /\ run'.todo = FirstPage(Transactions(run.last + 1, seen))
            /\ run'.current = run.current
        BY <1>1, <4>1 DEF Asked, RunType
      <4>3. \A tx \in run'.todo : tx[1] \in (run.last + 1)..seen
        BY <4>2, TransactionPairs DEF FirstPage
      <4>4. seen \in run.last..run.current
        BY DEF Indexed
      <4>. QED BY <1>2, <4>2, <4>3, <4>4 DEF PageEnd
    <3>. QED BY <1>4, <3>1, <3>2
  <2>. QED BY <1>2, <2>1, <2>2, OnceKept DEF Allowed
<1>5. CASE Keep \/ Advance
  <2>1. /\ run.pc \in {"keep", "advance"} /\ run'.pc = "idle" /\ failures' = failures
        /\ passed' = IF run.current > passed THEN run.current ELSE passed
    BY <1>5, IdleIsRun DEF Keep, Advance, Store
  <2>2. PageEnd'
    BY <2>1 DEF PageEnd
  <2>3. \A s \in 1..now : Allowed(s) <= Allowed(s)'
    BY <1>2, <2>1 DEF Allowed
  <2>4. \A s \in 1..now : Allowed(s) \in Nat /\ Allowed(s)' \in Nat
    BY DEF Allowed
  <2>. QED BY <1>2, <2>1, <2>2, <2>3, <2>4, OnceKept
<1>6. CASE RunFails
  <2>1. run'.pc = "idle" /\ failures' = failures + 1 /\ passed' = passed
    BY <1>6, IdleIsRun DEF RunFails
  <2>2. PageEnd'
    BY <2>1 DEF PageEnd
  <2>. QED BY <1>2, <2>1, <2>2, OnceKept DEF Allowed
<1>7. ~(\E txs \in BlockTxs : NextBlock(txs))
  <2>1. now \in Nat
    BY OnceFacts
  <2>2. now' # now + 1
    BY <2>1
  <2>. QED BY <2>2 DEF NextBlock
<1>. QED BY <1>3, <1>4, <1>5, <1>6, <1>7 DEF Next, RunStep

\* A transaction is observed once and once more for every run that threw at an await, unless one
\* before it does not decode: only that makes runs observe it again and again.
THEOREM TransactionsObservedOnce == Spec => []ObservedOnce
<1>1. IInv /\ OnceInv => ObservedOnce
  <2>. SUFFICES ASSUME IInv, OnceInv, NEW s \in 1..now, NEW i \in DOMAIN blocks[s], ~Blocked(s, i)
                PROVE  observed[s][i] <= 1 + failures
    BY DEF ObservedOnce
  <2>1. observed[s][i] <= failures + Allowed(s)
    BY DEF OnceInv
  <2>2. observed[s][i] \in Nat /\ failures \in Nat /\ Allowed(s) \in {0, 1}
    BY OnceFacts DEF Allowed
  <2>. QED BY <2>1, <2>2
<1>2. IInv /\ OnceInv /\ [Next]_vars => OnceInv'
  <2>. SUFFICES ASSUME IInv, OnceInv, [Next]_vars PROVE OnceInv'
    OBVIOUS
  <2>1. \/ \E txs \in BlockTxs : NextBlock(txs)
        \/ Observe
        \/ UNCHANGED <<now, blocks, observed>>
    BY DEF Next, RunStep, CronFires, GetLast, GetNow, Keep, Fetch, Advance, RunFails, vars
  <2>. QED BY <2>1, NextBlockOnce, ObserveOnce, OtherOnce
<1>. QED BY <1>1, <1>2, OnceInit, AlwaysInv, PTL DEF Spec
================================================================================
