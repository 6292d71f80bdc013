---------------------------- MODULE AnalyticsLedger ----------------------------
(***************************************************************************)
(* What the analytics table promises about real-time data.  A block waits  *)
(* until it is settled.  Its rows are written as a whole, for every series *)
(* the block touches and with the exact totals of the block, any number of *)
(* times; it is settled only when its rows are there, or are known to be   *)
(* lost.  This holds while the ledger is exact: two faults of the service, *)
(* a call that outlives its channel and a list of pairs that cannot be     *)
(* read, end it.                                                           *)
(***************************************************************************)
EXTENDS Naturals, Sequences, FiniteSetsExt

CONSTANTS
    Pairs,    \* pair contracts
    Token,    \* series of the token all pairs share
    Blocks    \* sequences of events a block may carry

VARIABLES
    blocks,   \* blocks[t]: events of block t, in order
    rows,     \* rows[t]: what the table holds for timestamp t, by series
    waiting,  \* the blocks that are not settled
    lost,     \* the blocks whose write failed
    exact     \* no fault has ended the promise

vars == <<blocks, rows, waiting, lost, exact>>

Series == Pairs \cup {Token}

\* An event names the contract that emitted it.
Event == [name : {"swap", "createPair", "esdt"}, address : Pairs \cup {"router", "token"},
          pair : Pairs]

\* Totals of a series: volumes are summed, prices keep the last value (the
\* position of the event that set it).  No row: no event touched the series.
NoRow == [volume |-> 0, price |-> 0]

Touches(e, s) == e.name = "swap" /\ s \in {e.pair, Token}

Total(block, s) ==
    LET touching == {i \in DOMAIN block : Touches(block[i], s)} IN
    IF touching = {} THEN NoRow
    ELSE [volume |-> Cardinality(touching), price |-> Max(touching)]

Totals(t) == [s \in Series |-> Total(blocks[t], s)]

Init ==
    /\ blocks = <<>>
    /\ rows = <<>>
    /\ waiting = {}
    /\ lost = {}
    /\ exact = TRUE

EmitBlock(block) ==
    /\ blocks' = Append(blocks, block)
    /\ rows' = Append(rows, [s \in Series |-> NoRow])
    /\ waiting' = waiting \cup {Len(blocks) + 1}
    /\ UNCHANGED <<lost, exact>>

RecordBlock(t) ==
    /\ t \in waiting
    /\ rows' = [rows EXCEPT ![t] = Totals(t)]
    /\ UNCHANGED <<blocks, waiting, lost, exact>>

LoseBlock(t) ==
    /\ t \in waiting
    /\ lost' = lost \cup {t}
    /\ UNCHANGED <<blocks, rows, waiting, exact>>

\* The rows of a block that touches no series are there from the start.
Settle(t) ==
    /\ t \in waiting
    /\ t \in lost \/ rows[t] = Totals(t)
    /\ waiting' = waiting \ {t}
    /\ UNCHANGED <<blocks, rows, lost, exact>>

\* From a fault on, only the blocks themselves are certain.
Fault == /\ ~exact'
         /\ blocks' = blocks \/ \E block \in Blocks : blocks' = Append(blocks, block)

Next ==
    \/ Fault
    \/ \E block \in Blocks : EmitBlock(block)
    \/ \E t \in DOMAIN blocks : RecordBlock(t) \/ LoseBlock(t) \/ Settle(t)

Spec == Init /\ [][Next]_vars
================================================================================
