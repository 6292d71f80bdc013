------------------------------- MODULE CachedTotals -------------------------------
(***************************************************************************)
(* Handlers that add what an event carries to a cached total: the votes of *)
(* a proposal (GovernanceHandlerService), the fees of a week               *)
(* (FeesCollectorHandlerService) and, with a minus, the rewards of a week  *)
(* (WeeklyRewardsSplittingHandlerService.handleClaimMulti).  The total is  *)
(* read through the cache, changed, and stored, while readers fill the     *)
(* same cache from a contract that has already counted the event.          *)
(*                                                                         *)
(* Event i of the chain adds one unit of its own: a cached value says how  *)
(* often each event is counted in each of its fields.  Voter i casts vote  *)
(* i.  An entry is what the consumer and the readers see; the two levels   *)
(* of the cache are in LayeredCache.                                       *)
(***************************************************************************)
EXTENDS Naturals, Sequences, FiniteSets

CONSTANTS
    Kinds,        \* kinds of events: the four votes, or one kind of deposit
    Voters,       \* voters whose own records are followed; none for fees
    MaxEvents,    \* bound: events of the chain
    MaxFailures   \* bound: awaits of the handler that throw, and crashes

ASSUME CachedTotalsAssumption ==
    /\ "total" \notin Kinds
    /\ "veto" \in Kinds => "down" \in Kinds
    /\ Voters \subseteq 1..MaxEvents
    /\ {MaxEvents, MaxFailures} \subseteq Nat

VARIABLES
    chain,      \* kinds of the events of the contract, in order
    acked,      \* how many events the broker has dismissed
    indexed,    \* how many the log index knows
    totals,     \* cached proposalVotes or accumulatedFees
    voted,      \* voted[i]: cached userVotedProposals of voter i
    types,      \* types[i]: cached userVoteTypesForContract of voter i
    call,       \* the handler
    buffer,     \* invalidatedKeys of the handler
    dirty,      \* keys stored and not published since
    reader,     \* a flow that reads one of them, through the cache
    failures,
    counted,    \* events the handler has stored in the totals
    redelivered,\* events handled again after that
    early,      \* events a fill contained before the handler counted them
    late        \* events a fill had not contained when it was stored after them

vars == <<chain, acked, indexed, totals, voted, types, call, buffer, dirty, reader, failures, counted, redelivered, early, late>>

ghosts == <<counted, redelivered, early, late>>

Events == 1..MaxEvents
Fields == Kinds \cup {"total"}

Missing == "missing"
NoTotals == [f \in {} |-> 0]

\* What the contract answers.
OnChain == [f \in Fields |-> [i \in Events |->
              IF i <= Len(chain) /\ f \in {"total", chain[i]} THEN 1 ELSE 0]]

VotedOnChain(i) == IF i <= Len(chain) THEN "yes" ELSE "no"

\* What userVoteTypesForContract says of a proposal that is not in its list.
Unlisted == "unlisted"
NotVoted == "NotVoted"

\* Fault: only the field of the vote is added to.
AddToField(value, i) == [value EXCEPT ![chain[i]][i] = @ + 1]

\* increaseProposalVotes: a veto is added to the down votes.
FieldOf(kind) == IF kind = "veto" THEN "down" ELSE kind
Add(value, i) == [value EXCEPT !["total"][i] = @ + 1, ![FieldOf(chain[i])][i] = @ + 1]

\* A flow holds the totals it has read, and what it was told about voter i.
IdleCall == [pc |-> "idle", held |-> NoTotals]
IdleFlow == [pc |-> "idle", i |-> 0, held |-> NoTotals, told |-> Missing]
Current == acked + 1

--------------------------------------------------------------------------------
Init ==
    /\ chain = <<>> /\ acked = 0 /\ indexed = 0
    /\ totals = NoTotals
    /\ voted = [i \in Events |-> Missing]
    /\ types = [i \in Events |-> Missing]
    /\ call = IdleCall
    /\ buffer = {} /\ dirty = {}
    /\ reader = IdleFlow
    /\ failures = 0
    /\ counted = {} /\ redelivered = {} /\ early = {} /\ late = {}

\* A transaction emits an event.
Emit(kind) ==
    /\ Len(chain) < MaxEvents
    /\ chain' = Append(chain, kind)
    /\ UNCHANGED <<acked, indexed, totals, voted, types, call, buffer, dirty, reader, failures, ghosts>>

Index ==
    /\ indexed < Len(chain)
    /\ indexed' = indexed + 1
    /\ UNCHANGED <<chain, acked, totals, voted, types, call, buffer, dirty, reader, failures, ghosts>>

ExpireTotals ==
    /\ totals # NoTotals
    /\ totals' = NoTotals
    /\ UNCHANGED <<chain, acked, indexed, voted, types, call, buffer, dirty, reader, failures, ghosts>>

ExpireVoted(i) ==
    /\ voted[i] # Missing
    /\ voted' = [voted EXCEPT ![i] = Missing]
    /\ UNCHANGED <<chain, acked, indexed, totals, types, call, buffer, dirty, reader, failures,
                   ghosts>>

ExpireTypes(i) ==
    /\ types[i] # Missing
    /\ types' = [types EXCEPT ![i] = Missing]
    /\ UNCHANGED <<chain, acked, indexed, totals, voted, call, buffer, dirty, reader, failures,
                   ghosts>>

--------------------------------------------------------------------------------
(* The handler of event Current.                                           *)

Env == <<chain, indexed, reader, failures>>

\* Without a record to follow, as for deposited fees, only the total is left.
FirstStep == IF Current \in Voters THEN "getVoted" ELSE "getTotals"

\* The broker delivers the first event it has not dismissed.
Deliver ==
    /\ call.pc = "idle" /\ Current <= Len(chain)
    /\ call' = [IdleCall EXCEPT !.pc = FirstStep]
    /\ redelivered' = redelivered \cup ({Current} \cap counted)
    /\ UNCHANGED <<Env, acked, totals, voted, types, buffer, dirty, counted, early, late>>

\* getOrSet: the cached value, or what the contract answers, which is then stored.
GetVoted ==
    /\ call.pc = "getVoted"
    /\ call' = [call EXCEPT !.pc = IF voted[Current] = Missing THEN "fillVoted" ELSE "setVoted"]
    /\ UNCHANGED <<Env, acked, totals, voted, types, buffer, dirty, ghosts>>

FillVoted ==
    /\ call.pc = "fillVoted"
    /\ voted' = [voted EXCEPT ![Current] = VotedOnChain(Current)]
    /\ call' = [call EXCEPT !.pc = "setVoted"]
    /\ UNCHANGED <<Env, acked, totals, types, buffer, dirty, ghosts>>

Pushed(key) == buffer' = buffer \cup {key} /\ dirty' = dirty \cup {key}

SetVoted ==
    /\ call.pc = "setVoted"
    /\ voted' = [voted EXCEPT ![Current] = "yes"]
    /\ Pushed(<<"voted", Current>>)
    /\ call' = [call EXCEPT !.pc = "getTypes"]
    /\ UNCHANGED <<Env, acked, totals, types, ghosts>>

\* The list of vote types is filled as empty.
GetTypes ==
    /\ call.pc = "getTypes"
    /\ types' = [types EXCEPT ![Current] = IF @ = Missing THEN Unlisted ELSE @]
    /\ call' = [call EXCEPT !.pc = "setTypes"]
    /\ UNCHANGED <<Env, acked, totals, voted, buffer, dirty, ghosts>>

SetTypes ==
    /\ call.pc = "setTypes"
    /\ types' = [types EXCEPT ![Current] = chain[Current]]
    /\ Pushed(<<"types", Current>>)
    /\ call' = [call EXCEPT !.pc = "getTotals"]
    /\ UNCHANGED <<Env, acked, totals, voted, ghosts>>

GetTotals ==
    /\ call.pc = "getTotals"
    /\ call' = IF totals = NoTotals THEN [pc |-> "fillTotals", held |-> OnChain]
                                   ELSE [pc |-> "setTotals", held |-> totals]
    /\ UNCHANGED <<Env, acked, totals, voted, types, buffer, dirty, ghosts>>

\* A value read from the chain is stored.
StoreFill(value) ==
    /\ totals' = value
    /\ early' = early \cup {i \in Events \ counted : value["total"][i] > 0}
    /\ late' = late \cup {i \in counted : value["total"][i] = 0}

FillTotals ==
    /\ call.pc = "fillTotals"
    /\ StoreFill(call.held)
    /\ call' = [call EXCEPT !.pc = "setTotals"]
    /\ UNCHANGED <<Env, acked, voted, types, buffer, dirty, counted, redelivered>>

\* Fault: the total that is stored is read a second time.
SetTotalsAgain ==
    /\ call.pc = "setTotals"
    /\ totals' = Add(Add(call.held, Current), Current)
    /\ counted' = counted \cup {Current}
    /\ Pushed(<<"totals", 0>>)
    /\ call' = [IdleCall EXCEPT !.pc = "publish"]
    /\ UNCHANGED <<Env, acked, voted, types, redelivered, early, late>>

SetTotals ==
    /\ call.pc = "setTotals"
    /\ totals' = Add(call.held, Current)
    /\ counted' = counted \cup {Current}
    /\ Pushed(<<"totals", 0>>)
    /\ call' = [IdleCall EXCEPT !.pc = "publish"]
    /\ UNCHANGED <<Env, acked, voted, types, redelivered, early, late>>

\* Fault: the buffer is emptied before it is published.
PublishEmptied ==
    /\ call.pc = "publish"
    /\ buffer' = {}
    /\ call' = [call EXCEPT !.pc = "ack"]
    /\ UNCHANGED <<Env, acked, totals, voted, types, dirty, ghosts>>

\* deleteCacheKeys, then the event is published to subscribers and acknowledged.
Publish ==
    /\ call.pc = "publish"
    /\ dirty' = dirty \ buffer
    /\ buffer' = {}
    /\ call' = [call EXCEPT !.pc = "ack"]
    /\ UNCHANGED <<Env, acked, totals, voted, types, ghosts>>

Acknowledge ==
    /\ call.pc = "ack"
    /\ acked' = acked + 1
    /\ call' = IdleCall
    /\ UNCHANGED <<Env, totals, voted, types, buffer, dirty, ghosts>>

\* An await throws, and the message is delivered again; the buffer keeps its keys.
HandlerThrows ==
    /\ call.pc # "idle" /\ failures < MaxFailures
    /\ failures' = failures + 1
    /\ call' = IdleCall
    /\ UNCHANGED <<chain, acked, indexed, totals, voted, types, buffer, dirty, reader, ghosts>>

\* The process crashes and starts again.
Crash ==
    /\ failures < MaxFailures
    /\ failures' = failures + 1
    /\ call' = IdleCall
    /\ buffer' = {}
    /\ UNCHANGED <<chain, acked, indexed, totals, voted, types, dirty, reader, ghosts>>

--------------------------------------------------------------------------------
(* Readers, in any process.                                                *)

Handler == <<chain, acked, indexed, call, buffer, dirty, failures, counted, redelivered>>

\* A getter misses and reads the contract.
ReadTotals ==
    /\ reader.pc = "idle" /\ totals = NoTotals
    /\ reader' = [IdleFlow EXCEPT !.pc = "storeTotals", !.held = OnChain]
    /\ UNCHANGED <<Handler, totals, voted, types, early, late>>

StoreTotals ==
    /\ reader.pc = "storeTotals"
    /\ StoreFill(reader.held)
    /\ reader' = IdleFlow
    /\ UNCHANGED <<Handler, voted, types>>

ReadVoted(i) ==
    /\ i \in Voters /\ reader.pc = "idle" /\ voted[i] = Missing
    /\ reader' = [IdleFlow EXCEPT !.pc = "storeVoted", !.i = i, !.told = VotedOnChain(i)]
    /\ UNCHANGED <<Handler, totals, voted, types, early, late>>

StoreVoted ==
    /\ reader.pc = "storeVoted"
    /\ voted' = [voted EXCEPT ![reader.i] = reader.told]
    /\ reader' = IdleFlow
    /\ UNCHANGED <<Handler, totals, types, early, late>>

\* userVotedProposalsWithVoteType: the cached list has the vote, or the log index
\* is searched for it and the answer is added to the list.
Ask(i) ==
    /\ i \in Voters /\ reader.pc = "idle" /\ types[i] \in {Missing, Unlisted}
    /\ types' = [types EXCEPT ![i] = Unlisted]
    /\ reader' = [IdleFlow EXCEPT !.pc = "search", !.i = i]
    /\ UNCHANGED <<Handler, totals, voted, early, late>>

\* Fault: the vote is not found in the log.
SearchBlind ==
    /\ reader.pc = "search"
    /\ reader' = [reader EXCEPT !.pc = "storeAnswer", !.told = NotVoted]
    /\ UNCHANGED <<Handler, totals, voted, types, early, late>>

Search ==
    /\ reader.pc = "search"
    /\ reader' = [reader EXCEPT !.pc = "storeAnswer",
                    !.told = IF reader.i <= indexed THEN chain[reader.i] ELSE NotVoted]
    /\ UNCHANGED <<Handler, totals, voted, types, early, late>>

StoreAnswer ==
    /\ reader.pc = "storeAnswer"
    /\ types' = [types EXCEPT ![reader.i] = reader.told]
    /\ reader' = IdleFlow
    /\ UNCHANGED <<Handler, totals, voted, early, late>>

HandlerStep ==
    \/ Deliver \/ GetVoted \/ FillVoted \/ SetVoted \/ GetTypes \/ SetTypes
    \/ GetTotals \/ FillTotals \/ SetTotals \/ Publish \/ Acknowledge

ReaderStep == StoreTotals \/ StoreVoted \/ Search \/ StoreAnswer

Next ==
    \/ \E kind \in Kinds : Emit(kind)
    \/ Index
    \/ HandlerStep \/ HandlerThrows \/ Crash
    \/ ReadTotals \/ ReaderStep
    \/ ExpireTotals
    \/ \E i \in Events : ReadVoted(i) \/ Ask(i) \/ ExpireVoted(i) \/ ExpireTypes(i)

Spec == Init /\ [][Next]_vars

\* Handlers and readers that started continue, the index catches up, entries expire.
FairSpec ==
    /\ Spec
    /\ WF_vars(HandlerStep)
    /\ WF_vars(ReaderStep)
    /\ WF_vars(Index)
    /\ WF_vars(ExpireTotals)
    /\ \A i \in Events : WF_vars(ExpireVoted(i)) /\ WF_vars(ExpireTypes(i))

--------------------------------------------------------------------------------
(* Properties                                                              *)

Cached == {v \in {totals, call.held, reader.held} : v # NoTotals}

\* Type correctness.
TypeOK ==
    /\ chain \in Seq(Kinds) /\ Len(chain) <= MaxEvents
    /\ acked \in 0..Len(chain) /\ indexed \in 0..Len(chain)
    /\ Cached \subseteq [Fields -> [Events -> Nat]]
    /\ voted \in [Events -> {Missing, "yes", "no"}]
    /\ types \in [Events -> {Missing, Unlisted, NotVoted} \cup Kinds]
    /\ buffer \subseteq dirty
    /\ UNION {counted, redelivered, early, late} \subseteq 1..Len(chain)
    /\ failures \in 0..MaxFailures

\* Every time that a field other than the total counts event i, as a pair of its own.
Units(value, i) == UNION {{f} \X (1..value[f][i]) : f \in Kinds}

\* Whoever stored them, a total and its parts agree: every event is in the total as
\* often as in all the other fields.  All variables keep their types.
TotalsAddUp ==
    /\ TypeOK
    /\ \A value \in Cached, i \in Events : value["total"][i] = Cardinality(Units(value, i))

\* The only ways a cached total can be wrong about an event that was handled.  It
\* counts it twice only if the event was delivered again, or if the total was read
\* from a contract that had counted it before the handler did; it misses it only if
\* a reader stored a value it had read before the event.
OnlyKnownDeviations ==
    totals # NoTotals => \A i \in counted :
        /\ totals["total"][i] > 1 => i \in early \cup redelivered
        /\ totals["total"][i] = 0 => i \in late

\* When no message waits for an acknowledgement, every key the handlers stored has
\* been published, through exceptions, crashes and redeliveries.
AckedAreAnnounced == acked = Len(chain) /\ call.pc = "idle" => dirty = {}

\* Once the contract rests, totals and the records of voters are right for good, or
\* missing, although each handler and each answer renews their time to live.
EventuallyExact ==
    <>[](/\ totals \in {NoTotals, OnChain}
         /\ \A i \in Events : voted[i] \in {Missing, VotedOnChain(i)}
         /\ \A i \in 1..Len(chain) : types[i] \in {Missing, Unlisted, chain[i]})
================================================================================
