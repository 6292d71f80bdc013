------------------------------ MODULE WeeklyRewards ------------------------------
(***************************************************************************)
(* The weekly rewards of a user: which weeks are offered, with which       *)
(* energy, and whether the contract is told to be outdated.                *)
(*                                                                         *)
(* The fields of all weeks of an answer are resolved concurrently.  A week *)
(* the contract recorded no energy for takes the claim progress of the     *)
(* user, and writes the depleted energy into the object it was given.  The *)
(* cache gives every caller a copy of its own, except those that wait for  *)
(* the same call: they get one object.                                     *)
(***************************************************************************)
EXTENDS EnergyPenalty

CONSTANTS
    EpochsInWeek,      \* EPOCHS_IN_WEEK
    MaxClaimWeeks,     \* USER_MAX_CLAIM_WEEKS
    FirstEpoch,        \* firstWeekStartEpoch
    Weeks,             \* bound: number of weeks
    Locked,            \* totalLockedTokens of the user
    MaxRelocks,        \* bound: times the user changes the lock
    LastActivity       \* bound: last epoch in which the user is active

ASSUME WeeksAssumption ==
    /\ {EpochsInWeek, Weeks, Locked} \subseteq Nat \ {0}
    /\ {MaxClaimWeeks, FirstEpoch, MaxRelocks, LastActivity} \subseteq Nat

VARIABLES
    epoch,       \* epoch of the chain
    lock,        \* the user's tokens: epoch they unlock, epoch of the last change, changes
    progress,    \* claim progress the contract has
    recorded,    \* recorded[w]: energy the contract recorded for week w
    event,       \* an updateUserEnergy event waits for its handler
    stored,      \* cached currentClaimProgress
    weekNow,     \* cached currentWeek
    active,      \* cached lastActiveWeekForUser
    closed,      \* last week counted among the undistributed rewards
    pending,     \* the call that asked for the claim progress and is not answered
    calls,       \* calls[w]: userEnergyForWeek(w); calls[0]: the check for outdated contracts
    heap,        \* heap[i]: the claim progress call i was given
    alarm        \* what the check found, and should have found

vars == <<epoch, lock, progress, recorded, event, stored, weekNow, active, closed,
          pending, calls, heap, alarm>>

chain == <<epoch, lock, progress, recorded, event>>
cache == <<stored, weekNow, active>>

--------------------------------------------------------------------------------
(* Weeks and energy.                                                       *)

WeekOf(e) == (e - FirstEpoch) \div EpochsInWeek + 1
StartEpoch(w) == FirstEpoch + (w - 1) * EpochsInWeek
EndEpoch(w) == StartEpoch(w) + EpochsInWeek - 1

Longer(a, b) == IF a > b THEN a ELSE b

\* The first week offered to the user, and all of them.
StartWeek == IF active = 0 THEN weekNow ELSE Longer(weekNow - MaxClaimWeeks, active)

\* Fault: one week too many is offered.
WindowTooLong == {w \in 1..Weeks : StartWeek - 1 <= w /\ w <= weekNow - 1}

Window == {w \in 1..Weeks : StartWeek <= w /\ w <= weekNow - 1}

\* A claim progress that was never made, or is not cached.
NoProgress == [week |-> 0, amount |-> 0, last |-> 0]
NotCached == [week |-> -1, amount |-> 0, last |-> 0]

\* Fault: energy is computed backwards too.
DepletedBackwards(p, w) ==
    IF p.week > 0
    THEN [p EXCEPT !.amount = @ - Locked * (EndEpoch(w) - p.last), !.last = EndEpoch(w)] ELSE p

\* Energy at the end of week w; it may become negative.
Depleted(p, w) ==
    IF p.week > 0 /\ EndEpoch(w) > p.last
    THEN [p EXCEPT !.amount = @ - Locked * (EndEpoch(w) - p.last), !.last = EndEpoch(w)] ELSE p

\* isEnergyOutdated: the claim progress as it leaves it, and what it finds.
Aligned(p) == IF lock.since > p.last
              THEN [p EXCEPT !.amount = @ - Locked * (lock.since - p.last)] ELSE p

\* Fault: the user's energy is compared as of the last change of the lock.
UserEnergyAtChange(p) == Locked * (lock.unlock - lock.since)

UserEnergy(p) ==
    LET amount == Locked * (lock.unlock - lock.since) IN
    IF p.last > lock.since THEN amount - Locked * (p.last - lock.since) ELSE amount

Outdated(p) ==
    p.week > 0 /\ (UserEnergy(p) # Aligned(p).amount \/ p.week # weekNow)

\* What the check is about: the claim progress is of an earlier week, or of another lock.
Overtaken(p) ==
    p.week > 0 /\ (p.week # weekNow \/ p.last + p.amount \div Locked # lock.unlock)

Idle == [pc |-> "idle", obj |-> 0, read |-> NoProgress, shared |-> FALSE]

NoAlarm == [found |-> FALSE, truth |-> FALSE]

Init ==
    /\ epoch = FirstEpoch
    /\ \E i \in 1..Len(LockOptions) :
         lock = [unlock |-> epoch + NewLock(epoch, LockOptions[i].epochs), since |-> epoch, changes |-> 0]
    /\ progress = NoProgress
    /\ recorded = [w \in 1..Weeks |-> NoProgress]
    /\ event = FALSE
    /\ stored = NotCached
    /\ weekNow = 1 /\ active = 0 /\ closed = 0
    /\ pending = -1
    /\ calls = [i \in 0..Weeks |-> Idle]
    /\ heap = [i \in 0..Weeks |-> NoProgress]
    /\ alarm = NoAlarm

--------------------------------------------------------------------------------
(* The chain.                                                              *)

\* The week the service has cached is at most one behind.
NextEpoch ==
    /\ epoch < EndEpoch(Weeks)
    /\ WeekOf(epoch + 1) <= weekNow + 1
    /\ epoch' = epoch + 1
    /\ UNCHANGED <<lock, progress, recorded, event, cache, closed, pending, calls, heap, alarm>>

\* The user locks for longer, or pays the penalty for a shorter lock.
Relock(option) ==
    LET new == epoch + NewLock(epoch, option) IN
    /\ lock.changes < MaxRelocks
    /\ new # lock.unlock
    /\ lock' = [unlock |-> new, since |-> epoch, changes |-> lock.changes + 1]
    /\ UNCHANGED <<epoch, progress, recorded, event, cache, closed, pending, calls, heap, alarm>>

\* The user claims, or updates the energy: the contract emits updateUserEnergy.
UpdateEnergy ==
    /\ ~event
    /\ epoch <= LastActivity
    /\ lock.unlock > epoch
    /\ progress' = [week |-> WeekOf(epoch), amount |-> Locked * (lock.unlock - epoch), last |-> epoch]
    /\ progress' # progress
    /\ recorded' = [recorded EXCEPT ![WeekOf(epoch)] = progress']
    /\ event' = TRUE
    /\ UNCHANGED <<epoch, lock, cache, closed, pending, calls, heap, alarm>>

\* The owner collects what the users can no longer claim.
Collect ==
    /\ closed' = Longer(closed, WeekOf(epoch) - MaxClaimWeeks - 1)
    /\ closed' # closed
    /\ UNCHANGED <<chain, cache, pending, calls, heap, alarm>>

--------------------------------------------------------------------------------
(* The service.                                                            *)

\* handleUpdateUserEnergy.
HandleUpdateUserEnergy ==
    /\ event
    /\ stored' = progress
    /\ active' = progress.week
    /\ event' = FALSE
    /\ UNCHANGED <<epoch, lock, progress, recorded, weekNow, closed, pending, calls, heap, alarm>>

\* Cached values expire; the weeks are read again.
Expire ==
    /\ \/ /\ stored # NotCached /\ stored' = NotCached /\ UNCHANGED <<weekNow, active>>
       \/ weekNow # WeekOf(epoch) /\ weekNow' = WeekOf(epoch) /\ UNCHANGED <<stored, active>>
       \/ active # progress.week /\ active' = progress.week /\ UNCHANGED <<stored, weekNow>>
    /\ UNCHANGED <<chain, closed, pending, calls, heap, alarm>>

\* undistributedBoostedRewards adds what remains of the weeks the contract has not collected.
CountUndistributed ==
    /\ closed' = Longer(closed, weekNow - MaxClaimWeeks - 1)
    /\ closed' # closed
    /\ UNCHANGED <<chain, cache, pending, calls, heap, alarm>>

\* The energies of the offered weeks are resolved; those that are cached are not asked for.
Open(missing) ==
    /\ \A i \in 1..Weeks : calls[i].pc = "idle"
    /\ calls' = [i \in 0..Weeks |-> IF i \in missing THEN [Idle EXCEPT !.pc = "contract", !.obj = i]
                                    ELSE calls[i]]
    /\ UNCHANGED <<chain, cache, closed, pending, heap, alarm>>

\* computeUserOutdatedContract.
Check ==
    /\ calls[0].pc = "idle"
    /\ calls' = [calls EXCEPT ![0] = [Idle EXCEPT !.pc = "asks"]]
    /\ UNCHANGED <<chain, cache, closed, pending, heap, alarm>>

\* The contract recorded the energy of the week.
Recorded(w) ==
    /\ calls[w].pc = "contract"
    /\ recorded[w] # NoProgress
    /\ heap' = [heap EXCEPT ![w] = recorded[w]]
    /\ calls' = [calls EXCEPT ![w] = [@ EXCEPT !.pc = "done", !.read = recorded[w]]]
    /\ UNCHANGED <<chain, cache, closed, pending, alarm>>

NotRecorded(w) ==
    /\ calls[w].pc = "contract"
    /\ recorded[w] = NoProgress
    /\ calls' = [calls EXCEPT ![w].pc = "asks"]
    /\ UNCHANGED <<chain, cache, closed, pending, heap, alarm>>

\* Fault: the cache gives every caller the object it keeps.
HitShares(i) ==
    /\ stored # NotCached
    /\ \E o \in {i} \cup {calls[j].obj : j \in {k \in 1..Weeks : calls[k].read = stored}} :
         /\ heap' = IF o = i THEN [heap EXCEPT ![i] = stored] ELSE heap
         /\ calls' = [calls EXCEPT ![i] = [@ EXCEPT !.pc = "resume", !.obj = o, !.read = stored]]
    /\ UNCHANGED pending

\* currentClaimProgress is cached: the caller gets a copy.
Hit(i) ==
    /\ stored # NotCached
    /\ heap' = [heap EXCEPT ![i] = stored]
    /\ calls' = [calls EXCEPT ![i] = [@ EXCEPT !.pc = "resume", !.obj = i, !.read = stored]]
    /\ UNCHANGED pending

\* It is not, and the contract is asked; or another call has asked.
Miss(i) ==
    /\ stored = NotCached
    /\ IF pending = -1
       THEN /\ pending' = i
            /\ calls' = [calls EXCEPT ![i] = [@ EXCEPT !.pc = "progress", !.obj = i]]
       ELSE /\ calls' = [calls EXCEPT ![i] = [@ EXCEPT !.pc = "progress", !.obj = pending, !.shared = TRUE],
                                      ![pending] = [@ EXCEPT !.shared = TRUE]]
            /\ UNCHANGED pending
    /\ UNCHANGED heap

Ask(i) ==
    /\ calls[i].pc = "asks"
    /\ Hit(i) \/ Miss(i)
    /\ UNCHANGED <<chain, cache, closed, alarm>>

\* The claim progress arrives: it is cached, and all who wait are given one object.
Answer ==
    /\ pending # -1
    /\ stored' = progress
    /\ heap' = [heap EXCEPT ![pending] = progress]
    /\ calls' = [i \in 0..Weeks |->
                   IF calls[i].pc = "progress"
                   THEN [calls[i] EXCEPT !.pc = "resume", !.read = progress] ELSE calls[i]]
    /\ pending' = -1
    /\ UNCHANGED <<chain, weekNow, active, closed, alarm>>

\* userEnergyForWeekRaw goes on and writes into the object.
Resume(w) ==
    /\ calls[w].pc = "resume"
    /\ heap' = [heap EXCEPT ![calls[w].obj] = Depleted(@, w)]
    /\ calls' = [calls EXCEPT ![w].pc = "done"]
    /\ UNCHANGED <<chain, cache, closed, pending, alarm>>

\* So does isEnergyOutdated.
ResumeCheck ==
    /\ calls[0].pc = "resume"
    /\ alarm' = [found |-> Outdated(heap[calls[0].obj]), truth |-> Overtaken(calls[0].read)]
    /\ heap' = [heap EXCEPT ![calls[0].obj] = IF @.week > 0 THEN Aligned(@) ELSE @]
    /\ calls' = [calls EXCEPT ![0].pc = "done"]
    /\ UNCHANGED <<chain, cache, closed, pending>>

\* The answer is sent, from the objects as they are then.
Close ==
    /\ \E i \in 0..Weeks : calls[i].pc # "idle"
    /\ \A i \in 0..Weeks : calls[i].pc \in {"idle", "done"}
    /\ calls' = [i \in 0..Weeks |-> Idle]
    /\ heap' = [i \in 0..Weeks |-> NoProgress]
    /\ alarm' = NoAlarm
    /\ UNCHANGED <<chain, cache, closed, pending>>

Next ==
    \/ NextEpoch
    \/ \E i \in 1..Len(LockOptions) : Relock(LockOptions[i].epochs)
    \/ UpdateEnergy
    \/ Collect
    \/ HandleUpdateUserEnergy
    \/ Expire
    \/ CountUndistributed
    \/ \E missing \in SUBSET Window \ {{}} : Open(missing)
    \/ Check
    \/ \E w \in 1..Weeks : Recorded(w) \/ NotRecorded(w) \/ Resume(w)
    \/ \E i \in 0..Weeks : Ask(i)
    \/ Answer
    \/ ResumeCheck
    \/ Close

Spec == Init /\ [][Next]_vars

--------------------------------------------------------------------------------
(* Properties                                                              *)

Progress == [week : -1..Weeks, amount : Int, last : 0..epoch]

TypeOK ==
    /\ epoch \in FirstEpoch..EndEpoch(Weeks)
    /\ WeekOf(epoch) \in 1..Weeks
    /\ \A w \in 1..Weeks : WeekOf(StartEpoch(w)) = w /\ WeekOf(EndEpoch(w)) = w
    /\ progress \in Progress /\ stored \in Progress
    /\ recorded \in [1..Weeks -> Progress]
    /\ weekNow \in {WeekOf(epoch), WeekOf(epoch) - 1} /\ active \in 0..progress.week
    /\ pending # -1 => calls[pending].pc = "progress" /\ calls[pending].obj = pending
    /\ \A i \in 0..Weeks : calls[i].pc = "progress" => calls[i].obj = pending

Result(w) == heap[calls[w].obj].amount

\* The energy of a week from what its call has read: recorded, or depleted to its end.
Expected(w) ==
    IF calls[w].read.week = w THEN calls[w].read.amount ELSE Depleted(calls[w].read, w).amount

\* Whoever the claim progress was shared with, and in whichever order the calls went on: no week
\* is quoted more energy than the claim progress leaves at its end.
EnergyNeverOverstated ==
    TypeOK /\ \A w \in 1..Weeks :
                 calls[w].pc = "done" => Result(w) <= Expected(w)

\* A week is quoted less only when a call that waited with it wrote to the same object: the one
\* of a later week, or the check.
ExactWhenAlone ==
    \A w \in 1..Weeks :
        /\ calls[w].pc = "done"
        /\ Result(w) # Expected(w)
        => /\ calls[w].shared
           /\ \E i \in {0} \cup (w + 1)..Weeks : calls[i].obj = calls[w].obj /\ calls[i].pc = "done"

\* The check finds exactly the claim progress of an earlier week or of another lock, although it
\* compares energies of different epochs and other calls have depleted the object before.
OutdatedIsRight == alarm.found = alarm.truth

\* However the cached weeks were refreshed in between: no week is offered to the user again once
\* it was collected or counted among the undistributed rewards, unless the cached week lags.
OneClaimant ==
    [][\A w \in 1..Weeks :
         /\ calls[w].pc = "idle" /\ calls'[w].pc # "idle" /\ weekNow = WeekOf(epoch)
         => w > closed]_vars

\* A lock that is left alone only becomes cheaper to leave.
PenaltyOnlyFalls ==
    [][lock' = lock =>
         PenaltyPercentage(lock.unlock - epoch', 0)
           <= PenaltyPercentage(lock.unlock - epoch, 0)]_vars
================================================================================
