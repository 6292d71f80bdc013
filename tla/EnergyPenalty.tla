------------------------------ MODULE EnergyPenalty ------------------------------
(***************************************************************************)
(* What unlocking tokens before their time costs, as EnergyComputeService  *)
(* quotes it: a percentage between those of the neighbouring lock options, *)
(* of MaxPenalty, truncated.                                               *)
(***************************************************************************)
EXTENDS Integers, Sequences

CONSTANTS
    LockOptions,      \* lockOptions(), from the shortest to the longest
    MaxPenalty,       \* MAX_PENALTY_PERCENT
    EpochsInMonth     \* EPOCHS_IN_MONTH

ASSUME PenaltyAssumption ==
    /\ MaxPenalty \in Nat \ {0} /\ EpochsInMonth \in Nat \ {0}
    /\ LockOptions \in Seq([epochs : Nat, penalty : Nat])
    /\ Len(LockOptions) > 0
    /\ \A i \in 1..Len(LockOptions) :
         /\ LockOptions[i].epochs >= EpochsInMonth
         /\ LockOptions[i].penalty < MaxPenalty
         /\ \A j \in 1..(i - 1) : /\ LockOptions[j].epochs < LockOptions[i].epochs
                                  /\ LockOptions[j].penalty <= LockOptions[i].penalty

\* Fault: the ends of the segment are weighted the wrong way round.
InterpolationBackwards(minIn, maxIn, in, minOut, maxOut) ==
    ((in - minIn) * minOut + (maxIn - in) * maxOut) \div (maxIn - minIn)

\* linearInterpolation.
Interpolation(minIn, maxIn, in, minOut, maxOut) ==
    ((maxIn - in) * minOut + (in - minIn) * maxOut) \div (maxIn - minIn)

\* The first segment between two options that holds so many epochs.
Segment(left) ==
    CHOOSE i \in 1..(Len(LockOptions) - 1) :
        /\ LockOptions[i].epochs <= left /\ left <= LockOptions[i + 1].epochs
        /\ \A j \in 1..(i - 1) : left > LockOptions[j + 1].epochs

\* computePenaltyPercentageFullUnlock, for no more epochs than the longest option; it throws beyond.
FullUnlock(left) ==
    IF left > LockOptions[1].epochs
    THEN LET from == LockOptions[Segment(left)]
             to   == LockOptions[Segment(left) + 1]
         IN  Interpolation(from.epochs, to.epochs, left, from.penalty, to.penalty)
    ELSE Interpolation(0, LockOptions[1].epochs, left, 0, LockOptions[1].penalty)

\* computePenaltyPercentagePartialUnlock, of the percentages before and after.
Share(before, after) == ((before - after) * MaxPenalty) \div (MaxPenalty - after)

PartialUnlock(left, new) == Share(FullUnlock(left), FullUnlock(new))

\* getPenaltyAmount makes the new lock end at the start of a month.
NewLock(epoch, option) == option - ((epoch + option) % EpochsInMonth)

\* computePenaltyAmount, as a percentage: a new lock of no epochs is a full unlock.
PenaltyPercentage(left, new) ==
    IF left <= 0 THEN 0
    ELSE IF new = 0 THEN FullUnlock(left) ELSE PartialUnlock(left, new)
================================================================================
