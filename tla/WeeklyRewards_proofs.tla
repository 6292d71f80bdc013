-------------------------- MODULE WeeklyRewards_proofs --------------------------
(***************************************************************************)
(* The weekly rewards: what a week is quoted, whatever calls shared the    *)
(* claim progress, what the check for outdated contracts finds, which      *)
(* weeks are offered, and that waiting only makes it cheaper to leave a    *)
(* lock.                                                                   *)
(***************************************************************************)
EXTENDS WeeklyRewards, TLAPS, WellFoundedInduction

--------------------------------------------------------------------------------
(* Penalties.                                                              *)

\* Rounding down keeps the order.
LEMMA QuotientMonotone ==
    ASSUME NEW a \in Nat, NEW b \in Nat, a <= b, NEW d \in Nat \ {0}
    PROVE  a \div d <= b \div d
  <1> DEFINE p == a \div d
             q == b \div d
  <1>1. p \in Nat /\ q \in Nat
    OBVIOUS
  <1>2. d * p <= a /\ b < d * q + d
    OBVIOUS
  <1> HIDE DEF p, q
  <1>3. d * p < d * (q + 1)
    BY <1>1, <1>2
  <1>4. p < q + 1
    BY <1>1, <1>3
  <1>5. p <= q
    BY <1>1, <1>4
  <1> QED
    BY <1>5 DEF p, q

\* linearInterpolation between two ends in order is in order, and stays between the ends.
THEOREM InterpolationMonotone ==
    ASSUME NEW minIn \in Nat, NEW maxIn \in Nat, minIn < maxIn,
           NEW minOut \in Nat, NEW maxOut \in Nat, minOut <= maxOut,
           NEW x \in minIn..maxIn, NEW y \in minIn..maxIn, x <= y
    PROVE  Interpolation(minIn, maxIn, x, minOut, maxOut)
             <= Interpolation(minIn, maxIn, y, minOut, maxOut)
  <1> DEFINE d == maxIn - minIn
             r == maxOut - minOut
             n(z) == (maxIn - z) * minOut + (z - minIn) * maxOut
             m(z) == d * minOut + (z - minIn) * r
  <1>1. d \in Nat \ {0} /\ r \in Nat /\ x - minIn \in Nat /\ y - minIn \in Nat
    OBVIOUS
  <1>2. n(x) = m(x) /\ n(y) = m(y)
    OBVIOUS
  <1>3. (x - minIn) * r <= (y - minIn) * r
    <2> DEFINE s == x - minIn
               t == y - minIn
    <2>1. s \in Nat /\ t \in Nat /\ s <= t
      OBVIOUS
    <2> HIDE DEF s, t, r
    <2>2. s * r <= t * r
      BY <1>1, <2>1
    <2> QED
      BY <2>2 DEF s, t
  <1>4. m(x) \in Nat /\ m(y) \in Nat /\ m(x) <= m(y)
    <2> DEFINE s == (x - minIn) * r
               t == (y - minIn) * r
               u == d * minOut
    <2>1. s \in Nat /\ t \in Nat
      BY <1>1
    <2>2. u \in Nat
      BY <1>1
    <2>3. s <= t
      BY <1>3
    <2> HIDE DEF s, t, u
    <2>4. u + s \in Nat /\ u + t \in Nat /\ u + s <= u + t
      BY <2>1, <2>2, <2>3
    <2> QED
      BY <2>4 DEF s, t, u
  <1>5. /\ Interpolation(minIn, maxIn, x, minOut, maxOut) = m(x) \div d
        /\ Interpolation(minIn, maxIn, y, minOut, maxOut) = m(y) \div d
    BY <1>2 DEF Interpolation
  <1> HIDE DEF d, m
  <1> QED
    BY <1>1, <1>4, <1>5, QuotientMonotone

\* A partial unlock and a full one after it leave as much as the full unlock at once, and
\* less than one unit of the percentage more: truncation is never on the user's side by more,
\* and never against the user.
THEOREM DetourCostsTheSame ==
    ASSUME NEW before \in 0..MaxPenalty, NEW after \in 0..before, after < MaxPenalty
    PROVE  LET left == (MaxPenalty - Share(before, after)) * (MaxPenalty - after)
               once == MaxPenalty * (MaxPenalty - before)
           IN  once <= left /\ left < once + (MaxPenalty - after)
  <1> DEFINE M == MaxPenalty
             k == M - after
             a == (before - after) * M
             s == a \div k
  <1>1. M \in Nat \ {0} /\ before \in Nat /\ after \in Nat /\ before <= M /\ k \in Nat \ {0}
    BY PenaltyAssumption
  <1>2. a \in Nat
    BY <1>1
  <1>3. Share(before, after) = s
    BY DEF Share
  <1>4. s \in Nat /\ k * s <= a /\ a < k * s + k
    <2> HIDE DEF a, k
    <2> QED
      BY <1>1, <1>2
  <1>5. (M - s) * k = M * k - k * s
    <2> HIDE DEF s, k, M
    <2> QED
      BY <1>1, <1>4
  <1>6. M * k - a = M * (M - before)
    <2> HIDE DEF M
    <2> QED
      BY <1>1
  <1>7. M * k \in Nat /\ k * s \in Nat
    <2> HIDE DEF M, k, s
    <2> QED
      BY <1>1, <1>4
  <1>8. M * k - a <= M * k - k * s /\ M * k - k * s < M * k - a + k
    <2> DEFINE u == M * k
               v == k * s
    <2> HIDE DEF u, v, a, k, M, s
    <2>1. u \in Nat /\ v \in Nat /\ v <= a /\ a < v + k
      BY <1>4, <1>7 DEF u, v
    <2>2. u - a <= u - v /\ u - v < u - a + k
      BY <1>1, <1>2, <2>1
    <2> QED
      BY <2>2 DEF u, v
  <1>9. /\ M * (M - before) <= (M - s) * k
        /\ (M - s) * k < M * (M - before) + k
    <2> HIDE DEF a, k, M, s
    <2> QED
      BY <1>5, <1>6, <1>8
  <1> QED
    BY <1>3, <1>9

--------------------------------------------------------------------------------
(* Weeks.                                                                  *)

\* A quotient is the only number with a remainder below the divisor.
LEMMA QuotientIs ==
    ASSUME NEW a \in Nat, NEW d \in Nat \ {0}, NEW q \in Nat, d * q <= a, a < d * q + d
    PROVE  a \div d = q
  <1> DEFINE p == a \div d
  <1>1. p \in Nat /\ d * p <= a /\ a < d * p + d
    OBVIOUS
  <1> HIDE DEF p
  <1>2. d * p < d * (q + 1) /\ d * q < d * (p + 1)
    BY <1>1
  <1>3. p < q + 1 /\ q < p + 1
    BY <1>1, <1>2
  <1>4. p = q
    BY <1>1, <1>3
  <1> QED
    BY <1>4 DEF p

\* The constants as numbers.
LEMMA Constants ==
    /\ EpochsInWeek \in Nat \ {0} /\ Weeks \in Nat \ {0} /\ Locked \in Nat \ {0}
    /\ MaxClaimWeeks \in Nat /\ FirstEpoch \in Nat
  BY WeeksAssumption

\* An epoch lies in its week.
LEMMA WeekHolds ==
    ASSUME NEW e \in Nat, FirstEpoch <= e
    PROVE  WeekOf(e) \in Nat \ {0} /\ StartEpoch(WeekOf(e)) <= e /\ e <= EndEpoch(WeekOf(e))
  <1> DEFINE a == e - FirstEpoch
             q == a \div EpochsInWeek
  <1>1. a \in Nat
    BY Constants
  <1>2. q \in Nat /\ EpochsInWeek * q <= a /\ a < EpochsInWeek * q + EpochsInWeek
    <2> HIDE DEF a
    <2> QED
      BY <1>1, Constants
  <1>3. WeekOf(e) = q + 1
    BY DEF WeekOf
  <1> HIDE DEF q
  <1>4. /\ StartEpoch(q + 1) = FirstEpoch + EpochsInWeek * q
        /\ EndEpoch(q + 1) = FirstEpoch + EpochsInWeek * q + EpochsInWeek - 1
    BY <1>2, Constants DEF StartEpoch, EndEpoch
  <1> DEFINE s == EpochsInWeek * q
  <1>5. s \in Nat
    BY <1>2, Constants
  <1>6. s <= a /\ a < s + EpochsInWeek
    BY <1>2
  <1>7. StartEpoch(q + 1) = FirstEpoch + s /\ EndEpoch(q + 1) = FirstEpoch + s + EpochsInWeek - 1
    BY <1>4
  <1> HIDE DEF s
  <1> QED
    BY <1>2, <1>3, <1>5, <1>6, <1>7, Constants

\* Weeks have a first and a last epoch, in order.
LEMMA WeekEnds ==
    ASSUME NEW v \in Nat \ {0}, NEW w \in Nat \ {0}, v <= w
    PROVE  /\ StartEpoch(v) \in Nat /\ EndEpoch(v) \in Nat /\ EndEpoch(w) \in Nat
           /\ StartEpoch(v) <= EndEpoch(v) /\ EndEpoch(v) <= EndEpoch(w)
           /\ v < w => EndEpoch(v) < StartEpoch(w)
  <1> DEFINE s == (v - 1) * EpochsInWeek
             t == (w - 1) * EpochsInWeek
  <1>1. s \in Nat /\ t \in Nat
    BY Constants
  <1>2. v < w => s + EpochsInWeek <= t
    <2> SUFFICES ASSUME v < w PROVE s + EpochsInWeek <= t
      OBVIOUS
    <2>1. PICK k \in Nat : w - 1 = v + k
      <3>1. w - 1 - v \in Nat /\ w - 1 = v + (w - 1 - v)
        OBVIOUS
      <3> QED
        BY <3>1
    <2>2. t = s + EpochsInWeek + k * EpochsInWeek
      BY <2>1, Constants
    <2>3. k * EpochsInWeek \in Nat
      BY <2>1, Constants
    <2> HIDE DEF s, t
    <2> QED
      BY <1>1, <2>2, <2>3, Constants
  <1>3. v = w => s = t
    OBVIOUS
  <1>4. /\ StartEpoch(v) = FirstEpoch + s /\ StartEpoch(w) = FirstEpoch + t
        /\ EndEpoch(v) = FirstEpoch + s + EpochsInWeek - 1
        /\ EndEpoch(w) = FirstEpoch + t + EpochsInWeek - 1
    BY DEF StartEpoch, EndEpoch
  <1> HIDE DEF s, t
  <1> QED
    BY <1>1, <1>2, <1>3, <1>4, Constants

\* An epoch lies in one week.
LEMMA WeekIs ==
    ASSUME NEW e \in Nat, NEW w \in Nat \ {0}, StartEpoch(w) <= e, e <= EndEpoch(w)
    PROVE  WeekOf(e) = w
  <1>1. StartEpoch(w) \in Nat /\ EndEpoch(w) \in Nat /\ StartEpoch(w) >= FirstEpoch
    <2> DEFINE t == (w - 1) * EpochsInWeek
    <2>1. t \in Nat
      BY Constants
    <2>2. StartEpoch(w) = FirstEpoch + t
      BY DEF StartEpoch
    <2> HIDE DEF t
    <2> QED
      BY <2>1, <2>2, WeekEnds, Constants
  <1>2. FirstEpoch <= e
    BY <1>1, Constants
  <1> DEFINE v == WeekOf(e)
  <1>3. v \in Nat \ {0} /\ StartEpoch(v) <= e /\ e <= EndEpoch(v)
    BY <1>2, WeekHolds
  <1> HIDE DEF v
  <1>4. CASE v < w
    <2>1. EndEpoch(v) < StartEpoch(w) /\ EndEpoch(v) \in Nat
      BY <1>3, <1>4, WeekEnds
    <2> QED
      BY <1>1, <1>3, <2>1
  <1>5. CASE w < v
    <2>1. EndEpoch(w) < StartEpoch(v) /\ StartEpoch(v) \in Nat
      BY <1>3, <1>5, WeekEnds
    <2> QED
      BY <1>1, <1>3, <2>1
  <1>6. CASE v = w
    BY <1>6 DEF v
  <1> QED
    BY <1>3, <1>4, <1>5, <1>6

\* Weeks do not run back, nor skip.
LEMMA WeekSteps ==
    ASSUME NEW e \in Nat, FirstEpoch <= e, NEW f \in Nat, e <= f
    PROVE  /\ WeekOf(e) <= WeekOf(f)
           /\ f = e + 1 => WeekOf(f) <= WeekOf(e) + 1
  <1> DEFINE v == WeekOf(e)
             w == WeekOf(f)
  <1>1. v \in Nat \ {0} /\ StartEpoch(v) <= e /\ e <= EndEpoch(v)
    BY WeekHolds
  <1>2. w \in Nat \ {0} /\ StartEpoch(w) <= f /\ f <= EndEpoch(w)
    BY WeekHolds, Constants
  <1> HIDE DEF v, w
  <1>3. w < v => FALSE
    <2> SUFFICES ASSUME w < v PROVE FALSE
      OBVIOUS
    <2>1. EndEpoch(w) < StartEpoch(v) /\ EndEpoch(w) \in Nat /\ StartEpoch(v) \in Nat
      BY <1>1, <1>2, WeekEnds
    <2> QED
      BY <1>1, <1>2, <2>1
  <1>4. f = e + 1 /\ v + 1 < w => FALSE
    <2> SUFFICES ASSUME f = e + 1, v + 1 < w PROVE FALSE
      OBVIOUS
    <2>1. v + 1 \in Nat \ {0}
      BY <1>1
    <2>2. EndEpoch(v) < StartEpoch(v + 1) /\ StartEpoch(v + 1) <= EndEpoch(v + 1)
      BY <1>1, <2>1, WeekEnds
    <2>3. EndEpoch(v + 1) < StartEpoch(w)
      BY <1>2, <2>1, WeekEnds
    <2>4. EndEpoch(v) \in Nat /\ EndEpoch(v + 1) \in Nat /\ StartEpoch(v + 1) \in Nat /\ StartEpoch(w) \in Nat
      BY <1>1, <1>2, <2>1, WeekEnds
    <2> QED
      BY <1>1, <1>2, <2>2, <2>3, <2>4
  <1> QED
    BY <1>1, <1>2, <1>3, <1>4 DEF v, w

\* An epoch before the end of a week is in it, or in an earlier one.
LEMMA WeekBefore ==
    ASSUME NEW e \in Nat, FirstEpoch <= e, NEW w \in Nat \ {0}, e <= EndEpoch(w)
    PROVE  WeekOf(e) <= w
  <1>1. StartEpoch(w) \in Nat /\ EndEpoch(w) \in Nat /\ StartEpoch(w) <= EndEpoch(w)
    BY WeekEnds
  <1>2. WeekOf(EndEpoch(w)) = w
    BY <1>1, WeekIs
  <1> QED
    BY <1>1, <1>2, WeekSteps

--------------------------------------------------------------------------------
(* The inductive invariant.                                                *)

CallPCs == {"idle", "contract", "asks", "progress", "resume", "done"}

\* The call was given an object, and may go on or has.
Given == {"resume", "done"}

Claims == [week : Int, amount : Int, last : Int]
Calls == [pc : CallPCs, obj : 0..Weeks, read : Claims, shared : BOOLEAN]
Locks == [unlock : Nat, since : Nat, changes : Nat]

Week == WeekOf(epoch)

\* The energy of a claim progress counted from epoch 0: what depletion leaves alone.
Energy(p) == p.amount + Locked * p.last

LongestLock == LockOptions[Len(LockOptions)].epochs

\* What the contract may have as a claim progress: none, or one whose week it has recorded.
Known == {p \in [week : 0..Weeks, amount : Int, last : 0..epoch] :
            p.week > 0 => /\ p.week <= Week
                          /\ recorded[p.week] # NoProgress
                          /\ \E k \in Int : p.amount = Locked * k}

ChainInv ==
    /\ epoch \in FirstEpoch..EndEpoch(Weeks)
    /\ progress \in Known
    /\ recorded \in [1..Weeks -> Known]
    /\ \A w \in 1..Weeks : recorded[w] # NoProgress => recorded[w].week = w

LockInv ==
    /\ lock \in Locks
    /\ lock.since <= epoch
    /\ lock.unlock <= lock.since + LongestLock

CacheInv ==
    /\ stored \in Known \cup {NotCached}
    /\ weekNow \in {Week, Week - 1}
    /\ active \in 0..progress.week
    /\ closed \in Nat
    /\ closed = 0 \/ closed <= Week - MaxClaimWeeks - 1

CallsInv ==
    /\ calls \in [0..Weeks -> Calls]
    /\ heap \in [0..Weeks -> Claims]
    /\ pending \in -1..Weeks
    /\ pending # -1 => calls[pending].pc = "progress"

\* A call that has not been given its object.
WaitInv ==
    \A i \in 0..Weeks :
        /\ calls[i].pc = "progress" => calls[i].obj = pending
        /\ calls[i].pc = "contract" => i >= 1 /\ calls[i].obj = i /\ ~calls[i].shared
        /\ i >= 1 /\ calls[i].pc # "idle" => i < Week
        /\ i >= 1 /\ calls[i].pc \in {"asks", "progress", "resume"} => recorded[i] = NoProgress

HasObject(i) == calls[i].pc \in Given \cup {"progress"}

\* Calls with one object are marked as sharing it.
SharedInv ==
    \A i, j \in 0..Weeks :
        i # j /\ HasObject(i) /\ HasObject(j) /\ calls[i].obj = calls[j].obj
        => calls[i].shared /\ calls[j].shared

\* Call i was given object o, which is h now, and had read r.
At(i, o, h, r) ==
    calls[i].pc \in Given /\ calls[i].obj = o /\ heap[o] = h /\ calls[i].read = r

DoneWith(j, o) == calls[j].pc = "done" /\ calls[j].obj = o

\* What the writes of week calls and of the check can make of r.
Below(h, r) ==
    /\ h.week = r.week /\ h.last >= r.last
    /\ r.week = 0 => h = r
    /\ Energy(h) <= Energy(r)

LastWrite(o, h, r) ==
    h.last = r.last \/ \E j \in 1..Weeks : DoneWith(j, o) /\ h.last = EndEpoch(j)

\* The calls of one object read the same, and only the check has taken energy off it.
GivenInv ==
    \A i, o \in 0..Weeks : \A h, r \in Claims :
        At(i, o, h, r) =>
            /\ calls[o].pc \in Given /\ calls[o].obj = o
            /\ r \in Known
            /\ Below(h, r)
            /\ DoneWith(0, o) \/ Energy(h) = Energy(r)
            /\ LastWrite(o, h, r)

\* A week that is done: recorded energy is its own, other energy was depleted to its end.
DoneInv ==
    \A i \in 1..Weeks : \A o \in 0..Weeks : \A h, r \in Claims :
        At(i, o, h, r) /\ calls[i].pc = "done" =>
            /\ r.week = i => o = i /\ ~calls[i].shared /\ h = r
            /\ r.week # i /\ r.week > 0 => h.last >= EndEpoch(i)

AlarmInv == alarm \in [found : BOOLEAN, truth : BOOLEAN] /\ alarm.found = alarm.truth

IInv ==
    ChainInv /\ LockInv /\ CacheInv /\ CallsInv /\ WaitInv /\ SharedInv /\ GivenInv /\ DoneInv

--------------------------------------------------------------------------------
(* Depletion.                                                              *)

\* Depletion to the end of a week keeps the energy counted from epoch 0.
LEMMA DepletedFacts ==
    ASSUME NEW p \in Claims, NEW w \in 1..Weeks, NEW q, q = Depleted(p, w)
    PROVE  /\ q \in Claims /\ q.week = p.week /\ q.last >= p.last
           /\ Energy(q) = Energy(p)
           /\ p.week <= 0 => q = p
           /\ p.week > 0 => q.last >= EndEpoch(w)
           /\ q.last = p.last \/ q.last = EndEpoch(w)
  <1>1. EndEpoch(w) \in Nat
    BY WeekEnds
  <1>2. p.week \in Int /\ p.amount \in Int /\ p.last \in Int
    BY DEF Claims
  <1>3. CASE p.week > 0 /\ EndEpoch(w) > p.last
    <2> DEFINE d == Locked * (EndEpoch(w) - p.last)
    <2>1. d \in Int /\ Locked * EndEpoch(w) = Locked * p.last + d /\ Locked * p.last \in Int
      BY <1>1, <1>2, Constants
    <2>2. q = [p EXCEPT !.amount = @ - d, !.last = EndEpoch(w)]
      BY <1>3 DEF Depleted
    <2> HIDE DEF d
    <2> DEFINE e == EndEpoch(w)
    <2>a. e \in Int /\ d \in Int
      BY <1>1, <2>1
    <2>b. q = [p EXCEPT !.amount = @ - d, !.last = e]
      BY <2>2
    <2> HIDE DEF e
    <2> DEFINE a == p.amount - d
    <2>d. a \in Int
      BY <1>2, <2>a
    <2>e. q = [p EXCEPT !.amount = a, !.last = e]
      BY <2>b
    <2> HIDE DEF a
    <2>f. q \in Claims /\ q.week = p.week /\ q.amount = a /\ q.last = e
      BY <2>a, <2>d, <2>e DEF Claims
    <2>c. q \in Claims /\ q.week = p.week /\ q.amount = p.amount - d /\ q.last = e
      BY <2>f DEF a
    <2>3. q \in Claims /\ q.week = p.week /\ q.amount = p.amount - d /\ q.last = EndEpoch(w)
      BY <2>c DEF e
    <2>4. q.amount + Locked * q.last = p.amount + Locked * p.last
      <3> DEFINE x == Locked * p.last
                 y == Locked * EndEpoch(w)
      <3>1. x \in Int /\ y = x + d
        BY <2>1
      <3> HIDE DEF x, y
      <3>2. p.amount - d + y = p.amount + x
        BY <1>2, <2>1, <3>1
      <3> QED
        BY <2>3, <3>2 DEF x, y
    <2> QED
      BY <1>1, <1>2, <1>3, <2>3, <2>4 DEF Energy
  <1>4. CASE ~(p.week > 0 /\ EndEpoch(w) > p.last)
    <2>1. q = p
      BY <1>4 DEF Depleted
    <2> QED
      BY <1>1, <1>2, <1>4, <2>1
  <1> QED
    BY <1>3, <1>4

\* The check takes energy off the claim progress, and changes nothing else of it.
LEMMA AlignedFacts ==
    ASSUME NEW p \in Claims, NEW q, q = Aligned(p), lock \in Locks
    PROVE  q \in Claims /\ q.week = p.week /\ q.last = p.last /\ Energy(q) <= Energy(p)
  <1> DEFINE s == lock.since
  <1>1. s \in Nat
    BY DEF Locks
  <1>2. p.week \in Int /\ p.amount \in Int /\ p.last \in Int
    BY DEF Claims
  <1>3. CASE s > p.last
    <2> DEFINE d == Locked * (s - p.last)
    <2>1. q = [p EXCEPT !.amount = @ - d]
      BY <1>3 DEF Aligned
    <2>2. d \in Nat /\ Locked * p.last \in Int
      <3>1. s - p.last \in Nat
        BY <1>1, <1>2, <1>3
      <3> HIDE DEF s
      <3> QED
        BY <1>2, <3>1, Constants
    <2> HIDE DEF d, s
    <2>3. q \in Claims /\ q.week = p.week /\ q.amount = p.amount - d /\ q.last = p.last
      BY <1>2, <2>1, <2>2 DEF Claims
    <2>4. Energy(q) = p.amount - d + Locked * p.last /\ Energy(p) = p.amount + Locked * p.last
      BY <2>3 DEF Energy
    <2>5. p.amount - d + Locked * p.last <= p.amount + Locked * p.last
      <3> DEFINE x == Locked * p.last
      <3> HIDE DEF x
      <3>1. x \in Int
        BY <2>2 DEF x
      <3>2. p.amount - d + x <= p.amount + x
        BY <1>2, <2>2, <3>1
      <3> QED
        BY <3>2 DEF x
    <2> QED
      BY <2>3, <2>4, <2>5
  <1>4. CASE ~(s > p.last)
    <2>1. q = p
      BY <1>4 DEF Aligned
    <2>2. Energy(p) \in Int
      BY <1>2, Constants DEF Energy
    <2> QED
      BY <2>1, <2>2
  <1> QED
    BY <1>3, <1>4

--------------------------------------------------------------------------------
(* The chain and the cached weeks.                                         *)

\* The epoch lies in one of the weeks.
LEMMA Epochs ==
    ASSUME ChainInv
    PROVE  epoch \in Nat /\ FirstEpoch <= epoch /\ Week \in 1..Weeks
  <1>1. EndEpoch(Weeks) \in Nat
    BY WeekEnds, Constants
  <1>2. epoch \in Nat /\ FirstEpoch <= epoch /\ epoch <= EndEpoch(Weeks)
    BY <1>1, Constants DEF ChainInv
  <1>3. Week \in Nat \ {0} /\ Week <= Weeks
    BY <1>2, WeekHolds, WeekBefore, Constants DEF Week
  <1> QED
    BY <1>2, <1>3, Constants

\* A claim progress of the contract is a record of integers.
LEMMA KnownIsClaim ==
    ASSUME NEW p \in Known, epoch \in Nat
    PROVE  /\ p \in Claims /\ p.week \in 0..Weeks /\ p.last \in 0..epoch /\ p.last \in Nat
           /\ p.week > 0 => p.week <= Week /\ recorded[p.week] # NoProgress
  BY DEF Known, Claims

\* No claim progress is one the contract may have.
LEMMA NoneIsKnown ==
    ASSUME epoch \in Nat
    PROVE  NoProgress \in Known /\ NoProgress \in Claims
  BY Constants DEF Known, Claims, NoProgress

\* What the contract may have had it may still have, as long as no record is removed.
LEMMA KnownGrows ==
    ASSUME epoch \in Nat, epoch' \in Nat, epoch <= epoch',
           Week \in Nat, Week' \in Nat, Week <= Week',
           \A w \in 1..Weeks : recorded[w] # NoProgress => recorded'[w] # NoProgress
    PROVE  Known \subseteq Known'
  <1> SUFFICES ASSUME NEW p \in Known PROVE p \in Known'
    OBVIOUS
  <1>1. p \in [week : 0..Weeks, amount : Int, last : 0..epoch]
    BY DEF Known
  <1>2. p \in [week : 0..Weeks, amount : Int, last : 0..epoch']
    BY <1>1
  <1>3. p.week \in 0..Weeks
    BY <1>1
  <1>4. ASSUME p.week > 0
        PROVE  p.week <= Week' /\ recorded'[p.week] # NoProgress /\ \E k \in Int : p.amount = Locked * k
    <2>1. p.week <= Week /\ recorded[p.week] # NoProgress /\ \E k \in Int : p.amount = Locked * k
      BY <1>4 DEF Known
    <2>2. p.week \in 1..Weeks
      BY <1>3, <1>4, Constants
    <2> QED
      BY <1>3, <2>1, <2>2
  <1> QED
    BY <1>2, <1>4 DEF Known

\* The lock options are pairs of numbers.
LEMMA Options ==
    /\ Len(LockOptions) \in Nat \ {0}
    /\ \A j \in 1..Len(LockOptions) : LockOptions[j].epochs \in Nat /\ LockOptions[j].penalty \in Nat
  <1>1. Len(LockOptions) \in Nat
    BY PenaltyAssumption
  <1> DEFINE S == [epochs : Nat, penalty : Nat]
  <1>2. \A j \in 1..Len(LockOptions) : LockOptions[j] \in S
    <2>1. LockOptions \in Seq(S)
      BY PenaltyAssumption
    <2> HIDE DEF S
    <2> QED
      BY <2>1
  <1>3. Len(LockOptions) # 0
    BY <1>1, PenaltyAssumption
  <1> QED
    BY <1>1, <1>2, <1>3

\* A new lock ends before the longest option would.
LEMMA NewLockFits ==
    ASSUME NEW e \in Nat, NEW i \in 1..Len(LockOptions)
    PROVE  NewLock(e, LockOptions[i].epochs) \in 1..LongestLock /\ LongestLock \in Nat
  <1> DEFINE o == LockOptions[i].epochs
             n == Len(LockOptions)
  <1>1. n \in Nat /\ n >= 1 /\ i \in 1..n /\ n \in 1..n
    BY Options
  <1>2. o \in Nat /\ EpochsInMonth \in Nat \ {0} /\ o >= EpochsInMonth
    BY Options, PenaltyAssumption
  <1>3. LongestLock \in Nat /\ o <= LongestLock
    <2>1. LockOptions[n].epochs \in Nat
      BY <1>1, Options
    <2>2. i < n => LockOptions[i].epochs < LockOptions[n].epochs
      <3> HIDE DEF n
      <3>1. SUFFICES ASSUME i < n PROVE LockOptions[i].epochs < LockOptions[n].epochs
        OBVIOUS
      <3>2. n \in 1..Len(LockOptions) /\ i \in 1..(n - 1)
        BY <1>1, <3>1 DEF n
      <3> QED
        BY <3>2, PenaltyAssumption
    <2>3. i = n => LockOptions[i].epochs = LockOptions[n].epochs
      OBVIOUS
    <2> HIDE DEF n
    <2> QED
      BY <1>1, <1>2, <2>1, <2>2, <2>3 DEF LongestLock, n
  <1> DEFINE r == (e + o) % EpochsInMonth
  <1> HIDE DEF o
  <1>4. r \in Nat /\ r < EpochsInMonth
    BY <1>2
  <1>5. NewLock(e, o) = o - r
    BY DEF NewLock
  <1> HIDE DEF r
  <1>6. o - r \in 1..LongestLock
    BY <1>2, <1>3, <1>4
  <1> QED
    BY <1>3, <1>5, <1>6 DEF o

\* What the other parts of the invariant need of a step of the chain and of the cached weeks.
Grows ==
    /\ Known \subseteq Known'
    /\ Week <= Week'
    /\ \A i \in 1..Weeks : i < Week => recorded'[i] = recorded[i]

\* Steps that leave the chain alone.
LEMMA ChainUnchanged ==
    ASSUME ChainInv, UNCHANGED chain
    PROVE  ChainInv' /\ Grows /\ Known' = Known /\ Week' = Week
  <1>1. epoch' = epoch /\ lock' = lock /\ progress' = progress /\ recorded' = recorded
    BY DEF chain
  <1>2. Week' = Week
    BY <1>1 DEF Week
  <1>3. Known' = Known
    BY <1>1, <1>2 DEF Known
  <1>4. ChainInv'
    BY <1>1, <1>3 DEF ChainInv
  <1>5. Grows
    BY <1>1, <1>2, <1>3, <1>4, Epochs DEF Grows
  <1> QED
    BY <1>2, <1>3, <1>4, <1>5

\* The epoch moves on.
LEMMA NextEpochKeeps ==
    ASSUME ChainInv, LockInv, CacheInv, NextEpoch
    PROVE  ChainInv' /\ LockInv' /\ CacheInv' /\ Grows
  <1>1. epoch \in Nat /\ FirstEpoch <= epoch /\ Week \in 1..Weeks
    BY Epochs
  <1>2. /\ epoch < EndEpoch(Weeks) /\ WeekOf(epoch + 1) <= weekNow + 1 /\ epoch' = epoch + 1
        /\ lock' = lock /\ progress' = progress /\ recorded' = recorded
        /\ stored' = stored /\ weekNow' = weekNow /\ active' = active /\ closed' = closed
    BY DEF NextEpoch, cache
  <1>3. EndEpoch(Weeks) \in Nat
    BY WeekEnds, Constants
  <1>4. epoch' \in FirstEpoch..EndEpoch(Weeks) /\ epoch' \in Nat /\ FirstEpoch <= epoch' /\ epoch <= epoch'
    BY <1>1, <1>2, <1>3, Constants
  <1>5. Week' = WeekOf(epoch + 1)
    BY <1>2 DEF Week
  <1>6. Week' \in 1..Weeks /\ Week <= Week' /\ Week' <= Week + 1
    <2>1. WeekOf(epoch + 1) \in Nat \ {0} /\ WeekOf(epoch + 1) <= Weeks
      BY <1>2, <1>4, WeekHolds, WeekBefore, Constants
    <2>2. WeekOf(epoch) <= WeekOf(epoch + 1) /\ WeekOf(epoch + 1) <= WeekOf(epoch) + 1
      BY <1>1, <1>2, <1>4, WeekSteps
    <2> QED
      BY <1>5, <2>1, <2>2, Constants DEF Week
  <1>7. Known \subseteq Known'
    <2>1. Week \in Nat /\ Week' \in Nat
      BY <1>1, <1>6
    <2> QED
      BY <1>1, <1>2, <1>4, <1>6, <2>1, KnownGrows
  <1>8. ChainInv'
    BY <1>2, <1>4, <1>7 DEF ChainInv
  <1>9. LockInv'
    BY <1>1, <1>2 DEF LockInv, Locks
  <1>10. CacheInv'
    <2>1. weekNow \in {Week, Week - 1} /\ Week' <= weekNow + 1
      BY <1>2, <1>5 DEF CacheInv
    <2>2. weekNow' \in {Week', Week' - 1}
      <3>1. \A v, w, n \in Int : n \in {v, v - 1} /\ w <= n + 1 /\ v <= w /\ w <= v + 1 => n \in {w, w - 1}
        OBVIOUS
      <3>2. Week \in Int /\ Week' \in Int /\ weekNow \in Int
        BY <1>1, <1>6, <2>1
      <3> QED
        BY <1>2, <1>6, <2>1, <3>1, <3>2
    <2>3. closed \in Nat /\ (closed = 0 \/ closed <= Week - MaxClaimWeeks - 1)
      BY DEF CacheInv
    <2>4. closed = 0 \/ closed <= Week' - MaxClaimWeeks - 1
      <3>1. \A v, w, m, c \in Int : v <= w /\ c <= v - m - 1 => c <= w - m - 1
        OBVIOUS
      <3>2. Week \in Int /\ Week' \in Int /\ MaxClaimWeeks \in Int /\ closed \in Int
        BY <1>1, <1>6, <2>3, Constants
      <3> QED
        BY <1>6, <2>3, <3>1, <3>2
    <2> QED
      BY <1>2, <1>7, <2>2, <2>3, <2>4 DEF CacheInv
  <1>11. Grows
    BY <1>2, <1>6, <1>7 DEF Grows
  <1> QED
    BY <1>8, <1>9, <1>10, <1>11

\* The user changes the lock.
LEMMA RelockKeeps ==
    ASSUME ChainInv, LockInv, CacheInv, NEW i \in 1..Len(LockOptions), Relock(LockOptions[i].epochs)
    PROVE  ChainInv' /\ LockInv' /\ CacheInv' /\ Grows
  <1> DEFINE n == NewLock(epoch, LockOptions[i].epochs)
  <1>1. /\ lock' = [unlock |-> epoch + n, since |-> epoch, changes |-> lock.changes + 1]
        /\ epoch' = epoch /\ progress' = progress /\ recorded' = recorded
        /\ stored' = stored /\ weekNow' = weekNow /\ active' = active /\ closed' = closed
    BY DEF Relock, cache
  <1>2. epoch \in Nat /\ Week \in 1..Weeks
    BY Epochs
  <1>3. n \in 1..LongestLock /\ LongestLock \in Nat
    BY <1>2, NewLockFits
  <1> HIDE DEF n
  <1>4. Week' = Week /\ Known' = Known
    BY <1>1 DEF Week, Known
  <1>5. LockInv'
    <2>1. lock.changes \in Nat
      BY DEF LockInv, Locks
    <2> DEFINE u == epoch + n
               c == lock.changes + 1
    <2>2. u \in Nat /\ c \in Nat /\ u <= epoch + LongestLock
      BY <1>2, <1>3, <2>1
    <2>3. lock' = [unlock |-> u, since |-> epoch, changes |-> c]
      BY <1>1
    <2> HIDE DEF u, c
    <2>4. LongestLock' = LongestLock
      BY DEF LongestLock
    <2>5. lock' \in Locks /\ lock'.since <= epoch /\ lock'.unlock <= lock'.since + LongestLock
      BY <1>2, <2>2, <2>3 DEF Locks
    <2> QED
      BY <1>1, <2>4, <2>5 DEF LockInv
  <1>6. ChainInv' /\ CacheInv'
    BY <1>1, <1>4 DEF ChainInv, CacheInv
  <1>7. Grows
    BY <1>1, <1>2, <1>4 DEF Grows
  <1> QED
    BY <1>5, <1>6, <1>7

\* The contract records the energy of the week.
LEMMA UpdateEnergyKeeps ==
    ASSUME ChainInv, LockInv, CacheInv, UpdateEnergy
    PROVE  ChainInv' /\ LockInv' /\ CacheInv' /\ Grows
  <1>1. epoch \in Nat /\ Week \in 1..Weeks
    BY Epochs
  <1> DEFINE p == [week |-> Week, amount |-> Locked * (lock.unlock - epoch), last |-> epoch]
  <1>2. /\ progress' = p /\ recorded' = [recorded EXCEPT ![Week] = progress']
        /\ epoch' = epoch /\ lock' = lock
        /\ stored' = stored /\ weekNow' = weekNow /\ active' = active /\ closed' = closed
    BY DEF UpdateEnergy, cache, Week
  <1>3. lock.unlock - epoch \in Int
    BY <1>1 DEF LockInv, Locks
  <1>4. p.week = Week /\ p.last = epoch /\ \E k \in Int : p.amount = Locked * k
    BY <1>3
  <1>5. p \in [week : 0..Weeks, amount : Int, last : 0..epoch]
    <2> DEFINE k == lock.unlock - epoch
    <2>1. k \in Int
      BY <1>3
    <2> HIDE DEF k
    <2>2. Locked * k \in Int
      BY <2>1, Constants
    <2> QED
      BY <1>1, <2>2 DEF k
  <1> HIDE DEF p
  <1>6. recorded \in [1..Weeks -> Known] /\ progress \in Known
    BY DEF ChainInv
  <1>7. recorded' = [recorded EXCEPT ![Week] = p]
    BY <1>2
  <1>8. recorded'[Week] = p /\ (\A i \in 1..Weeks : i # Week => recorded'[i] = recorded[i])
    BY <1>1, <1>6, <1>7
  <1>9. p # NoProgress
    BY <1>1, <1>4 DEF NoProgress
  <1>10. Week' = Week
    BY <1>2 DEF Week
  <1>11. Known \subseteq Known'
    <2>1. \A w \in 1..Weeks : recorded[w] # NoProgress => recorded'[w] # NoProgress
      BY <1>8, <1>9
    <2> QED
      BY <1>1, <1>2, <1>10, <2>1, KnownGrows
  <1>12. p \in Known'
    <2>1. p \in [week : 0..Weeks, amount : Int, last : 0..epoch']
      BY <1>2, <1>5
    <2>2. p.week <= Week' /\ recorded'[p.week] # NoProgress
      BY <1>1, <1>4, <1>8, <1>9, <1>10
    <2> QED
      BY <1>4, <2>1, <2>2 DEF Known
  <1>13. ChainInv'
    <2>1. recorded' \in [1..Weeks -> Known']
      BY <1>6, <1>7, <1>11, <1>12
    <2>2. \A w \in 1..Weeks : recorded'[w] # NoProgress => recorded'[w].week = w
      BY <1>4, <1>8 DEF ChainInv
    <2>3. epoch' \in FirstEpoch..EndEpoch(Weeks)
      BY <1>2 DEF ChainInv
    <2> QED
      BY <1>2, <1>12, <2>1, <2>2, <2>3 DEF ChainInv
  <1>14. LockInv'
    BY <1>2 DEF LockInv
  <1>15. CacheInv'
    <2>1. progress.week \in Int /\ progress.week <= Week
      BY <1>1, <1>6, KnownIsClaim
    <2>2. active' \in 0..progress'.week
      BY <1>1, <1>2, <1>4, <2>1 DEF CacheInv
    <2> QED
      BY <1>2, <1>10, <1>11, <2>2 DEF CacheInv
  <1>16. Grows
    BY <1>1, <1>8, <1>10, <1>11 DEF Grows
  <1> QED
    BY <1>13, <1>14, <1>15, <1>16

\* The longer of two numbers is one of them.
LEMMA LongerFacts ==
    ASSUME NEW a \in Int, NEW b \in Int
    PROVE  Longer(a, b) \in Int /\ Longer(a, b) \in {a, b} /\ a <= Longer(a, b) /\ b <= Longer(a, b)
  BY DEF Longer

\* The cached values are refreshed, and weeks are counted as undistributed.
LEMMA CachesKeep ==
    ASSUME ChainInv, LockInv, CacheInv, UNCHANGED <<epoch, lock, progress, recorded>>,
           \/ HandleUpdateUserEnergy \/ Expire \/ Collect \/ CountUndistributed \/ Answer
           \/ UNCHANGED <<cache, closed>>
    PROVE  ChainInv' /\ LockInv' /\ CacheInv' /\ Grows
  <1>1. epoch' = epoch /\ lock' = lock /\ progress' = progress /\ recorded' = recorded
    OBVIOUS
  <1>2. Week' = Week /\ Known' = Known
    BY <1>1 DEF Week, Known
  <1>3. Week \in 1..Weeks /\ epoch \in Nat
    BY Epochs
  <1>4. ChainInv' /\ LockInv'
    BY <1>1, <1>2 DEF ChainInv, LockInv
  <1>5. Grows
    BY <1>1, <1>2, <1>3 DEF Grows
  <1>6. progress \in Known /\ progress.week \in Nat
    BY <1>3, KnownIsClaim DEF ChainInv
  <1>7. progress.week \in 0..progress.week
    BY <1>6
  <1>8. /\ stored \in Known \cup {NotCached} /\ weekNow \in {Week, Week - 1} /\ active \in 0..progress.week
        /\ closed \in Nat /\ (closed = 0 \/ closed <= Week - MaxClaimWeeks - 1)
    BY DEF CacheInv
  <1>9. SUFFICES /\ stored' \in Known \cup {NotCached} /\ weekNow' \in {Week, Week - 1}
                 /\ active' \in 0..progress.week
                 /\ closed' \in Nat /\ (closed' = 0 \/ closed' <= Week - MaxClaimWeeks - 1)
    BY <1>1, <1>2, <1>4, <1>5 DEF CacheInv
  <1>10. CASE HandleUpdateUserEnergy
    BY <1>6, <1>7, <1>8, <1>10 DEF HandleUpdateUserEnergy
  <1>11. CASE Expire
    <2>1. closed' = closed /\ (stored' = NotCached \/ stored' = stored)
      BY <1>11 DEF Expire
    <2>2. weekNow' = Week \/ weekNow' = weekNow
      BY <1>11 DEF Expire, Week
    <2>3. active' = progress.week \/ active' = active
      BY <1>11 DEF Expire
    <2> QED
      BY <1>7, <1>8, <2>1, <2>2, <2>3
  <1>12. CASE Collect \/ CountUndistributed
    <2>1. stored' = stored /\ weekNow' = weekNow /\ active' = active
      BY <1>12 DEF Collect, CountUndistributed, cache
    <2>2. /\ closed' \in {Longer(closed, Week - MaxClaimWeeks - 1), Longer(closed, weekNow - MaxClaimWeeks - 1)}
      BY <1>12 DEF Collect, CountUndistributed, Week
    <2>3. weekNow \in Int /\ weekNow <= Week
      BY <1>3, <1>8
    <2>4. PICK v \in Int : v <= Week - MaxClaimWeeks - 1 /\ closed' = Longer(closed, v)
      <3>1. Week - MaxClaimWeeks - 1 \in Int /\ weekNow - MaxClaimWeeks - 1 \in Int
            /\ weekNow - MaxClaimWeeks - 1 <= Week - MaxClaimWeeks - 1
        BY <1>3, <2>3, Constants
      <3> QED
        BY <2>2, <3>1
    <2>5. closed' \in {closed, v} /\ closed <= closed' /\ closed' \in Int
      BY <1>8, <2>4, LongerFacts
    <2>6. closed' \in Nat /\ (closed' = 0 \/ closed' <= Week - MaxClaimWeeks - 1)
      BY <1>8, <2>4, <2>5
    <2> QED
      BY <1>8, <2>1, <2>6
  <1>13. CASE Answer
    BY <1>6, <1>8, <1>13 DEF Answer
  <1>14. CASE UNCHANGED <<cache, closed>>
    BY <1>8, <1>14 DEF cache
  <1> QED
    BY <1>10, <1>11, <1>12, <1>13, <1>14

--------------------------------------------------------------------------------
(* Calls that have no object yet.                                          *)

\* The parts of the invariant about calls and their objects.
ServiceInv == CallsInv /\ WaitInv /\ SharedInv /\ GivenInv /\ DoneInv

\* The fields of a call.
LEMMA CallFields ==
    ASSUME CallsInv, NEW i \in 0..Weeks
    PROVE  /\ calls[i].pc \in CallPCs /\ calls[i].obj \in 0..Weeks
           /\ calls[i].read \in Claims /\ calls[i].shared \in BOOLEAN
           /\ heap[i] \in Claims
  <1>1. calls[i] \in Calls /\ heap[i] \in Claims
    BY DEF CallsInv
  <1> QED
    BY <1>1 DEF Calls

\* Steps that leave alone the objects and the calls that were given one.
LEMMA Quiet ==
    ASSUME CallsInv, GivenInv, DoneInv, heap' = heap, Known \subseteq Known',
           \A i \in 0..Weeks :
               calls[i].pc \in Given \/ calls'[i].pc \in Given => calls'[i] = calls[i]
    PROVE  GivenInv' /\ DoneInv'
  <1>1. \A j, o \in 0..Weeks : DoneWith(j, o)' <=> DoneWith(j, o)
    BY DEF DoneWith, Given
  <1>2. 0 \in 0..Weeks /\ 1..Weeks \subseteq 0..Weeks
    BY Constants
  <1>3. \A o \in 0..Weeks : \A h, r \in Claims : LastWrite(o, h, r) => LastWrite(o, h, r)'
    <2> SUFFICES ASSUME NEW o \in 0..Weeks, NEW h \in Claims, NEW r \in Claims, LastWrite(o, h, r)
                 PROVE  LastWrite(o, h, r)'
      OBVIOUS
    <2>1. CASE h.last = r.last
      BY <2>1 DEF LastWrite
    <2>2. CASE \E j \in 1..Weeks : DoneWith(j, o) /\ h.last = EndEpoch(j)
      <3>1. PICK j \in 1..Weeks : DoneWith(j, o) /\ h.last = EndEpoch(j)
        BY <2>2
      <3>2. DoneWith(j, o)'
        BY <1>1, <1>2, <3>1
      <3> QED
        BY <3>1, <3>2 DEF LastWrite
    <2> QED
      BY <2>1, <2>2 DEF LastWrite
  <1>4. \A i, o \in 0..Weeks : \A h, r \in Claims :
            At(i, o, h, r)' => At(i, o, h, r) /\ calls'[i] = calls[i]
    BY DEF At
  <1>5. GivenInv'
    <2> SUFFICES ASSUME NEW i \in 0..Weeks, NEW o \in 0..Weeks, NEW h \in Claims, NEW r \in Claims,
                        At(i, o, h, r)'
                 PROVE  /\ calls'[o].pc \in Given /\ calls'[o].obj = o
                        /\ r \in Known'
                        /\ Below(h, r)
                        /\ DoneWith(0, o)' \/ Energy(h) = Energy(r)
                        /\ LastWrite(o, h, r)'
      BY DEF GivenInv
    <2>1. At(i, o, h, r)
      BY <1>4
    <2>2. /\ calls[o].pc \in Given /\ calls[o].obj = o /\ r \in Known /\ Below(h, r)
          /\ DoneWith(0, o) \/ Energy(h) = Energy(r)
          /\ LastWrite(o, h, r)
      BY <2>1 DEF GivenInv
    <2>3. calls'[o] = calls[o]
      BY <2>2
    <2> QED
      BY <1>1, <1>2, <1>3, <2>2, <2>3
  <1>6. DoneInv'
    <2> SUFFICES ASSUME NEW i \in 1..Weeks, NEW o \in 0..Weeks, NEW h \in Claims, NEW r \in Claims,
                        At(i, o, h, r)', calls'[i].pc = "done"
                 PROVE  /\ r.week = i => o = i /\ ~calls'[i].shared /\ h = r
                        /\ r.week # i /\ r.week > 0 => h.last >= EndEpoch(i)
      BY DEF DoneInv
    <2>1. At(i, o, h, r) /\ calls'[i] = calls[i]
      BY <1>2, <1>4
    <2> QED
      BY <2>1 DEF DoneInv
  <1> QED
    BY <1>5, <1>6

\* Steps after which no call has an object that it had not before.
LEMMA NoNewSharing ==
    ASSUME SharedInv,
           \A i \in 0..Weeks : HasObject(i)' =>
               HasObject(i) /\ calls'[i].obj = calls[i].obj /\ calls'[i].shared = calls[i].shared
    PROVE  SharedInv'
  BY DEF SharedInv

\* Steps of the chain and of the cached weeks.
LEMMA ChainSteps ==
    ASSUME ServiceInv, ChainInv, ChainInv', Grows, UNCHANGED <<calls, heap, pending>>
    PROVE  ServiceInv'
  <1>1. calls' = calls /\ heap' = heap /\ pending' = pending
    OBVIOUS
  <1>2. CallsInv'
    BY <1>1 DEF ServiceInv, CallsInv
  <1>3. Week \in 1..Weeks /\ Week' \in 1..Weeks
    <2>1. \A x \in 1..Weeks : x \in Int
      OBVIOUS
    <2>2. Week \in 1..Weeks
      BY Epochs
    <2>3. epoch' \in Nat /\ FirstEpoch <= epoch' /\ epoch' <= EndEpoch(Weeks) /\ Week' = WeekOf(epoch')
      <3>1. EndEpoch(Weeks) \in Nat
        BY WeekEnds, Constants
      <3> QED
        BY <3>1, Constants DEF ChainInv, Week
    <2>4. Week' \in Nat \ {0} /\ Week' <= Weeks
      BY <2>3, WeekHolds, WeekBefore, Constants
    <2> QED
      BY <2>2, <2>4, Constants
  <1>4. WaitInv'
    <2> SUFFICES ASSUME NEW i \in 0..Weeks
                 PROVE  /\ calls[i].pc = "progress" => calls[i].obj = pending
                        /\ calls[i].pc = "contract" => i >= 1 /\ calls[i].obj = i /\ ~calls[i].shared
                        /\ i >= 1 /\ calls[i].pc # "idle" => i < Week'
                        /\ i >= 1 /\ calls[i].pc \in {"asks", "progress", "resume"} => recorded'[i] = NoProgress
      BY <1>1 DEF WaitInv
    <2>1. i >= 1 => i \in 1..Weeks
      BY Constants
    <2>2. i >= 1 /\ calls[i].pc # "idle" => i < Week
      BY DEF ServiceInv, WaitInv
    <2>3. i < Week => i < Week'
      <3>1. \A a, v, w \in Int : a < v /\ v <= w => a < w
        OBVIOUS
      <3>2. i \in Int /\ Week \in Int /\ Week' \in Int
        BY <1>3
      <3> QED
        BY <3>1, <3>2 DEF Grows
    <2>4. i >= 1 /\ i < Week => recorded'[i] = recorded[i]
      BY <2>1 DEF Grows
    <2> QED
      BY <2>2, <2>3, <2>4 DEF ServiceInv, WaitInv
  <1>5. SharedInv'
    BY <1>1, NoNewSharing DEF ServiceInv, HasObject
  <1>6. GivenInv' /\ DoneInv'
    BY <1>1, Quiet DEF ServiceInv, Grows
  <1> QED
    BY <1>2, <1>4, <1>5, <1>6 DEF ServiceInv

\* The weeks and the record that the calls are about, in steps of the service.
ServiceStep == UNCHANGED <<epoch, lock, progress, recorded>>

\* Nothing about the chain changes.
LEMMA ServiceLeaves ==
    ASSUME ServiceStep
    PROVE  Week' = Week /\ Known' = Known /\ recorded' = recorded /\ epoch' = epoch /\ lock' = lock
  <1>1. epoch' = epoch /\ recorded' = recorded /\ lock' = lock
    BY DEF ServiceStep
  <1>2. Week' = Week
    BY <1>1 DEF Week
  <1> QED
    BY <1>1, <1>2 DEF Known

\* The fields of the week are opened, of those that are not cached.
LEMMA OpenKeeps ==
    ASSUME ServiceInv, ChainInv, CacheInv, ServiceStep, NEW missing \in SUBSET Window, Open(missing)
    PROVE  ServiceInv'
  <1>1. Week' = Week /\ Known' = Known /\ recorded' = recorded
    BY ServiceLeaves
  <1> DEFINE c(i) == [Idle EXCEPT !.pc = "contract", !.obj = i]
  <1>2. /\ \A i \in 1..Weeks : calls[i].pc = "idle"
        /\ calls' = [i \in 0..Weeks |-> IF i \in missing THEN c(i) ELSE calls[i]]
        /\ heap' = heap /\ pending' = pending
    BY DEF Open
  <1>3. \A i \in missing : i \in 1..Weeks /\ i < Week
    <2> SUFFICES ASSUME NEW i \in missing PROVE i \in 1..Weeks /\ i < Week
      OBVIOUS
    <2>1. i \in 1..Weeks /\ i <= weekNow - 1
      BY DEF Window
    <2>2. weekNow \in {Week, Week - 1} /\ Week \in 1..Weeks
      BY Epochs DEF CacheInv
    <2> QED
      BY <2>1, <2>2, Constants
  <1>4. CallsInv
    BY DEF ServiceInv
  <1>5. \A i \in missing : c(i) \in Calls
    <2>1. NoProgress \in Claims
      BY Epochs, NoneIsKnown
    <2>2. \A i \in missing : i \in 0..Weeks
      BY <1>3, Constants
    <2>3. Idle \in Calls
      BY <2>1, Constants DEF Idle, Calls, CallPCs
    <2> QED
      BY <2>2, <2>3 DEF Calls, CallPCs
  <1>6. /\ \A i \in 0..Weeks : i \in missing => calls'[i] = c(i)
        /\ \A i \in 0..Weeks : i \notin missing => calls'[i] = calls[i]
    BY <1>2
  <1>7. CallsInv'
    <2>1. calls' \in [0..Weeks -> Calls]
      BY <1>2, <1>4, <1>5 DEF CallsInv
    <2>2. pending # -1 => calls'[pending].pc = "progress"
      <3>1. SUFFICES ASSUME pending # -1 PROVE calls'[pending].pc = "progress"
        OBVIOUS
      <3>2. pending \in 0..Weeks /\ calls[pending].pc = "progress"
        BY <1>4, <3>1, Constants DEF CallsInv
      <3>3. pending \notin missing
        BY <1>2, <1>3, <3>2
      <3> QED
        BY <1>6, <3>2, <3>3
    <2> QED
      BY <1>2, <1>4, <2>1, <2>2 DEF CallsInv
  <1>8. \A i \in missing : c(i).pc = "contract" /\ c(i).obj = i /\ c(i).shared = FALSE
    BY DEF Idle
  <1> HIDE DEF c
  <1>9. WaitInv'
    <2> SUFFICES ASSUME NEW i \in 0..Weeks
                 PROVE  /\ calls'[i].pc = "progress" => calls'[i].obj = pending
                        /\ calls'[i].pc = "contract" => i >= 1 /\ calls'[i].obj = i /\ ~calls'[i].shared
                        /\ i >= 1 /\ calls'[i].pc # "idle" => i < Week
                        /\ i >= 1 /\ calls'[i].pc \in {"asks", "progress", "resume"} => recorded[i] = NoProgress
      BY <1>1, <1>2 DEF WaitInv
    <2>1. CASE i \in missing
      <3>1. i >= 1 /\ i < Week
        BY <1>3, <2>1, Constants
      <3> QED
        BY <1>6, <1>8, <2>1, <3>1
    <2>2. CASE i \notin missing
      BY <1>6, <2>2 DEF ServiceInv, WaitInv
    <2> QED
      BY <2>1, <2>2
  <1>10. \A i \in 0..Weeks : i \in missing => calls'[i].pc = "contract"
    BY <1>6, <1>8
  <1>11. SharedInv'
    <2>1. \A i \in 0..Weeks : HasObject(i)' => calls'[i] = calls[i]
      BY <1>6, <1>10 DEF HasObject, Given
    <2> QED
      BY <2>1, NoNewSharing DEF ServiceInv, HasObject
  <1>12. GivenInv' /\ DoneInv'
    <2>1. \A i \in 0..Weeks : calls[i].pc \in Given \/ calls'[i].pc \in Given => calls'[i] = calls[i]
      <3> SUFFICES ASSUME NEW i \in 0..Weeks, i \in missing
                   PROVE  calls[i].pc \notin Given /\ calls'[i].pc \notin Given
        BY <1>6
      <3>1. calls[i].pc = "idle"
        BY <1>2, <1>3
      <3> QED
        BY <1>10, <3>1 DEF Given
    <2> QED
      BY <1>1, <1>2, <2>1, Quiet DEF ServiceInv
  <1> QED
    BY <1>7, <1>9, <1>11, <1>12 DEF ServiceInv

\* A call goes on to ask for the claim progress: the check, or a week without a record.
LEMMA AsksKeeps ==
    ASSUME ServiceInv, ChainInv, ServiceStep, NEW i \in 0..Weeks, calls[i].pc \in {"idle", "contract"},
           i >= 1 => calls[i].pc # "idle" /\ recorded[i] = NoProgress,
           NEW c \in Calls, c.pc = "asks", calls' = [calls EXCEPT ![i] = c],
           heap' = heap, pending' = pending
    PROVE  ServiceInv'
  <1>1. Week' = Week /\ Known' = Known /\ recorded' = recorded
    BY ServiceLeaves
  <1>2. CallsInv
    BY DEF ServiceInv
  <1>3. calls'[i] = c /\ (\A j \in 0..Weeks : j # i => calls'[j] = calls[j])
    BY <1>2 DEF CallsInv
  <1>4. CallsInv'
    <2>1. calls' \in [0..Weeks -> Calls]
      BY <1>2 DEF CallsInv
    <2>2. pending # -1 => pending \in 0..Weeks /\ pending # i
      BY <1>2, Constants DEF CallsInv
    <2> QED
      BY <1>2, <1>3, <2>1, <2>2 DEF CallsInv
  <1>5. WaitInv'
    <2> SUFFICES ASSUME NEW j \in 0..Weeks
                 PROVE  /\ calls'[j].pc = "progress" => calls'[j].obj = pending
                        /\ calls'[j].pc = "contract" => j >= 1 /\ calls'[j].obj = j /\ ~calls'[j].shared
                        /\ j >= 1 /\ calls'[j].pc # "idle" => j < Week
                        /\ j >= 1 /\ calls'[j].pc \in {"asks", "progress", "resume"} => recorded[j] = NoProgress
      BY <1>1 DEF WaitInv
    <2>1. CASE j = i
      <3>1. i >= 1 => i < Week
        BY DEF ServiceInv, WaitInv
      <3> QED
        BY <1>3, <2>1, <3>1
    <2>2. CASE j # i
      BY <1>3, <2>2 DEF ServiceInv, WaitInv
    <2> QED
      BY <2>1, <2>2
  <1>6. SharedInv'
    <2>1. \A j \in 0..Weeks : HasObject(j)' => calls'[j] = calls[j]
      BY <1>3 DEF HasObject, Given
    <2> QED
      BY <2>1, NoNewSharing DEF ServiceInv, HasObject
  <1>7. GivenInv' /\ DoneInv'
    <2>1. \A j \in 0..Weeks : calls[j].pc \in Given \/ calls'[j].pc \in Given => calls'[j] = calls[j]
      BY <1>3 DEF Given
    <2> QED
      BY <1>1, <2>1, Quiet DEF ServiceInv
  <1> QED
    BY <1>4, <1>5, <1>6, <1>7 DEF ServiceInv

--------------------------------------------------------------------------------
(* Calls that are given an object.                                         *)

\* The object of a call that was given none is nobody's.
LEMMA Unheld ==
    ASSUME ServiceInv, NEW i \in 0..Weeks, ~HasObject(i), NEW j \in 0..Weeks, HasObject(j)
    PROVE  calls[j].obj # i /\ j # i
  <1>1. j # i
    OBVIOUS
  <1>2. CallsInv
    BY DEF ServiceInv
  <1>3. CASE calls[j].pc = "progress"
    <2>1. calls[j].obj = pending /\ calls[j].obj \in 0..Weeks
      BY <1>2, <1>3, CallFields DEF ServiceInv, WaitInv
    <2>2. pending # -1
      BY <2>1, Constants
    <2>3. calls[pending].pc = "progress"
      BY <1>2, <2>2 DEF CallsInv
    <2> QED
      BY <1>1, <2>1, <2>3 DEF HasObject
  <1>4. CASE calls[j].pc \in Given
    <2> DEFINE o == calls[j].obj
               h == heap[o]
               r == calls[j].read
    <2>1. o \in 0..Weeks /\ h \in Claims /\ r \in Claims
      BY <1>2, CallFields
    <2>2. At(j, o, h, r)
      BY <1>4 DEF At
    <2> HIDE DEF o, h, r
    <2>3. calls[o].pc \in Given
      BY <2>1, <2>2 DEF ServiceInv, GivenInv
    <2> QED
      BY <1>1, <2>3 DEF HasObject, o
  <1> QED
    BY <1>3, <1>4 DEF HasObject

\* An energy above its own energy it is not.
LEMMA BelowItself ==
    ASSUME NEW r \in Claims
    PROVE  Below(r, r) /\ Energy(r) \in Int
  <1>1. r.week \in Int /\ r.amount \in Int /\ r.last \in Int
    BY DEF Claims
  <1>2. Energy(r) \in Int
    BY <1>1, Constants DEF Energy
  <1> QED
    BY <1>1, <1>2 DEF Below

\* A call is given a new object: a copy of the cached claim progress, or the record of its week.
LEMMA FreshObject ==
    ASSUME ServiceInv, ChainInv, Week' = Week, Known' = Known, recorded' = recorded,
           NEW i \in 0..Weeks, ~HasObject(i),
           NEW r \in Known, NEW c \in Calls, c.pc \in Given, c.obj = i, c.read = r,
           i >= 1 => i < Week,
           c.pc = "resume" /\ i >= 1 => recorded[i] = NoProgress,
           c.pc = "done" => i >= 1 /\ r.week = i /\ ~c.shared,
           calls' = [calls EXCEPT ![i] = c], heap' = [heap EXCEPT ![i] = r], pending' = pending
    PROVE  ServiceInv'
  <1>1. CallsInv
    BY DEF ServiceInv
  <1>2. r \in Claims
    BY Epochs, KnownIsClaim
  <1>3. calls'[i] = c /\ (\A j \in 0..Weeks : j # i => calls'[j] = calls[j])
    BY <1>1 DEF CallsInv
  <1>4. heap'[i] = r /\ (\A j \in 0..Weeks : j # i => heap'[j] = heap[j])
    BY <1>1 DEF CallsInv
  <1>5. CallsInv'
    <2>1. calls' \in [0..Weeks -> Calls] /\ heap' \in [0..Weeks -> Claims]
      BY <1>1, <1>2 DEF CallsInv
    <2>2. pending # -1 => pending \in 0..Weeks /\ pending # i
      BY <1>1, Constants DEF CallsInv, HasObject
    <2> QED
      BY <1>1, <1>3, <2>1, <2>2 DEF CallsInv
  <1>6. WaitInv'
    <2> SUFFICES ASSUME NEW j \in 0..Weeks
                 PROVE  /\ calls'[j].pc = "progress" => calls'[j].obj = pending
                        /\ calls'[j].pc = "contract" => j >= 1 /\ calls'[j].obj = j /\ ~calls'[j].shared
                        /\ j >= 1 /\ calls'[j].pc # "idle" => j < Week
                        /\ j >= 1 /\ calls'[j].pc \in {"asks", "progress", "resume"} => recorded[j] = NoProgress
      BY DEF WaitInv
    <2>1. CASE j = i
      BY <1>3, <2>1 DEF Given
    <2>2. CASE j # i
      BY <1>3, <2>2 DEF ServiceInv, WaitInv
    <2> QED
      BY <2>1, <2>2
  <1>7. \A j \in 0..Weeks : HasObject(j)' => j = i \/ (HasObject(j) /\ calls'[j] = calls[j] /\ calls[j].obj # i)
    <2> SUFFICES ASSUME NEW j \in 0..Weeks, HasObject(j)', j # i
                 PROVE  HasObject(j) /\ calls'[j] = calls[j] /\ calls[j].obj # i
      OBVIOUS
    <2>1. calls'[j] = calls[j] /\ HasObject(j)
      BY <1>3 DEF HasObject
    <2> QED
      BY <2>1, Unheld
  <1>8. SharedInv'
    <2> SUFFICES ASSUME NEW j \in 0..Weeks, NEW k \in 0..Weeks, j # k, HasObject(j)', HasObject(k)',
                        calls'[j].obj = calls'[k].obj
                 PROVE  calls'[j].shared /\ calls'[k].shared
      BY DEF SharedInv
    <2>1. j # i /\ k # i
      BY <1>3, <1>7
    <2> QED
      BY <1>7, <2>1 DEF ServiceInv, SharedInv
  <1>9. \A j \in 0..Weeks : j # i => \A o : DoneWith(j, o)' <=> DoneWith(j, o)
    BY <1>3 DEF DoneWith
  <1>10. 0 \in 0..Weeks /\ 1..Weeks \subseteq 0..Weeks
    BY Constants
  <1>11. GivenInv'
    <2> SUFFICES ASSUME NEW j \in 0..Weeks, NEW o \in 0..Weeks, NEW h \in Claims, NEW s \in Claims,
                        At(j, o, h, s)'
                 PROVE  /\ calls'[o].pc \in Given /\ calls'[o].obj = o
                        /\ s \in Known
                        /\ Below(h, s)
                        /\ DoneWith(0, o)' \/ Energy(h) = Energy(s)
                        /\ LastWrite(o, h, s)'
      BY DEF GivenInv
    <2>1. calls'[j].pc \in Given /\ calls'[j].obj = o /\ heap'[o] = h /\ calls'[j].read = s
      BY DEF At
    <2>2. CASE j = i
      <3>1. o = i /\ s = r /\ h = r
        BY <1>3, <1>4, <2>1, <2>2
      <3> QED
        BY <1>2, <1>3, <3>1, BelowItself DEF LastWrite
    <2>3. CASE j # i
      <3>1. calls'[j] = calls[j] /\ o # i
        BY <1>7, <2>1, <2>3 DEF HasObject
      <3>2. At(j, o, h, s)
        BY <1>4, <2>1, <3>1 DEF At
      <3>3. /\ calls[o].pc \in Given /\ calls[o].obj = o /\ s \in Known /\ Below(h, s)
            /\ DoneWith(0, o) \/ Energy(h) = Energy(s)
            /\ LastWrite(o, h, s)
        BY <3>2 DEF ServiceInv, GivenInv
      <3>4. calls'[o] = calls[o]
        BY <1>3, <3>1
      <3>5. \A k \in 0..Weeks : DoneWith(k, o) => DoneWith(k, o)'
        <4> SUFFICES ASSUME NEW k \in 0..Weeks, DoneWith(k, o) PROVE DoneWith(k, o)'
          OBVIOUS
        <4>1. k # i
          BY DEF DoneWith, HasObject, Given
        <4> QED
          BY <1>9, <4>1
      <3>6. DoneWith(0, o)' \/ Energy(h) = Energy(s)
        BY <1>10, <3>3, <3>5
      <3>7. LastWrite(o, h, s)'
        <4>1. CASE h.last = s.last
          BY <4>1 DEF LastWrite
        <4>2. CASE \E k \in 1..Weeks : DoneWith(k, o) /\ h.last = EndEpoch(k)
          <5>1. PICK k \in 1..Weeks : DoneWith(k, o) /\ h.last = EndEpoch(k)
            BY <4>2
          <5>2. DoneWith(k, o)'
            BY <1>10, <3>5, <5>1
          <5> QED
            BY <5>1, <5>2 DEF LastWrite
        <4> QED
          BY <3>3, <4>1, <4>2 DEF LastWrite
      <3> QED
        BY <3>3, <3>4, <3>6, <3>7
    <2> QED
      BY <2>2, <2>3
  <1>12. DoneInv'
    <2> SUFFICES ASSUME NEW j \in 1..Weeks, NEW o \in 0..Weeks, NEW h \in Claims, NEW s \in Claims,
                        At(j, o, h, s)', calls'[j].pc = "done"
                 PROVE  /\ s.week = j => o = j /\ ~calls'[j].shared /\ h = s
                        /\ s.week # j /\ s.week > 0 => h.last >= EndEpoch(j)
      BY DEF DoneInv
    <2>1. calls'[j].pc \in Given /\ calls'[j].obj = o /\ heap'[o] = h /\ calls'[j].read = s
      BY DEF At
    <2>2. CASE j = i
      BY <1>3, <1>4, <2>1, <2>2
    <2>3. CASE j # i
      <3>1. calls'[j] = calls[j] /\ o # i
        BY <1>7, <1>10, <2>1, <2>3 DEF HasObject
      <3>2. At(j, o, h, s) /\ calls[j].pc = "done"
        BY <1>4, <2>1, <3>1 DEF At
      <3> QED
        BY <3>1, <3>2 DEF ServiceInv, DoneInv
    <2> QED
      BY <2>2, <2>3
  <1> QED
    BY <1>5, <1>6, <1>8, <1>11, <1>12 DEF ServiceInv

\* A call asks the contract, or waits for the call that has asked.
LEMMA MissKeeps ==
    ASSUME ServiceInv, ChainInv, ServiceStep, NEW i \in 0..Weeks, calls[i].pc = "asks", Miss(i)
    PROVE  ServiceInv'
  <1>1. Week' = Week /\ Known' = Known /\ recorded' = recorded
    BY ServiceLeaves
  <1>2. CallsInv /\ heap' = heap /\ ~HasObject(i)
    BY DEF ServiceInv, Miss, HasObject, Given
  <1>3. CASE pending = -1
    <2> DEFINE c == [calls[i] EXCEPT !.pc = "progress", !.obj = i]
    <2>1. pending' = i /\ calls' = [calls EXCEPT ![i] = c]
      BY <1>3 DEF Miss
    <2>2. calls[i] \in Calls
      BY <1>2 DEF CallsInv
    <2>3. c \in Calls /\ c.pc = "progress" /\ c.obj = i
      BY <2>2 DEF Calls, CallPCs
    <2> HIDE DEF c
    <2>4. calls'[i] = c /\ (\A j \in 0..Weeks : j # i => calls'[j] = calls[j])
      BY <1>2, <2>1 DEF CallsInv
    <2>5. CallsInv'
      <3>1. calls' \in [0..Weeks -> Calls]
        BY <1>2, <2>1, <2>3 DEF CallsInv
      <3>2. pending' \in -1..Weeks /\ calls'[pending'].pc = "progress"
        BY <2>1, <2>3, <2>4, Constants
      <3> QED
        BY <1>2, <3>1, <3>2 DEF CallsInv
    <2>6. \A j \in 0..Weeks : calls[j].pc # "progress"
      <3> SUFFICES ASSUME NEW j \in 0..Weeks, calls[j].pc = "progress" PROVE FALSE
        OBVIOUS
      <3>1. calls[j].obj = pending /\ calls[j].obj \in 0..Weeks
        BY <1>2, CallFields DEF ServiceInv, WaitInv
      <3> QED
        BY <1>3, <3>1, Constants
    <2>7. WaitInv'
      <3> SUFFICES ASSUME NEW j \in 0..Weeks
                   PROVE  /\ calls'[j].pc = "progress" => calls'[j].obj = i
                          /\ calls'[j].pc = "contract" => j >= 1 /\ calls'[j].obj = j /\ ~calls'[j].shared
                          /\ j >= 1 /\ calls'[j].pc # "idle" => j < Week
                          /\ j >= 1 /\ calls'[j].pc \in {"asks", "progress", "resume"} => recorded[j] = NoProgress
        BY <1>1, <2>1 DEF WaitInv
      <3>1. CASE j = i
        BY <2>3, <2>4, <3>1 DEF ServiceInv, WaitInv
      <3>2. CASE j # i
        BY <2>4, <2>6, <3>2 DEF ServiceInv, WaitInv
      <3> QED
        BY <3>1, <3>2
    <2>8. SharedInv'
      <3> SUFFICES ASSUME NEW j \in 0..Weeks, NEW k \in 0..Weeks, j # k, HasObject(j)', HasObject(k)',
                          calls'[j].obj = calls'[k].obj
                   PROVE  calls'[j].shared /\ calls'[k].shared
        BY DEF SharedInv
      <3>1. \A n \in 0..Weeks : n # i /\ HasObject(n)' => HasObject(n) /\ calls'[n] = calls[n] /\ calls[n].obj # i
        <4> SUFFICES ASSUME NEW n \in 0..Weeks, n # i, HasObject(n)'
                     PROVE  HasObject(n) /\ calls'[n] = calls[n] /\ calls[n].obj # i
          OBVIOUS
        <4>1. calls'[n] = calls[n] /\ HasObject(n)
          BY <2>4 DEF HasObject
        <4> QED
          BY <1>2, <4>1, Unheld
      <3>2. j # i /\ k # i
        BY <2>3, <2>4, <3>1
      <3> QED
        BY <3>1, <3>2 DEF ServiceInv, SharedInv
    <2>9. GivenInv' /\ DoneInv'
      <3>1. \A j \in 0..Weeks : calls[j].pc \in Given \/ calls'[j].pc \in Given => calls'[j] = calls[j]
        BY <2>3, <2>4 DEF Given
      <3> QED
        BY <1>1, <1>2, <3>1, Quiet DEF ServiceInv
    <2> QED
      BY <2>5, <2>7, <2>8, <2>9 DEF ServiceInv
  <1>4. CASE pending # -1
    <2>1. pending \in 0..Weeks /\ calls[pending].pc = "progress" /\ pending # i
      BY <1>2, <1>4, Constants DEF CallsInv
    <2> DEFINE c == [calls[i] EXCEPT !.pc = "progress", !.obj = pending, !.shared = TRUE]
               d == [calls[pending] EXCEPT !.shared = TRUE]
    <2>2. pending' = pending /\ calls' = [calls EXCEPT ![i] = c, ![pending] = d]
      BY <1>4, <2>1 DEF Miss
    <2>3. calls[i] \in Calls /\ calls[pending] \in Calls
      BY <1>2, <2>1 DEF CallsInv
    <2>4. c \in Calls /\ c.pc = "progress" /\ c.obj = pending /\ c.shared
      BY <2>1, <2>3 DEF Calls, CallPCs
    <2>5. d \in Calls /\ d.pc = "progress" /\ d.obj = calls[pending].obj /\ d.shared
      BY <2>1, <2>3 DEF Calls, CallPCs
    <2> HIDE DEF c, d
    <2>6. /\ calls'[i] = c /\ calls'[pending] = d
          /\ \A j \in 0..Weeks : j # i /\ j # pending => calls'[j] = calls[j]
      BY <1>2, <2>1, <2>2 DEF CallsInv
    <2>7. CallsInv'
      <3>1. calls' \in [0..Weeks -> Calls]
        BY <1>2, <2>1, <2>2, <2>4, <2>5 DEF CallsInv
      <3> QED
        BY <1>2, <2>2, <2>5, <2>6, <3>1 DEF CallsInv
    <2>8. calls[pending].obj = pending
      BY <2>1 DEF ServiceInv, WaitInv
    <2>9. WaitInv'
      <3> SUFFICES ASSUME NEW j \in 0..Weeks
                   PROVE  /\ calls'[j].pc = "progress" => calls'[j].obj = pending
                          /\ calls'[j].pc = "contract" => j >= 1 /\ calls'[j].obj = j /\ ~calls'[j].shared
                          /\ j >= 1 /\ calls'[j].pc # "idle" => j < Week
                          /\ j >= 1 /\ calls'[j].pc \in {"asks", "progress", "resume"} => recorded[j] = NoProgress
        BY <1>1, <2>2 DEF WaitInv
      <3>1. CASE j = i
        BY <2>4, <2>6, <3>1 DEF ServiceInv, WaitInv
      <3>2. CASE j = pending
        BY <2>1, <2>5, <2>6, <2>8, <3>2 DEF ServiceInv, WaitInv
      <3>3. CASE j # i /\ j # pending
        BY <2>6, <3>3 DEF ServiceInv, WaitInv
      <3> QED
        BY <3>1, <3>2, <3>3
    <2>10. SharedInv'
      <3>1. \A n \in 0..Weeks : /\ HasObject(n)' => n = i \/ HasObject(n)
                                /\ n # i => calls'[n].obj = calls[n].obj
                                /\ n # i /\ calls[n].shared => calls'[n].shared
        BY <2>5, <2>6, <2>1 DEF HasObject
      <3>2. \A n \in 0..Weeks : n # i /\ HasObject(n)' /\ calls'[n].obj = pending => calls'[n].shared
        <4> SUFFICES ASSUME NEW n \in 0..Weeks, n # i, HasObject(n)', calls'[n].obj = pending
                     PROVE  calls'[n].shared
          OBVIOUS
        <4>1. CASE n = pending
          BY <2>5, <2>6, <4>1
        <4>2. CASE n # pending
          <5>1. HasObject(n) /\ HasObject(pending) /\ calls[n].obj = calls[pending].obj
            BY <2>1, <2>8, <3>1 DEF HasObject
          <5>2. calls[n].shared
            BY <2>1, <4>2, <5>1 DEF ServiceInv, SharedInv
          <5> QED
            BY <3>1, <5>2
        <4> QED
          BY <4>1, <4>2
      <3> SUFFICES ASSUME NEW j \in 0..Weeks, NEW k \in 0..Weeks, j # k, HasObject(j)', HasObject(k)',
                          calls'[j].obj = calls'[k].obj
                   PROVE  calls'[j].shared /\ calls'[k].shared
        BY DEF SharedInv
      <3>3. CASE j = i
        BY <2>4, <2>6, <3>2, <3>3
      <3>4. CASE k = i
        BY <2>4, <2>6, <3>2, <3>4
      <3>5. CASE j # i /\ k # i
        BY <3>1, <3>5 DEF ServiceInv, SharedInv
      <3> QED
        BY <3>3, <3>4, <3>5
    <2>11. GivenInv' /\ DoneInv'
      <3>1. \A j \in 0..Weeks : calls[j].pc \in Given \/ calls'[j].pc \in Given => calls'[j] = calls[j]
        BY <2>1, <2>4, <2>5, <2>6 DEF Given
      <3> QED
        BY <1>1, <1>2, <3>1, Quiet DEF ServiceInv
    <2> QED
      BY <2>7, <2>9, <2>10, <2>11 DEF ServiceInv
  <1> QED
    BY <1>3, <1>4

\* The cached claim progress is copied.
LEMMA HitKeeps ==
    ASSUME ServiceInv, ChainInv, CacheInv, ServiceStep, NEW i \in 0..Weeks, calls[i].pc = "asks", Hit(i)
    PROVE  ServiceInv'
  <1> DEFINE c == [calls[i] EXCEPT !.pc = "resume", !.obj = i, !.read = stored]
  <1>1. /\ stored # NotCached /\ pending' = pending
        /\ heap' = [heap EXCEPT ![i] = stored] /\ calls' = [calls EXCEPT ![i] = c]
    BY DEF Hit
  <1>2. stored \in Known
    BY <1>1 DEF CacheInv
  <1>3. stored \in Claims
    BY <1>2, Epochs, KnownIsClaim
  <1>4. CallsInv
    BY DEF ServiceInv
  <1>5. calls[i] \in Calls
    BY <1>4 DEF CallsInv
  <1>6. c \in Calls /\ c.pc = "resume" /\ c.obj = i /\ c.read = stored
    BY <1>3, <1>5 DEF Calls, CallPCs
  <1> HIDE DEF c
  <1>7. c.pc \in Given /\ c.pc # "done"
    BY <1>6 DEF Given
  <1>8. ~HasObject(i)
    BY DEF HasObject, Given
  <1>9. i >= 1 => i < Week /\ recorded[i] = NoProgress
    BY DEF ServiceInv, WaitInv
  <1> QED
    BY <1>1, <1>2, <1>6, <1>7, <1>8, <1>9, ServiceLeaves, FreshObject

\* The recorded energy of the week is taken as it is.
LEMMA RecordedKeeps ==
    ASSUME ServiceInv, ChainInv, ServiceStep, NEW w \in 1..Weeks, Recorded(w)
    PROVE  ServiceInv'
  <1> DEFINE c == [calls[w] EXCEPT !.pc = "done", !.read = recorded[w]]
  <1>1. /\ calls[w].pc = "contract" /\ recorded[w] # NoProgress /\ pending' = pending
        /\ heap' = [heap EXCEPT ![w] = recorded[w]] /\ calls' = [calls EXCEPT ![w] = c]
    BY DEF Recorded
  <1>2. recorded[w] \in Known /\ recorded[w].week = w
    BY <1>1 DEF ChainInv
  <1>3. recorded[w] \in Claims
    BY <1>2, Epochs, KnownIsClaim
  <1>4. w \in 0..Weeks /\ w >= 1
    BY Constants
  <1>5. CallsInv /\ calls[w].obj = w /\ ~calls[w].shared /\ w < Week
    BY <1>1, <1>4 DEF ServiceInv, WaitInv
  <1>6. calls[w] \in Calls
    BY <1>4, <1>5 DEF CallsInv
  <1>7. c \in Calls /\ c.pc = "done" /\ c.obj = calls[w].obj /\ c.read = recorded[w] /\ c.shared = calls[w].shared
    BY <1>3, <1>6 DEF Calls, CallPCs
  <1> HIDE DEF c
  <1>8. c.pc \in Given /\ c.pc # "resume" /\ c.obj = w /\ ~c.shared
    BY <1>5, <1>7 DEF Given
  <1>9. ~HasObject(w)
    BY <1>1 DEF HasObject, Given
  <1> QED
    BY <1>1, <1>2, <1>4, <1>5, <1>7, <1>8, <1>9, ServiceLeaves, FreshObject

\* The claim progress arrives for all that wait for it.
LEMMA AnswerKeeps ==
    ASSUME ServiceInv, ChainInv, ServiceStep, Answer
    PROVE  ServiceInv'
  <1>1. Week' = Week /\ Known' = Known /\ recorded' = recorded
    BY ServiceLeaves
  <1>2. CallsInv
    BY DEF ServiceInv
  <1>3. pending # -1 /\ pending \in 0..Weeks /\ calls[pending].pc = "progress" /\ calls[pending].obj = pending
    <2>a. pending # -1
      BY DEF Answer
    <2>b. pending \in -1..Weeks /\ calls[pending].pc = "progress"
      BY <1>2, <2>a DEF CallsInv
    <2>1. pending # -1 /\ pending \in 0..Weeks /\ calls[pending].pc = "progress"
      BY <2>a, <2>b, Constants
    <2> QED
      BY <2>1 DEF ServiceInv, WaitInv
  <1>4. progress \in Known /\ progress \in Claims
    BY Epochs, KnownIsClaim DEF ChainInv
  <1> DEFINE c(i) == [calls[i] EXCEPT !.pc = "resume", !.read = progress]
  <1>5. /\ heap' = [heap EXCEPT ![pending] = progress] /\ pending' = -1
        /\ calls' = [i \in 0..Weeks |-> IF calls[i].pc = "progress" THEN c(i) ELSE calls[i]]
    BY DEF Answer
  <1>6. \A i \in 0..Weeks : /\ c(i) \in Calls /\ c(i).pc = "resume" /\ c(i).read = progress
                            /\ c(i).obj = calls[i].obj /\ c(i).shared = calls[i].shared
    <2> SUFFICES ASSUME NEW i \in 0..Weeks
                 PROVE  /\ c(i) \in Calls /\ c(i).pc = "resume" /\ c(i).read = progress
                        /\ c(i).obj = calls[i].obj /\ c(i).shared = calls[i].shared
      OBVIOUS
    <2>1. calls[i] \in Calls
      BY <1>2 DEF CallsInv
    <2> QED
      BY <1>4, <2>1 DEF Calls, CallPCs
  <1> HIDE DEF c
  <1>7. /\ \A i \in 0..Weeks : calls[i].pc = "progress" => calls'[i] = c(i) /\ calls[i].obj = pending
        /\ \A i \in 0..Weeks : calls[i].pc # "progress" => calls'[i] = calls[i]
    BY <1>5 DEF ServiceInv, WaitInv
  <1>8. heap'[pending] = progress /\ (\A o \in 0..Weeks : o # pending => heap'[o] = heap[o])
    BY <1>2, <1>3, <1>5 DEF CallsInv
  <1>9. CallsInv'
    <2>1. calls' \in [0..Weeks -> Calls]
      BY <1>2, <1>5, <1>6 DEF CallsInv
    <2>2. heap' \in [0..Weeks -> Claims]
      BY <1>2, <1>4, <1>5 DEF CallsInv
    <2>3. pending' \in -1..Weeks
      BY <1>5, Constants
    <2> QED
      BY <1>5, <2>1, <2>2, <2>3 DEF CallsInv
  <1>10. WaitInv'
    <2> SUFFICES ASSUME NEW j \in 0..Weeks
                 PROVE  /\ calls'[j].pc = "progress" => calls'[j].obj = -1
                        /\ calls'[j].pc = "contract" => j >= 1 /\ calls'[j].obj = j /\ ~calls'[j].shared
                        /\ j >= 1 /\ calls'[j].pc # "idle" => j < Week
                        /\ j >= 1 /\ calls'[j].pc \in {"asks", "progress", "resume"} => recorded[j] = NoProgress
      BY <1>1, <1>5 DEF WaitInv
    <2>1. CASE calls[j].pc = "progress"
      BY <1>6, <1>7, <2>1 DEF ServiceInv, WaitInv
    <2>2. CASE calls[j].pc # "progress"
      BY <1>7, <2>2 DEF ServiceInv, WaitInv
    <2> QED
      BY <2>1, <2>2
  <1>11. \A j \in 0..Weeks : calls'[j].obj = calls[j].obj /\ calls'[j].shared = calls[j].shared
    BY <1>6, <1>7
  <1>12. SharedInv'
    <2>1. \A j \in 0..Weeks : HasObject(j)' => HasObject(j)
      BY <1>7 DEF HasObject
    <2> QED
      BY <1>11, <2>1, NoNewSharing DEF ServiceInv
  <1>13. \A j \in 0..Weeks : calls[j].pc \in Given => calls'[j] = calls[j] /\ calls[j].obj # pending
    <2> SUFFICES ASSUME NEW j \in 0..Weeks, calls[j].pc \in Given
                 PROVE  calls'[j] = calls[j] /\ calls[j].obj # pending
      OBVIOUS
    <2>1. calls'[j] = calls[j]
      BY <1>7 DEF Given
    <2> DEFINE o == calls[j].obj
               h == heap[o]
               r == calls[j].read
    <2>2. o \in 0..Weeks /\ h \in Claims /\ r \in Claims /\ At(j, o, h, r)
      BY <1>2, CallFields DEF At
    <2> HIDE DEF o, h, r
    <2>3. calls[o].pc \in Given
      BY <2>2 DEF ServiceInv, GivenInv
    <2>4. o # pending
      BY <1>3, <2>3 DEF Given
    <2> QED
      BY <2>1, <2>4 DEF o
  <1>14. \A j, o \in 0..Weeks : DoneWith(j, o) => DoneWith(j, o)'
    BY <1>13 DEF DoneWith, Given
  <1>15. 0 \in 0..Weeks /\ 1..Weeks \subseteq 0..Weeks
    BY Constants
  <1>16. GivenInv'
    <2> SUFFICES ASSUME NEW j \in 0..Weeks, NEW o \in 0..Weeks, NEW h \in Claims, NEW s \in Claims,
                        At(j, o, h, s)'
                 PROVE  /\ calls'[o].pc \in Given /\ calls'[o].obj = o
                        /\ s \in Known
                        /\ Below(h, s)
                        /\ DoneWith(0, o)' \/ Energy(h) = Energy(s)
                        /\ LastWrite(o, h, s)'
      BY <1>1 DEF GivenInv
    <2>1. calls'[j].pc \in Given /\ calls'[j].obj = o /\ heap'[o] = h /\ calls'[j].read = s
      BY DEF At
    <2>2. CASE calls[j].pc = "progress"
      <3>1. o = pending /\ s = progress /\ h = progress
        BY <1>6, <1>7, <1>8, <2>1, <2>2
      <3>2. calls'[pending].pc = "resume" /\ calls'[pending].obj = pending
        BY <1>3, <1>6, <1>7
      <3> QED
        BY <1>4, <3>1, <3>2, BelowItself DEF LastWrite, Given
    <2>3. CASE calls[j].pc # "progress"
      <3>1. calls'[j] = calls[j]
        BY <1>7, <2>3
      <3>2. calls[j].pc \in Given /\ o # pending
        BY <1>13, <2>1, <3>1
      <3>3. At(j, o, h, s)
        BY <1>8, <2>1, <3>1, <3>2 DEF At
      <3>4. /\ calls[o].pc \in Given /\ calls[o].obj = o /\ s \in Known /\ Below(h, s)
            /\ DoneWith(0, o) \/ Energy(h) = Energy(s)
            /\ LastWrite(o, h, s)
        BY <3>3 DEF ServiceInv, GivenInv
      <3>5. calls'[o] = calls[o]
        BY <1>13, <3>4
      <3>6. DoneWith(0, o)' \/ Energy(h) = Energy(s)
        BY <1>14, <1>15, <3>4
      <3>7. LastWrite(o, h, s)'
        <4>1. CASE h.last = s.last
          BY <4>1 DEF LastWrite
        <4>2. CASE \E k \in 1..Weeks : DoneWith(k, o) /\ h.last = EndEpoch(k)
          <5>1. PICK k \in 1..Weeks : DoneWith(k, o) /\ h.last = EndEpoch(k)
            BY <4>2
          <5>2. DoneWith(k, o)'
            BY <1>14, <1>15, <5>1
          <5> QED
            BY <5>1, <5>2 DEF LastWrite
        <4> QED
          BY <3>4, <4>1, <4>2 DEF LastWrite
      <3> QED
        BY <3>4, <3>5, <3>6, <3>7
    <2> QED
      BY <2>2, <2>3
  <1>17. DoneInv'
    <2> SUFFICES ASSUME NEW j \in 1..Weeks, NEW o \in 0..Weeks, NEW h \in Claims, NEW s \in Claims,
                        At(j, o, h, s)', calls'[j].pc = "done"
                 PROVE  /\ s.week = j => o = j /\ ~calls'[j].shared /\ h = s
                        /\ s.week # j /\ s.week > 0 => h.last >= EndEpoch(j)
      BY DEF DoneInv
    <2>1. calls'[j].obj = o /\ heap'[o] = h /\ calls'[j].read = s
      BY DEF At
    <2>2. calls[j].pc # "progress" /\ calls'[j] = calls[j]
      BY <1>6, <1>7, <1>15
    <2>3. calls[j].pc \in Given /\ calls[j].obj # pending
      BY <1>13, <1>15, <2>2 DEF Given
    <2>4. At(j, o, h, s)
      BY <1>8, <2>1, <2>2, <2>3 DEF At
    <2> QED
      BY <2>2, <2>4 DEF ServiceInv, DoneInv
  <1> QED
    BY <1>9, <1>10, <1>12, <1>16, <1>17 DEF ServiceInv

\* A call that was given an object writes to it and is done.  What it writes keeps the week, does not
\* lower the epoch and does not raise the energy; only the check lowers that.
LEMMA WriteKeeps ==
    ASSUME ServiceInv, ChainInv, ServiceStep, NEW i \in 0..Weeks, calls[i].pc = "resume",
           NEW o \in 0..Weeks, calls[i].obj = o, NEW p \in Claims, heap[o] = p,
           NEW q \in Claims, q.week = p.week, q.last >= p.last, Energy(q) <= Energy(p),
           p.week <= 0 => q = p,
           i >= 1 => Energy(q) = Energy(p),
           i >= 1 /\ p.week > 0 => q.last >= EndEpoch(i),
           q.last = p.last \/ (i >= 1 /\ q.last = EndEpoch(i)),
           calls' = [calls EXCEPT ![i].pc = "done"], heap' = [heap EXCEPT ![o] = q], pending' = pending
    PROVE  ServiceInv'
  <1>1. Week' = Week /\ Known' = Known /\ recorded' = recorded
    BY ServiceLeaves
  <1>2. CallsInv
    BY DEF ServiceInv
  <1> DEFINE c == [calls[i] EXCEPT !.pc = "done"]
  <1>3. calls[i] \in Calls
    BY <1>2 DEF CallsInv
  <1>4. c \in Calls /\ c.pc = "done" /\ c.obj = o /\ c.read = calls[i].read /\ c.shared = calls[i].shared
    BY <1>3 DEF Calls, CallPCs
  <1>5. calls' = [calls EXCEPT ![i] = c]
    OBVIOUS
  <1> HIDE DEF c
  <1>6. calls'[i] = c /\ (\A j \in 0..Weeks : j # i => calls'[j] = calls[j])
    BY <1>2, <1>5 DEF CallsInv
  <1>7. heap'[o] = q /\ (\A j \in 0..Weeks : j # o => heap'[j] = heap[j])
    BY <1>2 DEF CallsInv
  <1>8. CallsInv'
    <2>1. calls' \in [0..Weeks -> Calls] /\ heap' \in [0..Weeks -> Claims]
      BY <1>2, <1>4, <1>5 DEF CallsInv
    <2>2. pending # -1 => pending \in 0..Weeks /\ pending # i
      BY <1>2, Constants DEF CallsInv
    <2> QED
      BY <1>2, <1>6, <2>1, <2>2 DEF CallsInv
  <1>9. WaitInv'
    <2> SUFFICES ASSUME NEW j \in 0..Weeks
                 PROVE  /\ calls'[j].pc = "progress" => calls'[j].obj = pending
                        /\ calls'[j].pc = "contract" => j >= 1 /\ calls'[j].obj = j /\ ~calls'[j].shared
                        /\ j >= 1 /\ calls'[j].pc # "idle" => j < Week
                        /\ j >= 1 /\ calls'[j].pc \in {"asks", "progress", "resume"} => recorded[j] = NoProgress
      BY <1>1 DEF WaitInv
    <2>1. CASE j = i
      BY <1>4, <1>6, <2>1 DEF ServiceInv, WaitInv
    <2>2. CASE j # i
      BY <1>6, <2>2 DEF ServiceInv, WaitInv
    <2> QED
      BY <2>1, <2>2
  <1>10. \A j \in 0..Weeks : /\ calls'[j].obj = calls[j].obj /\ calls'[j].shared = calls[j].shared
                             /\ calls'[j].read = calls[j].read
                             /\ calls'[j].pc \in Given <=> calls[j].pc \in Given
    BY <1>4, <1>6 DEF Given
  <1>11. SharedInv'
    <2>1. \A j \in 0..Weeks : HasObject(j)' => HasObject(j)
      BY <1>4, <1>6 DEF HasObject, Given
    <2> QED
      BY <1>10, <2>1, NoNewSharing DEF ServiceInv
  <1>12. \A j, k \in 0..Weeks : DoneWith(j, k) => DoneWith(j, k)'
    BY <1>4, <1>6 DEF DoneWith
  <1>13. 0 \in 0..Weeks /\ 1..Weeks \subseteq 0..Weeks
    BY Constants
  <1>14. DoneWith(i, o)'
    BY <1>4, <1>6 DEF DoneWith
  <1>15. /\ p.week \in Int /\ p.last \in Int /\ q.last \in Int /\ q.week \in Int
         /\ Energy(p) \in Int /\ Energy(q) \in Int
    BY BelowItself DEF Claims
  \* What a call of this object has now, it had before as p; a call of another object has the same.
  <1>16. \A j, k \in 0..Weeks : \A h, s \in Claims :
             At(j, k, h, s)' => /\ k = o => h = q /\ At(j, k, p, s)
                                /\ k # o => At(j, k, h, s)
    BY <1>7, <1>10 DEF At
  <1>17. GivenInv'
    <2> SUFFICES ASSUME NEW j \in 0..Weeks, NEW k \in 0..Weeks, NEW h \in Claims, NEW s \in Claims,
                        At(j, k, h, s)'
                 PROVE  /\ calls'[k].pc \in Given /\ calls'[k].obj = k
                        /\ s \in Known
                        /\ Below(h, s)
                        /\ DoneWith(0, k)' \/ Energy(h) = Energy(s)
                        /\ LastWrite(k, h, s)'
      BY <1>1 DEF GivenInv
    <2> DEFINE g == IF k = o THEN p ELSE h
    <2>1. g \in Claims /\ At(j, k, g, s)
      BY <1>16
    <2> HIDE DEF g
    <2>2. /\ calls[k].pc \in Given /\ calls[k].obj = k /\ s \in Known /\ Below(g, s)
          /\ DoneWith(0, k) \/ Energy(g) = Energy(s)
          /\ LastWrite(k, g, s)
      BY <2>1 DEF ServiceInv, GivenInv
    <2>3. calls'[k].pc \in Given /\ calls'[k].obj = k
      BY <1>10, <2>2
    <2>4. LastWrite(k, g, s)'
      <3>1. CASE g.last = s.last
        BY <3>1 DEF LastWrite
      <3>2. CASE \E n \in 1..Weeks : DoneWith(n, k) /\ g.last = EndEpoch(n)
        <4>1. PICK n \in 1..Weeks : DoneWith(n, k) /\ g.last = EndEpoch(n)
          BY <3>2
        <4>2. DoneWith(n, k)'
          BY <1>12, <1>13, <4>1
        <4> QED
          BY <4>1, <4>2 DEF LastWrite
      <3> QED
        BY <2>2, <3>1, <3>2 DEF LastWrite
    <2>5. CASE k # o
      <3>1. g = h
        BY <2>5 DEF g
      <3> QED
        BY <1>12, <1>13, <2>2, <2>3, <2>4, <3>1
    <2>6. CASE k = o
      <3>1. g = p /\ h = q
        BY <1>16, <2>6 DEF g
      <3>2. s.week \in Int /\ s.last \in Int /\ Energy(s) \in Int
        BY BelowItself DEF Claims
      <3>3. p.week = s.week /\ p.last >= s.last /\ (s.week = 0 => p = s) /\ Energy(p) <= Energy(s)
        BY <2>2, <3>1 DEF Below
      <3>4. q.last >= s.last
        BY <1>15, <3>2, <3>3
      <3>5. Energy(q) <= Energy(s)
        BY <1>15, <3>2, <3>3
      <3>6. s.week = 0 => q = s
        BY <3>3
      <3>7. Below(h, s)
        BY <3>1, <3>3, <3>4, <3>5, <3>6 DEF Below
      <3>8. DoneWith(0, k)' \/ Energy(h) = Energy(s)
        <4>1. CASE i = 0
          BY <1>14, <2>6, <4>1
        <4>2. CASE i # 0
          <5>1. Energy(q) = Energy(p)
            BY <4>2
          <5> QED
            BY <1>12, <1>13, <2>2, <3>1, <5>1
        <4> QED
          BY <4>1, <4>2
      <3>9. LastWrite(k, h, s)'
        <4>1. CASE q.last = p.last
          <5>1. h.last = g.last
            BY <3>1, <4>1
          <5> QED
            BY <2>4, <5>1 DEF LastWrite
        <4>2. CASE i >= 1 /\ q.last = EndEpoch(i)
          <5>1. i \in 1..Weeks
            BY <4>2, Constants
          <5> QED
            BY <1>14, <2>6, <3>1, <4>2, <5>1 DEF LastWrite
        <4> QED
          BY <4>1, <4>2
      <3> QED
        BY <2>2, <2>3, <3>7, <3>8, <3>9
    <2> QED
      BY <2>5, <2>6
  <1>18. DoneInv'
    <2> SUFFICES ASSUME NEW j \in 1..Weeks, NEW k \in 0..Weeks, NEW h \in Claims, NEW s \in Claims,
                        At(j, k, h, s)', calls'[j].pc = "done"
                 PROVE  /\ s.week = j => k = j /\ ~calls'[j].shared /\ h = s
                        /\ s.week # j /\ s.week > 0 => h.last >= EndEpoch(j)
      BY DEF DoneInv
    <2>1. j \in 0..Weeks /\ j >= 1 /\ EndEpoch(j) \in Int /\ s.week \in Int
      BY <1>13, WeekEnds DEF Claims
    <2>2. CASE j = i
      <3>1. k = o /\ h = q
        BY <1>4, <1>6, <1>16, <2>1, <2>2 DEF At
      <3>2. At(j, o, p, s)
        BY <1>16, <2>1, <3>1
      <3>3. s \in Known /\ p.week = s.week
        BY <2>1, <3>2 DEF ServiceInv, GivenInv, Below
      <3>4. recorded[j] = NoProgress
        BY <2>1, <2>2 DEF ServiceInv, WaitInv
      <3>5. s.week # j
        BY <2>1, <3>3, <3>4, Epochs, KnownIsClaim
      <3> QED
        BY <2>1, <2>2, <3>1, <3>3, <3>5
    <2>3. CASE j # i
      <3>1. calls'[j] = calls[j] /\ calls[j].pc = "done"
        BY <1>6, <2>1, <2>3
      <3>2. CASE k # o
        <4>1. At(j, k, h, s)
          BY <1>16, <2>1, <3>2
        <4>2. /\ s.week = j => k = j /\ ~calls[j].shared /\ h = s
              /\ s.week # j /\ s.week > 0 => h.last >= EndEpoch(j)
          BY <3>1, <4>1 DEF ServiceInv, DoneInv
        <4> QED
          BY <3>1, <4>2
      <3>3. CASE k = o
        <4>1. h = q /\ At(j, k, p, s)
          BY <1>16, <2>1, <3>3
        <4>2. /\ s.week = j => k = j /\ ~calls[j].shared /\ p = s
              /\ s.week # j /\ s.week > 0 => p.last >= EndEpoch(j)
          BY <3>1, <4>1 DEF ServiceInv, DoneInv
        \* A week that took its record shares with nobody, and call i has this object.
        <4>3. s.week # j
          <5> SUFFICES ASSUME s.week = j PROVE FALSE
            OBVIOUS
          <5>1. ~calls[j].shared
            BY <4>2
          <5>2. HasObject(j) /\ HasObject(i) /\ calls[i].obj = calls[j].obj
            BY <3>3, <4>1 DEF HasObject, At, Given
          <5> QED
            BY <2>1, <2>3, <5>1, <5>2 DEF ServiceInv, SharedInv
        <4>4. s.week > 0 => q.last >= EndEpoch(j)
          BY <1>15, <2>1, <4>2, <4>3
        <4> QED
          BY <4>1, <4>3, <4>4
      <3> QED
        BY <3>2, <3>3
    <2> QED
      BY <2>2, <2>3
  <1> QED
    BY <1>8, <1>9, <1>11, <1>17, <1>18 DEF ServiceInv

\* A week goes on with the claim progress it was given.
LEMMA ResumeKeeps ==
    ASSUME ServiceInv, ChainInv, ServiceStep, NEW w \in 1..Weeks, Resume(w)
    PROVE  ServiceInv'
  <1>1. w \in 0..Weeks /\ w >= 1 /\ calls[w].pc = "resume"
    BY Constants DEF Resume
  <1>2. CallsInv
    BY DEF ServiceInv
  <1>3. PICK o \in 0..Weeks : calls[w].obj = o
    BY <1>1, <1>2, CallFields
  <1>4. PICK p \in Claims : heap[o] = p
    BY <1>2, CallFields
  <1>5. PICK q : q = Depleted(p, w)
    OBVIOUS
  <1>6. /\ calls' = [calls EXCEPT ![w].pc = "done"] /\ heap' = [heap EXCEPT ![o] = q] /\ pending' = pending
    <2>1. heap' = [heap EXCEPT ![o] = Depleted(heap[o], w)]
      BY <1>3 DEF Resume
    <2> QED
      BY <1>4, <1>5, <2>1 DEF Resume
  <1>7. /\ q \in Claims /\ q.week = p.week /\ q.last >= p.last
        /\ Energy(q) = Energy(p)
        /\ p.week <= 0 => q = p
        /\ p.week > 0 => q.last >= EndEpoch(w)
        /\ q.last = p.last \/ q.last = EndEpoch(w)
    BY <1>5, DepletedFacts
  <1>8. Energy(q) <= Energy(p)
    BY <1>7, BelowItself
  <1> QED
    BY <1>1, <1>3, <1>4, <1>6, <1>7, <1>8, WriteKeeps

\* The check goes on with the claim progress it was given.
LEMMA ResumeCheckKeeps ==
    ASSUME ServiceInv, ChainInv, LockInv, ServiceStep, ResumeCheck
    PROVE  ServiceInv'
  <1>1. 0 \in 0..Weeks /\ calls[0].pc = "resume"
    BY Constants DEF ResumeCheck
  <1>2. CallsInv
    BY DEF ServiceInv
  <1>3. PICK o \in 0..Weeks : calls[0].obj = o
    BY <1>1, <1>2, CallFields
  <1>4. PICK p \in Claims : heap[o] = p
    BY <1>2, CallFields
  <1>5. PICK q : q = IF p.week > 0 THEN Aligned(p) ELSE p
    OBVIOUS
  <1>6. calls' = [calls EXCEPT ![0].pc = "done"] /\ heap' = [heap EXCEPT ![o] = q] /\ pending' = pending
    <2>1. heap' = [heap EXCEPT ![o] = IF heap[o].week > 0 THEN Aligned(heap[o]) ELSE heap[o]]
      BY <1>3 DEF ResumeCheck
    <2> QED
      BY <1>4, <1>5, <2>1 DEF ResumeCheck
  <1>7. q \in Claims /\ q.week = p.week /\ q.last = p.last /\ Energy(q) <= Energy(p) /\ (p.week <= 0 => q = p)
    <2>1. p.week \in Int
      BY DEF Claims
    <2>2. CASE p.week > 0
      <3>1. q = Aligned(p)
        BY <1>5, <2>2
      <3>2. ~(p.week <= 0)
        BY <2>1, <2>2
      <3> QED
        BY <3>1, <3>2, AlignedFacts DEF LockInv
    <2>3. CASE ~(p.week > 0)
      <3>1. q = p
        BY <1>5, <2>3
      <3> QED
        BY <3>1, BelowItself
    <2> QED
      BY <2>2, <2>3
  <1>8. q.last >= p.last
    BY <1>7 DEF Claims
  <1>9. ~(0 >= 1)
    OBVIOUS
  <1> QED
    BY <1>1, <1>3, <1>4, <1>6, <1>7, <1>8, <1>9, WriteKeeps

\* The answer is sent.
LEMMA CloseKeeps ==
    ASSUME ServiceInv, ChainInv, ServiceStep, Close
    PROVE  ServiceInv'
  <1>1. CallsInv
    BY DEF ServiceInv
  <1>2. /\ calls' = [i \in 0..Weeks |-> Idle] /\ heap' = [i \in 0..Weeks |-> NoProgress] /\ pending' = pending
        /\ \A i \in 0..Weeks : calls[i].pc \in {"idle", "done"}
    BY DEF Close
  <1>3. NoProgress \in Claims
    BY Epochs, NoneIsKnown
  <1>4. Idle \in Calls /\ Idle.pc = "idle"
    BY <1>3, Constants DEF Idle, Calls, CallPCs
  <1>5. pending = -1
    <2> SUFFICES ASSUME pending # -1 PROVE FALSE
      OBVIOUS
    <2>1. pending \in -1..Weeks /\ calls[pending].pc = "progress"
      BY <1>1 DEF CallsInv
    <2>2. pending \in 0..Weeks
      BY <2>1, Constants
    <2> QED
      BY <1>2, <2>1, <2>2
  <1>6. \A i \in 0..Weeks : calls'[i].pc = "idle"
    BY <1>2, <1>4
  <1>7. CallsInv'
    BY <1>2, <1>3, <1>4, <1>5, Constants DEF CallsInv
  <1>8. 1..Weeks \subseteq 0..Weeks
    BY Constants
  <1> QED
    BY <1>6, <1>7, <1>8 DEF ServiceInv, WaitInv, SharedInv, GivenInv, DoneInv, HasObject, At, Given

--------------------------------------------------------------------------------
(* The check for outdated contracts.                                       *)

\* A multiple is divided exactly, whatever its sign.
LEMMA QuotientOfMultiple ==
    ASSUME NEW k \in Int
    PROVE  (Locked * k) \div Locked = k
  <1> DEFINE a == Locked * k
             q == a \div Locked
  <1>1. a \in Int
    BY Constants
  <1>2. q \in Int /\ Locked * q <= a /\ a < Locked * q + Locked
    <2> HIDE DEF a
    <2> QED
      BY <1>1, Constants
  <1> HIDE DEF q
  <1>3. Locked * q < Locked * (k + 1) /\ Locked * k < Locked * (q + 1)
    BY <1>2, Constants
  <1>4. q < k + 1 /\ k < q + 1
    BY <1>2, <1>3, Constants
  <1>5. q = k
    BY <1>2, <1>4
  <1> QED
    BY <1>5 DEF q

\* A product of a difference.
LEMMA Distribute ==
    ASSUME NEW x \in Int, NEW y \in Int
    PROVE  /\ Locked * (x - y) = Locked * x - Locked * y
           /\ Locked * (x + y) = Locked * x + Locked * y
           /\ Locked * x \in Int /\ Locked * y \in Int
           /\ Locked * x = Locked * y <=> x = y
  BY Constants

\* Whichever of the two is the more recent, the check compares the energy that the lock has and the
\* one that the claim progress has as of one epoch.
LEMMA ComparesEnergies ==
    ASSUME NEW p \in Claims, lock \in Locks
    PROVE  UserEnergy(p) = Aligned(p).amount <=> Energy(p) = Locked * lock.unlock
  <1> DEFINE s == lock.since
             u == lock.unlock
             a == p.amount
             l == p.last
  <1>1. s \in Int /\ u \in Int /\ a \in Int /\ l \in Int
    BY DEF Locks, Claims
  <1>2. Energy(p) = a + Locked * l
    BY DEF Energy
  <1>3. Locked * (u - s) = Locked * u - Locked * s
    BY <1>1, Distribute
  <1>4. Locked * s \in Int /\ Locked * u \in Int /\ Locked * l \in Int
    BY <1>1, Distribute
  <1>5. CASE s > l
    <2>1. UserEnergy(p) = Locked * (u - s)
      BY <1>1, <1>5 DEF UserEnergy
    <2>2. Aligned(p).amount = a - Locked * (s - l)
      BY <1>5 DEF Aligned, Claims
    <2>3. Locked * (s - l) = Locked * s - Locked * l
      BY <1>1, Distribute
    <2>4. \A x, y, z, b \in Int : (y - x = b - (x - z)) <=> (b + z = y)
      OBVIOUS
    <2> HIDE DEF s, u, a, l
    <2>5. Locked * u - Locked * s = a - (Locked * s - Locked * l) <=> a + Locked * l = Locked * u
      BY <1>1, <1>4, <2>4
    <2>6. UserEnergy(p) = Locked * u - Locked * s /\ Aligned(p).amount = a - (Locked * s - Locked * l)
      BY <1>3, <2>1, <2>2, <2>3
    <2> QED
      BY <1>2, <2>5, <2>6 DEF u
  <1>6. CASE l > s
    <2>1. UserEnergy(p) = Locked * (u - s) - Locked * (l - s)
      BY <1>6 DEF UserEnergy
    <2>2. Aligned(p).amount = a
      BY <1>1, <1>6 DEF Aligned
    <2>3. Locked * (l - s) = Locked * l - Locked * s
      BY <1>1, Distribute
    <2>4. \A x, y, z, b \in Int : ((y - x) - (z - x) = b) <=> (b + z = y)
      OBVIOUS
    <2> HIDE DEF s, u, a, l
    <2>5. (Locked * u - Locked * s) - (Locked * l - Locked * s) = a <=> a + Locked * l = Locked * u
      BY <1>1, <1>4, <2>4
    <2>6. UserEnergy(p) = (Locked * u - Locked * s) - (Locked * l - Locked * s)
      BY <1>3, <2>1, <2>3
    <2> QED
      BY <1>2, <2>2, <2>5, <2>6 DEF u
  <1>7. CASE l = s
    <2>1. UserEnergy(p) = Locked * (u - s) /\ Aligned(p).amount = a
      BY <1>1, <1>7 DEF UserEnergy, Aligned
    <2>2. \A x, y, b \in Int : (y - x = b) <=> (b + x = y)
      OBVIOUS
    <2> HIDE DEF s, u, a, l
    <2>3. Locked * u - Locked * s = a <=> a + Locked * s = Locked * u
      BY <1>1, <1>4, <2>2
    <2> QED
      BY <1>2, <1>3, <1>7, <2>1, <2>3 DEF u
  <1> QED
    BY <1>1, <1>5, <1>6, <1>7

\* The check is right about a claim progress that others have depleted in the meantime.
LEMMA CheckIsRight ==
    ASSUME ChainInv, LockInv, NEW p \in Claims, NEW r \in Known, p.week = r.week, Energy(p) = Energy(r)
    PROVE  Outdated(p) <=> Overtaken(r)
  <1>1. r \in Claims /\ r.week \in Int /\ r.last \in Int
    BY Epochs, KnownIsClaim
  <1>2. CASE ~(r.week > 0)
    BY <1>2 DEF Outdated, Overtaken
  <1>3. CASE r.week > 0
    <2>1. PICK k \in Int : r.amount = Locked * k
      BY <1>3 DEF Known
    <2>2. r.amount \div Locked = k
      BY <2>1, QuotientOfMultiple
    <2>3. lock \in Locks /\ lock.unlock \in Int
      BY DEF LockInv, Locks
    <2>4. Energy(r) = Locked * k + Locked * r.last
      BY <2>1 DEF Energy
    <2>5. Locked * k + Locked * r.last = Locked * (r.last + k)
      <3>1. Locked * (r.last + k) = Locked * r.last + Locked * k /\ Locked * r.last \in Int /\ Locked * k \in Int
        BY <1>1, Distribute
      <3>2. \A x, y \in Int : x + y = y + x
        OBVIOUS
      <3> QED
        BY <3>1, <3>2
    <2>6. r.last + k \in Int
      BY <1>1
    <2>7. Energy(p) = Locked * lock.unlock <=> r.last + k = lock.unlock
      <3>1. Locked * (r.last + k) = Locked * lock.unlock <=> r.last + k = lock.unlock
        BY <2>3, <2>6, Distribute
      <3> QED
        BY <2>4, <2>5, <3>1
    <2>8. UserEnergy(p) = Aligned(p).amount <=> r.last + k = lock.unlock
      BY <2>3, <2>7, ComparesEnergies
    <2>9. Outdated(p) <=> ~(UserEnergy(p) = Aligned(p).amount) \/ r.week # weekNow
      BY <1>3 DEF Outdated
    <2>10. Overtaken(r) <=> r.week # weekNow \/ r.last + k # lock.unlock
      BY <1>3, <2>2 DEF Overtaken
    <2> QED
      BY <2>8, <2>9, <2>10
  <1> QED
    BY <1>2, <1>3

\* So is the alarm it leaves.
LEMMA ResumeCheckIsRight ==
    ASSUME ServiceInv, ChainInv, LockInv, ResumeCheck
    PROVE  AlarmInv'
  <1>1. 0 \in 0..Weeks /\ calls[0].pc = "resume"
    BY Constants DEF ResumeCheck
  <1>2. CallsInv
    BY DEF ServiceInv
  <1>3. PICK o \in 0..Weeks : calls[0].obj = o
    BY <1>1, <1>2, CallFields
  <1>4. PICK p \in Claims : heap[o] = p
    BY <1>2, CallFields
  <1>5. PICK r \in Claims : calls[0].read = r
    BY <1>1, <1>2, CallFields
  <1>6. At(0, o, p, r) /\ ~DoneWith(0, o)
    BY <1>1, <1>3, <1>4, <1>5 DEF At, DoneWith, Given
  <1>7. r \in Known /\ p.week = r.week /\ Energy(p) = Energy(r)
    BY <1>1, <1>6 DEF ServiceInv, GivenInv, Below
  <1>8. Outdated(p) <=> Overtaken(r)
    BY <1>7, CheckIsRight
  <1>9. Outdated(p) \in BOOLEAN /\ Overtaken(r) \in BOOLEAN
    BY DEF Outdated, Overtaken
  <1>10. alarm' = [found |-> Outdated(p), truth |-> Overtaken(r)]
    BY <1>3, <1>4, <1>5 DEF ResumeCheck
  <1> DEFINE f == Outdated(p)
             t == Overtaken(r)
  <1>11. f \in BOOLEAN /\ t \in BOOLEAN /\ f = t
    BY <1>8, <1>9
  <1>12. alarm' = [found |-> f, truth |-> t]
    BY <1>10
  <1> HIDE DEF f, t
  <1> QED
    BY <1>11, <1>12 DEF AlarmInv

--------------------------------------------------------------------------------
(* The invariant of all steps.                                             *)

\* It holds at first.
LEMMA InitInv == Init => IInv /\ AlarmInv
  <1> SUFFICES ASSUME Init PROVE IInv /\ AlarmInv
    OBVIOUS
  <1>1. /\ epoch = FirstEpoch /\ progress = NoProgress /\ recorded = [w \in 1..Weeks |-> NoProgress]
        /\ stored = NotCached /\ weekNow = 1 /\ active = 0 /\ closed = 0 /\ pending = -1
        /\ calls = [i \in 0..Weeks |-> Idle] /\ heap = [i \in 0..Weeks |-> NoProgress]
        /\ alarm = NoAlarm
    BY DEF Init
  <1>2. PICK i \in 1..Len(LockOptions) :
          lock = [unlock |-> epoch + NewLock(epoch, LockOptions[i].epochs), since |-> epoch, changes |-> 0]
    BY DEF Init
  <1>3. epoch \in Nat
    BY <1>1, Constants
  <1>4. Week = 1
    <2>1. StartEpoch(1) = FirstEpoch /\ 1 \in Nat \ {0} /\ EndEpoch(1) = FirstEpoch + EpochsInWeek - 1
      BY Constants DEF StartEpoch, EndEpoch
    <2>2. StartEpoch(1) <= epoch /\ epoch <= EndEpoch(1)
      BY <1>1, <2>1, Constants
    <2> QED
      BY <1>3, <2>1, <2>2, WeekIs DEF Week
  <1>5. NoProgress \in Known /\ NoProgress \in Claims
    BY <1>3, NoneIsKnown
  <1>6. ChainInv
    <2>1. EndEpoch(1) \in Nat /\ EndEpoch(1) <= EndEpoch(Weeks) /\ EndEpoch(Weeks) \in Nat
          /\ StartEpoch(1) <= EndEpoch(1) /\ 1 \in Nat \ {0} /\ StartEpoch(1) \in Nat
      BY WeekEnds, Constants
    <2>2. StartEpoch(1) = FirstEpoch
      BY Constants DEF StartEpoch
    <2>3. epoch \in FirstEpoch..EndEpoch(Weeks)
      BY <1>1, <2>1, <2>2, Constants
    <2> QED
      BY <1>1, <1>5, <2>3 DEF ChainInv
  <1>7. LockInv
    <2> DEFINE n == NewLock(epoch, LockOptions[i].epochs)
    <2>1. n \in 1..LongestLock /\ LongestLock \in Nat
      BY <1>3, NewLockFits
    <2>2. lock = [unlock |-> epoch + n, since |-> epoch, changes |-> 0]
      BY <1>2
    <2> HIDE DEF n
    <2>3. epoch + n \in Nat /\ epoch + n <= epoch + LongestLock /\ epoch <= epoch
      BY <1>3, <2>1
    <2> QED
      BY <1>3, <2>2, <2>3 DEF LockInv, Locks
  <1>8. CacheInv
    <2>1. progress.week = 0
      BY <1>1 DEF NoProgress
    <2> QED
      BY <1>1, <1>4, <2>1, Constants DEF CacheInv
  <1>9. Idle \in Calls /\ Idle.pc = "idle"
    BY <1>5, Constants DEF Idle, Calls, CallPCs
  <1>10. \A j \in 0..Weeks : calls[j].pc = "idle"
    BY <1>1, <1>9
  <1>11. CallsInv
    BY <1>1, <1>5, <1>9, Constants DEF CallsInv
  <1>12. 1..Weeks \subseteq 0..Weeks
    BY Constants
  <1>13. WaitInv /\ SharedInv /\ GivenInv /\ DoneInv
    BY <1>10, <1>12 DEF WaitInv, SharedInv, GivenInv, DoneInv, HasObject, At, Given
  <1>14. AlarmInv
    BY <1>1 DEF AlarmInv, NoAlarm
  <1> QED
    BY <1>6, <1>7, <1>8, <1>11, <1>13, <1>14 DEF IInv

\* Steps of the chain, and of the cached weeks alone.
ChainStep ==
    \/ NextEpoch
    \/ \E i \in 1..Len(LockOptions) : Relock(LockOptions[i].epochs)
    \/ UpdateEnergy
    \/ HandleUpdateUserEnergy \/ Expire \/ Collect \/ CountUndistributed

\* Every step keeps it.
LEMMA StepInv == IInv /\ AlarmInv /\ [Next]_vars => (IInv /\ AlarmInv)'
  <1> SUFFICES ASSUME IInv, AlarmInv, [Next]_vars PROVE (IInv /\ AlarmInv)'
    OBVIOUS
  <1>1. ChainInv /\ LockInv /\ CacheInv /\ ServiceInv
    BY DEF IInv, ServiceInv
  <1>2. SUFFICES ChainInv' /\ LockInv' /\ CacheInv' /\ ServiceInv' /\ AlarmInv'
    BY DEF IInv, ServiceInv
  <1>3. CASE ChainStep
    <2>1. calls' = calls /\ heap' = heap /\ pending' = pending /\ alarm' = alarm
      BY <1>3 DEF ChainStep, NextEpoch, Relock, UpdateEnergy, HandleUpdateUserEnergy, Expire, Collect,
                  CountUndistributed
    <2>2. ChainInv' /\ LockInv' /\ CacheInv' /\ Grows
      <3>1. CASE NextEpoch
        BY <1>1, <3>1, NextEpochKeeps
      <3>2. CASE \E i \in 1..Len(LockOptions) : Relock(LockOptions[i].epochs)
        BY <1>1, <3>2, RelockKeeps
      <3>3. CASE UpdateEnergy
        BY <1>1, <3>3, UpdateEnergyKeeps
      <3>4. CASE HandleUpdateUserEnergy \/ Expire \/ Collect \/ CountUndistributed
        <4>1. UNCHANGED <<epoch, lock, progress, recorded>>
          BY <3>4 DEF HandleUpdateUserEnergy, Expire, Collect, CountUndistributed, chain
        <4> QED
          BY <1>1, <3>4, <4>1, CachesKeep
      <3> QED
        BY <1>3, <3>1, <3>2, <3>3, <3>4 DEF ChainStep
    <2>3. ServiceInv'
      BY <1>1, <2>1, <2>2, ChainSteps
    <2>4. AlarmInv'
      BY <2>1 DEF AlarmInv
    <2> QED
      BY <2>2, <2>3, <2>4
  \* A step of the service leaves the chain alone; only Answer writes to the cache.
  <1>4. ASSUME ServiceStep, Answer \/ UNCHANGED <<cache, closed>>, ServiceInv', AlarmInv'
        PROVE  ChainInv' /\ LockInv' /\ CacheInv' /\ ServiceInv' /\ AlarmInv'
    BY <1>1, <1>4, CachesKeep DEF ServiceStep
  <1>5. CASE \E missing \in SUBSET Window \ {{}} : Open(missing)
    <2>1. PICK missing \in SUBSET Window : Open(missing)
      BY <1>5
    <2>2. ServiceStep /\ UNCHANGED <<cache, closed>> /\ alarm' = alarm
      BY <2>1 DEF Open, ServiceStep, chain
    <2>3. ServiceInv'
      BY <1>1, <2>1, <2>2, OpenKeeps
    <2> QED
      BY <1>4, <2>2, <2>3 DEF AlarmInv
  <1>6. CASE Check
    <2> DEFINE c == [Idle EXCEPT !.pc = "asks"]
    <2>1. /\ ServiceStep /\ UNCHANGED <<cache, closed>> /\ alarm' = alarm
          /\ calls[0].pc = "idle" /\ calls' = [calls EXCEPT ![0] = c] /\ heap' = heap /\ pending' = pending
      BY <1>6 DEF Check, ServiceStep, chain
    <2>2. NoProgress \in Claims
      BY <1>1, Epochs, NoneIsKnown
    <2>3. c \in Calls /\ c.pc = "asks"
      <3>1. Idle \in Calls
        BY <2>2, Constants DEF Idle, Calls, CallPCs
      <3> QED
        BY <3>1 DEF Calls, CallPCs
    <2> HIDE DEF c
    <2>4. 0 \in 0..Weeks /\ ~(0 >= 1)
      BY Constants
    <2>5. ServiceInv'
      BY <1>1, <2>1, <2>3, <2>4, AsksKeeps
    <2> QED
      BY <1>4, <2>1, <2>5 DEF AlarmInv
  <1>7. CASE \E w \in 1..Weeks : Recorded(w)
    <2>1. PICK w \in 1..Weeks : Recorded(w)
      BY <1>7
    <2>2. ServiceStep /\ UNCHANGED <<cache, closed>> /\ alarm' = alarm
      BY <2>1 DEF Recorded, ServiceStep, chain
    <2>3. ServiceInv'
      BY <1>1, <2>1, <2>2, RecordedKeeps
    <2> QED
      BY <1>4, <2>2, <2>3 DEF AlarmInv
  <1>8. CASE \E w \in 1..Weeks : NotRecorded(w)
    <2>1. PICK w \in 1..Weeks : NotRecorded(w)
      BY <1>8
    <2>2. /\ ServiceStep /\ UNCHANGED <<cache, closed>> /\ alarm' = alarm
          /\ heap' = heap /\ pending' = pending
          /\ calls[w].pc = "contract" /\ recorded[w] = NoProgress
          /\ calls' = [calls EXCEPT ![w].pc = "asks"]
      BY <2>1 DEF NotRecorded, ServiceStep, chain
    <2> DEFINE c == [calls[w] EXCEPT !.pc = "asks"]
    <2>3. w \in 0..Weeks
      BY Constants
    <2>4. calls[w] \in Calls
      BY <1>1, <2>3 DEF ServiceInv, CallsInv
    <2>5. c \in Calls /\ c.pc = "asks" /\ calls' = [calls EXCEPT ![w] = c]
      BY <2>2, <2>4 DEF Calls, CallPCs
    <2> HIDE DEF c
    <2>6. ServiceInv'
      BY <1>1, <2>2, <2>3, <2>5, AsksKeeps
    <2> QED
      BY <1>4, <2>2, <2>6 DEF AlarmInv
  <1>9. CASE \E w \in 1..Weeks : Resume(w)
    <2>1. PICK w \in 1..Weeks : Resume(w)
      BY <1>9
    <2>2. ServiceStep /\ UNCHANGED <<cache, closed>> /\ alarm' = alarm
      BY <2>1 DEF Resume, ServiceStep, chain
    <2>3. ServiceInv'
      BY <1>1, <2>1, <2>2, ResumeKeeps
    <2> QED
      BY <1>4, <2>2, <2>3 DEF AlarmInv
  <1>10. CASE \E i \in 0..Weeks : Ask(i)
    <2>1. PICK i \in 0..Weeks : Ask(i)
      BY <1>10
    <2>2. ServiceStep /\ UNCHANGED <<cache, closed>> /\ alarm' = alarm /\ calls[i].pc = "asks"
      BY <2>1 DEF Ask, ServiceStep, chain
    <2>3. ServiceInv'
      BY <1>1, <2>1, <2>2, HitKeeps, MissKeeps DEF Ask
    <2> QED
      BY <1>4, <2>2, <2>3 DEF AlarmInv
  <1>11. CASE Answer
    <2>1. ServiceStep /\ alarm' = alarm
      BY <1>11 DEF Answer, ServiceStep, chain
    <2>2. ServiceInv'
      BY <1>1, <1>11, <2>1, AnswerKeeps
    <2> QED
      BY <1>4, <1>11, <2>1, <2>2 DEF AlarmInv
  <1>12. CASE ResumeCheck
    <2>1. ServiceStep /\ UNCHANGED <<cache, closed>>
      BY <1>12 DEF ResumeCheck, ServiceStep, chain
    <2>2. ServiceInv' /\ AlarmInv'
      BY <1>1, <1>12, <2>1, ResumeCheckKeeps, ResumeCheckIsRight
    <2> QED
      BY <1>4, <2>1, <2>2
  <1>13. CASE Close
    <2>1. ServiceStep /\ UNCHANGED <<cache, closed>> /\ alarm' = NoAlarm
      BY <1>13 DEF Close, ServiceStep, chain
    <2>2. ServiceInv'
      BY <1>1, <1>13, <2>1, CloseKeeps
    <2>3. AlarmInv'
      BY <2>1 DEF AlarmInv, NoAlarm
    <2> QED
      BY <1>4, <2>1, <2>2, <2>3
  <1>14. CASE UNCHANGED vars
    <2>1. /\ ServiceStep /\ UNCHANGED <<cache, closed>> /\ alarm' = alarm
          /\ UNCHANGED <<calls, heap, pending>>
      BY <1>14 DEF vars, ServiceStep, cache
    <2>2. ChainInv' /\ Grows
      BY <1>1, <2>1, CachesKeep DEF ServiceStep
    <2>3. ServiceInv'
      BY <1>1, <2>1, <2>2, ChainSteps
    <2> QED
      BY <1>4, <2>1, <2>3 DEF AlarmInv
  <1> QED
    BY <1>3, <1>5, <1>6, <1>7, <1>8, <1>9, <1>10, <1>11, <1>12, <1>13, <1>14 DEF Next, ChainStep

\* It always holds.
LEMMA AlwaysInv == Spec => [](IInv /\ AlarmInv)
  BY InitInv, StepInv, PTL DEF Spec

--------------------------------------------------------------------------------
(* Results.                                                                *)

\* Types follow.
LEMMA TypesFollow == IInv => TypeOK
  <1> SUFFICES ASSUME IInv PROVE TypeOK
    OBVIOUS
  <1>1. ChainInv /\ CacheInv /\ CallsInv /\ WaitInv
    BY DEF IInv
  <1>2. epoch \in Nat /\ Week \in 1..Weeks
    BY <1>1, Epochs
  <1>3. Known \subseteq Progress
    BY <1>2, Constants DEF Known, Progress
  <1>4. NotCached \in Progress
    BY <1>2, Constants DEF NotCached, Progress
  <1>5. \A w \in 1..Weeks : WeekOf(StartEpoch(w)) = w /\ WeekOf(EndEpoch(w)) = w
    <2> SUFFICES ASSUME NEW w \in 1..Weeks
                 PROVE  WeekOf(StartEpoch(w)) = w /\ WeekOf(EndEpoch(w)) = w
      OBVIOUS
    <2>1. StartEpoch(w) \in Nat /\ EndEpoch(w) \in Nat /\ StartEpoch(w) <= EndEpoch(w) /\ w \in Nat \ {0}
      BY WeekEnds, Constants
    <2>2. StartEpoch(w) <= StartEpoch(w) /\ EndEpoch(w) <= EndEpoch(w)
      BY <2>1
    <2> QED
      BY <2>1, <2>2, WeekIs
  <1>6. pending # -1 => calls[pending].pc = "progress" /\ calls[pending].obj = pending
    <2> SUFFICES ASSUME pending # -1 PROVE calls[pending].pc = "progress" /\ calls[pending].obj = pending
      OBVIOUS
    <2>1. pending \in -1..Weeks /\ calls[pending].pc = "progress"
      BY <1>1 DEF CallsInv
    <2>2. pending \in 0..Weeks
      BY <2>1, Constants
    <2> QED
      BY <1>1, <2>1, <2>2 DEF WaitInv
  <1>7. \A i \in 0..Weeks : calls[i].pc = "progress" => calls[i].obj = pending
    BY <1>1 DEF WaitInv
  <1>8. /\ epoch \in FirstEpoch..EndEpoch(Weeks) /\ WeekOf(epoch) \in 1..Weeks
        /\ weekNow \in {WeekOf(epoch), WeekOf(epoch) - 1} /\ active \in 0..progress.week
    BY <1>1, <1>2 DEF ChainInv, CacheInv, Week
  <1>9. progress \in Progress /\ stored \in Progress /\ recorded \in [1..Weeks -> Progress]
    <2>1. progress \in Known /\ stored \in Known \cup {NotCached} /\ recorded \in [1..Weeks -> Known]
      BY <1>1 DEF ChainInv, CacheInv
    <2> HIDE DEF Known, Progress
    <2> QED
      BY <1>3, <1>4, <2>1
  <1> QED
    BY <1>5, <1>6, <1>7, <1>8, <1>9 DEF TypeOK

\* Later epochs leave less of an energy.
LEMMA LockedMonotone ==
    ASSUME NEW x \in Int, NEW y \in Int, x <= y
    PROVE  Locked * x <= Locked * y /\ Locked * x \in Int /\ Locked * y \in Int
  BY Constants

\* What is left of energy h at its epoch and of energy r at the end of week w, when h was r.
LEMMA Remains ==
    ASSUME NEW w \in 1..Weeks, NEW h \in Claims, NEW r \in Claims,
           Below(h, r), r.week >= 0, r.week > 0 => h.last >= EndEpoch(w)
    PROVE  /\ h.amount <= Depleted(r, w).amount
           /\ Energy(h) = Energy(r) /\ h.last \in {r.last, EndEpoch(w)} => h.amount = Depleted(r, w).amount
  <1>1. /\ h.week \in Int /\ h.amount \in Int /\ h.last \in Int
        /\ r.week \in Int /\ r.amount \in Int /\ r.last \in Int
    BY DEF Claims
  <1>2. EndEpoch(w) \in Int
    BY WeekEnds
  <1> DEFINE d == Depleted(r, w)
  <1>3. /\ d \in Claims /\ d.week = r.week /\ d.last >= r.last /\ Energy(d) = Energy(r)
        /\ (r.week <= 0 => d = r) /\ (r.week > 0 => d.last >= EndEpoch(w))
        /\ (d.last = r.last \/ d.last = EndEpoch(w))
    BY DepletedFacts
  <1> HIDE DEF d
  <1>4. d.amount \in Int /\ d.last \in Int
    BY <1>3 DEF Claims
  <1>5. CASE r.week = 0
    <2>1. h = r /\ d = r
      BY <1>3, <1>5 DEF Below
    <2> QED
      BY <1>1, <2>1 DEF d
  <1>6. CASE r.week > 0
    <2>1. d.last <= h.last
      BY <1>1, <1>2, <1>3, <1>4, <1>6 DEF Below
    <2>2. Locked * d.last <= Locked * h.last /\ Locked * d.last \in Int /\ Locked * h.last \in Int
      BY <1>1, <1>4, <2>1, LockedMonotone
    <2>3. h.amount + Locked * h.last <= d.amount + Locked * d.last
      BY <1>3 DEF Below, Energy
    <2>4. h.amount <= d.amount
      <3>1. \A a, b, x, y \in Int : a + x <= b + y /\ y <= x => a <= b
        OBVIOUS
      <3> QED
        BY <1>1, <1>4, <2>2, <2>3, <3>1
    <2>5. Energy(h) = Energy(r) /\ h.last \in {r.last, EndEpoch(w)} => h.amount = d.amount
      <3> SUFFICES ASSUME Energy(h) = Energy(r), h.last \in {r.last, EndEpoch(w)} PROVE h.amount = d.amount
        OBVIOUS
      <3>1. h.last >= r.last /\ h.last >= EndEpoch(w)
        BY <1>6 DEF Below
      <3>2. h.last = d.last
        BY <1>1, <1>2, <1>3, <1>4, <1>6, <3>1
      <3>3. h.amount + Locked * h.last = d.amount + Locked * h.last
        BY <1>3, <3>2 DEF Energy
      <3>4. \A a, b, x \in Int : a + x = b + x => a = b
        OBVIOUS
      <3> QED
        BY <1>1, <1>4, <2>2, <3>3, <3>4
    <2> QED
      BY <2>4, <2>5 DEF d
  <1> QED
    BY <1>1, <1>5, <1>6

\* The object of a week that is done, and what the week had read.
LEMMA DoneWeek ==
    ASSUME IInv, NEW w \in 1..Weeks, calls[w].pc = "done"
    PROVE  \E o \in 0..Weeks : \E h, r \in Claims :
             /\ At(w, o, h, r)
             /\ Result(w) = h.amount
             /\ Expected(w) = IF r.week = w THEN r.amount ELSE Depleted(r, w).amount
             /\ r.week >= 0 /\ Below(h, r) /\ LastWrite(o, h, r)
             /\ DoneWith(0, o) \/ Energy(h) = Energy(r)
             /\ r.week = w => h = r
             /\ r.week # w /\ r.week > 0 => h.last >= EndEpoch(w)
  <1>1. w \in 0..Weeks /\ CallsInv /\ ChainInv
    BY Constants DEF IInv
  <1>2. PICK o \in 0..Weeks : calls[w].obj = o
    BY <1>1, CallFields
  <1>3. PICK h \in Claims : heap[o] = h
    BY <1>1, CallFields
  <1>4. PICK r \in Claims : calls[w].read = r
    BY <1>1, CallFields
  <1>5. At(w, o, h, r)
    BY <1>2, <1>3, <1>4 DEF At, Given
  <1>6. /\ r \in Known /\ Below(h, r) /\ LastWrite(o, h, r)
        /\ DoneWith(0, o) \/ Energy(h) = Energy(r)
    BY <1>1, <1>5 DEF IInv, GivenInv
  <1>7. /\ r.week = w => h = r
        /\ r.week # w /\ r.week > 0 => h.last >= EndEpoch(w)
    BY <1>5 DEF IInv, DoneInv
  <1>8. r.week >= 0
    <2>1. r.week \in 0..Weeks
      BY <1>1, <1>6, Epochs, KnownIsClaim
    <2> QED
      BY <2>1, Constants
  <1>9. /\ Result(w) = h.amount
        /\ Expected(w) = IF r.week = w THEN r.amount ELSE Depleted(r, w).amount
    BY <1>2, <1>3, <1>4 DEF Result, Expected
  <1> QED
    BY <1>5, <1>6, <1>7, <1>8, <1>9

\* In whichever order the calls that share a claim progress go on, no week is quoted more energy than
\* the claim progress leaves at its end (userEnergyForWeekRaw).
THEOREM NeverOverstated == Spec => []EnergyNeverOverstated
  <1>1. IInv => EnergyNeverOverstated
    <2> SUFFICES ASSUME IInv, NEW w \in 1..Weeks, calls[w].pc = "done"
                 PROVE  Result(w) <= Expected(w)
      BY TypesFollow DEF EnergyNeverOverstated
    <2>1. PICK o \in 0..Weeks : \E h, r \in Claims :
             /\ At(w, o, h, r)
             /\ Result(w) = h.amount
             /\ Expected(w) = IF r.week = w THEN r.amount ELSE Depleted(r, w).amount
             /\ r.week >= 0 /\ Below(h, r) /\ LastWrite(o, h, r)
             /\ DoneWith(0, o) \/ Energy(h) = Energy(r)
             /\ r.week = w => h = r
             /\ r.week # w /\ r.week > 0 => h.last >= EndEpoch(w)
      BY DoneWeek
    <2>2. PICK h \in Claims, r \in Claims :
             /\ Result(w) = h.amount
             /\ Expected(w) = IF r.week = w THEN r.amount ELSE Depleted(r, w).amount
             /\ r.week >= 0 /\ Below(h, r)
             /\ r.week = w => h = r
             /\ r.week # w /\ r.week > 0 => h.last >= EndEpoch(w)
      BY <2>1
    <2>3. CASE r.week = w
      <3>1. Result(w) = r.amount /\ Expected(w) = r.amount /\ r.amount \in Int
        BY <2>2, <2>3 DEF Claims
      <3> QED
        BY <3>1
    <2>4. CASE r.week # w
      <3>1. h.amount <= Depleted(r, w).amount
        BY <2>2, <2>4, Remains
      <3> QED
        BY <2>2, <2>4, <3>1
    <2> QED
      BY <2>3, <2>4
  <1> QED
    BY <1>1, AlwaysInv, PTL

\* A week is quoted less only when a call that waited with it, of a later week or the check, wrote to
\* the one object they were given.
THEOREM LessOnlyWhenShared == Spec => []ExactWhenAlone
  <1>1. IInv => ExactWhenAlone
    <2> SUFFICES ASSUME IInv, NEW w \in 1..Weeks, calls[w].pc = "done", Result(w) # Expected(w)
                 PROVE  /\ calls[w].shared
                        /\ \E i \in {0} \cup (w + 1)..Weeks : calls[i].obj = calls[w].obj /\ calls[i].pc = "done"
      BY DEF ExactWhenAlone
    <2>1. PICK o \in 0..Weeks : \E h, r \in Claims :
             /\ At(w, o, h, r)
             /\ Result(w) = h.amount
             /\ Expected(w) = IF r.week = w THEN r.amount ELSE Depleted(r, w).amount
             /\ r.week >= 0 /\ Below(h, r) /\ LastWrite(o, h, r)
             /\ DoneWith(0, o) \/ Energy(h) = Energy(r)
             /\ r.week = w => h = r
             /\ r.week # w /\ r.week > 0 => h.last >= EndEpoch(w)
      BY DoneWeek
    <2>2. PICK h \in Claims, r \in Claims :
             /\ At(w, o, h, r)
             /\ Result(w) = h.amount
             /\ Expected(w) = IF r.week = w THEN r.amount ELSE Depleted(r, w).amount
             /\ r.week >= 0 /\ Below(h, r) /\ LastWrite(o, h, r)
             /\ DoneWith(0, o) \/ Energy(h) = Energy(r)
             /\ r.week = w => h = r
             /\ r.week # w /\ r.week > 0 => h.last >= EndEpoch(w)
      BY <2>1
    <2>3. calls[w].obj = o
      BY <2>2 DEF At
    <2>4. r.week # w
      BY <2>2
    \* Otherwise the writes were those of earlier weeks and of its own.
    <2>5. PICK i \in {0} \cup (w + 1)..Weeks : DoneWith(i, o)
      <3> SUFFICES ASSUME \A i \in {0} \cup (w + 1)..Weeks : ~DoneWith(i, o) PROVE FALSE
        OBVIOUS
      <3>1. Energy(h) = Energy(r)
        BY <2>2
      <3>2. h.last \in {r.last, EndEpoch(w)}
        <4>1. CASE r.week = 0
          BY <2>2, <4>1 DEF Below
        <4>2. CASE r.week # 0
          <5>1. CASE h.last = r.last
            BY <5>1
          <5>2. CASE \E j \in 1..Weeks : DoneWith(j, o) /\ h.last = EndEpoch(j)
            <6>1. PICK j \in 1..Weeks : DoneWith(j, o) /\ h.last = EndEpoch(j)
              BY <5>2
            <6>2. j <= w
              <7>1. j > w => j \in {0} \cup (w + 1)..Weeks
                BY Constants
              <7> QED
                BY <6>1, <7>1, Constants
            <6>3. EndEpoch(j) <= EndEpoch(w) /\ EndEpoch(j) \in Int /\ EndEpoch(w) \in Int
              BY <6>2, WeekEnds, Constants
            <6>4. h.last >= EndEpoch(w)
              BY <2>2, <2>4, <4>2 DEF Claims
            <6> QED
              BY <6>1, <6>3, <6>4
          <5> QED
            BY <2>2, <5>1, <5>2 DEF LastWrite
        <4> QED
          BY <4>1, <4>2
      <3>3. h.amount = Depleted(r, w).amount
        BY <2>2, <2>4, <3>1, <3>2, Remains
      <3> QED
        BY <2>2, <2>4, <3>3
    <2>6. i \in 0..Weeks /\ i # w /\ w \in 0..Weeks
      BY Constants
    <2>7. calls[i].obj = o /\ calls[i].pc = "done"
      BY <2>5 DEF DoneWith
    <2>8. calls[w].shared
      BY <2>3, <2>6, <2>7 DEF IInv, SharedInv, HasObject, Given
    <2> QED
      BY <2>3, <2>7, <2>8
  <1> QED
    BY <1>1, AlwaysInv, PTL

\* The check finds exactly the claim progress of an earlier week or of another lock
\* (isEnergyOutdated), whatever the weeks made of the object that it was given.
THEOREM CheckFindsTheOutdated == Spec => []OutdatedIsRight
  <1>1. AlarmInv => OutdatedIsRight
    BY DEF AlarmInv, OutdatedIsRight
  <1> QED
    BY <1>1, AlwaysInv, PTL

\* No week is offered to the user again once it was collected or counted among the undistributed
\* rewards, unless the cached week lags.
THEOREM WeeksHaveOneClaimant == Spec => OneClaimant
  <1>1. IInv /\ [Next]_vars =>
          [\A w \in 1..Weeks :
             /\ calls[w].pc = "idle" /\ calls'[w].pc # "idle" /\ weekNow = WeekOf(epoch)
             => w > closed]_vars
    <2> SUFFICES ASSUME IInv, [Next]_vars, NEW w \in 1..Weeks,
                        calls[w].pc = "idle", calls'[w].pc # "idle", weekNow = Week
                 PROVE  w > closed
      BY DEF Week
    <2>1. w \in 0..Weeks /\ w # 0
      BY Constants
    <2>2. ChainInv /\ CacheInv /\ CallsInv
      BY DEF IInv
    <2>3. ~UNCHANGED calls
      OBVIOUS
    <2>4. PICK missing \in SUBSET Window : w \in missing
      <3>1. CASE ChainStep \/ UNCHANGED vars
        BY <2>3, <3>1 DEF ChainStep, NextEpoch, Relock, UpdateEnergy, HandleUpdateUserEnergy, Expire,
                          Collect, CountUndistributed, vars
      <3>2. CASE \E m \in SUBSET Window \ {{}} : Open(m)
        <4>1. PICK m \in SUBSET Window : Open(m)
          BY <3>2
        <4>2. w \in m
          BY <2>1, <4>1 DEF Open
        <4> QED
          BY <4>2
      <3>3. CASE Check
        BY <2>1, <2>2, <3>3 DEF Check, CallsInv
      <3>4. ASSUME NEW v \in 1..Weeks, Recorded(v) \/ NotRecorded(v) \/ Resume(v)
            PROVE  FALSE
        <4>1. calls[v].pc # "idle"
          BY <3>4 DEF Recorded, NotRecorded, Resume
        <4>2. calls'[w] = calls[w]
          BY <2>1, <2>2, <3>4, <4>1 DEF Recorded, NotRecorded, Resume, CallsInv
        <4> QED
          BY <4>2
      <3>5. ASSUME NEW i \in 0..Weeks, Ask(i)
            PROVE  FALSE
        <4>1. calls[i].pc = "asks"
          BY <3>5 DEF Ask
        <4>2. CASE Hit(i)
          BY <2>1, <2>2, <4>1, <4>2 DEF Hit, CallsInv
        <4>3. CASE Miss(i)
          <5>1. CASE pending = -1
            BY <2>1, <2>2, <4>1, <4>3, <5>1 DEF Miss, CallsInv
          <5>2. CASE pending # -1
            <6>1. calls[pending].pc = "progress" /\ pending # w /\ i # w
              BY <2>2, <4>1, <5>2 DEF CallsInv
            <6>2. calls'[w] = calls[w]
              BY <2>1, <2>2, <4>3, <5>2, <6>1 DEF Miss, CallsInv
            <6> QED
              BY <6>2
          <5> QED
            BY <5>1, <5>2
        <4> QED
          BY <3>5, <4>2, <4>3 DEF Ask
      <3>6. CASE Answer
        BY <2>1, <3>6 DEF Answer
      <3>7. CASE ResumeCheck
        BY <2>1, <2>2, <3>7 DEF ResumeCheck, CallsInv
      <3>8. CASE Close
        BY <2>1, <3>8 DEF Close, Idle
      <3> QED
        BY <3>1, <3>2, <3>3, <3>4, <3>5, <3>6, <3>7, <3>8 DEF Next, ChainStep
    <2>5. StartWeek <= w /\ w <= weekNow - 1
      BY <2>4 DEF Window
    <2>6. Week \in 1..Weeks /\ Week \in Int /\ closed \in Nat
      BY <2>2, Epochs DEF CacheInv
    <2>7. active \in Nat
      <3>1. progress.week \in 0..Weeks
        BY <2>2, Epochs, KnownIsClaim DEF ChainInv
      <3> QED
        BY <2>2, <3>1, Constants DEF CacheInv
    <2>8. CASE active = 0
      BY <2>5, <2>6, <2>8 DEF StartWeek
    <2>9. CASE active # 0
      <3>1. StartWeek = Longer(weekNow - MaxClaimWeeks, active)
        BY <2>9 DEF StartWeek
      <3>2. weekNow - MaxClaimWeeks \in Int
        BY <2>6, Constants
      <3>3. weekNow - MaxClaimWeeks <= StartWeek /\ StartWeek \in Int
        BY <2>7, <3>1, <3>2, LongerFacts
      <3>4. closed = 0 \/ closed <= Week - MaxClaimWeeks - 1
        BY <2>2 DEF CacheInv
      <3> QED
        BY <2>5, <2>6, <3>3, <3>4, Constants
    <2> QED
      BY <2>8, <2>9
  <1> QED
    BY <1>1, AlwaysInv, PTL DEF Spec, OneClaimant

--------------------------------------------------------------------------------
(* Waiting makes it cheaper to leave a lock.                               *)

\* The lock options are in order of their epochs and of their penalties.
LEMMA OptionsInOrder ==
    ASSUME NEW i \in 1..Len(LockOptions), NEW j \in 1..Len(LockOptions), i <= j
    PROVE  /\ LockOptions[i].penalty <= LockOptions[j].penalty
           /\ i < j => LockOptions[i].epochs < LockOptions[j].epochs
           /\ LockOptions[i].epochs \in Nat \ {0} /\ LockOptions[j].epochs \in Nat
           /\ LockOptions[i].penalty \in Nat /\ LockOptions[j].penalty \in Nat
  <1>1. /\ LockOptions[i].epochs \in Nat /\ LockOptions[j].epochs \in Nat
        /\ LockOptions[i].penalty \in Nat /\ LockOptions[j].penalty \in Nat
    BY Options
  <1>2. LockOptions[i].epochs # 0
    BY <1>1, PenaltyAssumption
  <1>3. CASE i < j
    <2>1. i \in 1..(j - 1)
      BY <1>3, Options
    <2> QED
      BY <1>1, <1>2, <2>1, PenaltyAssumption
  <1>4. CASE i = j
    BY <1>1, <1>2, <1>4
  <1> QED
    BY <1>3, <1>4, Options

\* Between two options in order, the quote is between theirs, and is theirs at the ends.
LEMMA InterpolationBetween ==
    ASSUME NEW minIn \in Nat, NEW maxIn \in Nat, minIn < maxIn,
           NEW minOut \in Nat, NEW maxOut \in Nat, minOut <= maxOut,
           NEW x \in minIn..maxIn
    PROVE  Interpolation(minIn, maxIn, x, minOut, maxOut) \in minOut..maxOut
  <1> DEFINE d == maxIn - minIn
             v == Interpolation(minIn, maxIn, x, minOut, maxOut)
  <1>1. d \in Nat \ {0} /\ minIn \in minIn..maxIn /\ maxIn \in minIn..maxIn /\ minIn <= x /\ x <= maxIn
    OBVIOUS
  <1>2. Interpolation(minIn, maxIn, minIn, minOut, maxOut) = minOut
    <2>1. (maxIn - minIn) * minOut + (minIn - minIn) * maxOut = d * minOut
      OBVIOUS
    <2>2. (d * minOut) \div d = minOut
      <3> HIDE DEF d
      <3>1. d * minOut \in Nat /\ d * minOut <= d * minOut /\ d * minOut < d * minOut + d
        BY <1>1
      <3> QED
        BY <1>1, <3>1, QuotientIs
    <2> QED
      BY <2>1, <2>2 DEF Interpolation
  <1>3. Interpolation(minIn, maxIn, maxIn, minOut, maxOut) = maxOut
    <2>1. (maxIn - maxIn) * minOut + (maxIn - minIn) * maxOut = d * maxOut
      OBVIOUS
    <2>2. (d * maxOut) \div d = maxOut
      <3> HIDE DEF d
      <3>1. d * maxOut \in Nat /\ d * maxOut <= d * maxOut /\ d * maxOut < d * maxOut + d
        BY <1>1
      <3> QED
        BY <1>1, <3>1, QuotientIs
    <2> QED
      BY <2>1, <2>2 DEF Interpolation
  <1>4. v \in Int
    <2> DEFINE a == (maxIn - x) * minOut + (x - minIn) * maxOut
    <2>1. a \in Int
      OBVIOUS
    <2>2. v = a \div d
      BY DEF Interpolation
    <2> HIDE DEF a, d, v
    <2> QED
      BY <1>1, <2>1, <2>2
  <1>5. minOut <= v /\ v <= maxOut
    BY <1>1, <1>2, <1>3, InterpolationMonotone
  <1> QED
    BY <1>4, <1>5

\* So many epochs, between the first option and the last, lie in one segment.
LEMMA InSegment ==
    ASSUME NEW left \in Nat, LockOptions[1].epochs < left, left <= LongestLock
    PROVE  /\ Segment(left) \in 1..(Len(LockOptions) - 1)
           /\ LockOptions[Segment(left)].epochs <= left
           /\ left <= LockOptions[Segment(left) + 1].epochs
           /\ \A j \in 1..(Segment(left) - 1) : left > LockOptions[j + 1].epochs
  <1> DEFINE n == Len(LockOptions)
             S == {i \in 1..(n - 1) : left <= LockOptions[i + 1].epochs}
  <1>1. n \in Nat \ {0}
    BY Options
  <1>2. \A i \in 1..n : LockOptions[i].epochs \in Nat
    BY Options
  <1>3. LongestLock = LockOptions[n].epochs
    BY DEF LongestLock
  <1> HIDE DEF n
  <1>4. n # 1
    BY <1>1, <1>2, <1>3
  <1>5. n - 1 \in S
    BY <1>1, <1>3, <1>4
  <1>6. S \in SUBSET Nat
    BY <1>1
  <1>7. PICK i \in S : \A y \in S : i <= y
    <2>1. PICK x \in S : \A y \in S : ~(<<y, x>> \in OpToRel(<, Nat))
      <3> HIDE DEF S
      <3> QED
        BY <1>5, <1>6, NatLessThanWellFounded, WFMin, Zenon
    <2>2. \A y \in S : ~(y < x)
      <3> HIDE DEF S
      <3> QED
        BY <1>6, <2>1, Zenon DEF OpToRel
    <2> QED
      BY <1>1, <2>2
  <1>8. i \in 1..(n - 1) /\ left <= LockOptions[i + 1].epochs
    OBVIOUS
  <1>9. \A j \in 1..(i - 1) : left > LockOptions[j + 1].epochs
    <2> SUFFICES ASSUME NEW j \in 1..(i - 1) PROVE left > LockOptions[j + 1].epochs
      OBVIOUS
    <2>1. j \in 1..(n - 1) /\ j < i /\ j + 1 \in 1..n
      BY <1>1, <1>8
    <2>2. j \notin S
      BY <1>1, <1>7, <2>1
    <2>3. ~(left <= LockOptions[j + 1].epochs) /\ LockOptions[j + 1].epochs \in Nat
      BY <1>2, <2>1, <2>2
    <2> QED
      BY <2>3
  <1>10. LockOptions[i].epochs <= left
    <2>1. CASE i = 1
      BY <1>1, <1>2, <2>1
    <2>2. CASE i # 1
      <3>1. i - 1 \in 1..(i - 1) /\ (i - 1) + 1 = i /\ i \in 1..n
        BY <1>1, <1>8, <2>2
      <3>2. left > LockOptions[i].epochs
        BY <1>9, <3>1
      <3> QED
        BY <1>2, <3>1, <3>2
    <2> QED
      BY <2>1, <2>2
  <1>11. \E k \in 1..(Len(LockOptions) - 1) :
           /\ LockOptions[k].epochs <= left /\ left <= LockOptions[k + 1].epochs
           /\ \A j \in 1..(k - 1) : left > LockOptions[j + 1].epochs
    BY <1>8, <1>9, <1>10 DEF n
  <1> QED
    BY <1>11 DEF Segment

\* The quote for so many epochs lies between the penalties of the options around them.
LEMMA FullUnlockBetween ==
    ASSUME NEW left \in 1..LongestLock
    PROVE  /\ left <= LockOptions[1].epochs => FullUnlock(left) \in 0..LockOptions[1].penalty
           /\ left > LockOptions[1].epochs =>
                FullUnlock(left) \in LockOptions[Segment(left)].penalty..LockOptions[Segment(left) + 1].penalty
  <1>1. 1 \in 1..Len(LockOptions)
    BY Options
  <1>2. LockOptions[1].epochs \in Nat \ {0} /\ LockOptions[1].penalty \in Nat
    BY <1>1, OptionsInOrder
  <1>3. left \in Nat /\ left <= LongestLock
    <2>1. LongestLock \in Nat
      BY <1>1, NewLockFits
    <2> QED
      BY <2>1
  <1>4. CASE left <= LockOptions[1].epochs
    <2>1. FullUnlock(left) = Interpolation(0, LockOptions[1].epochs, left, 0, LockOptions[1].penalty)
      BY <1>2, <1>3, <1>4 DEF FullUnlock
    <2>2. left \in 0..LockOptions[1].epochs
      BY <1>2, <1>3, <1>4
    <2>3. FullUnlock(left) \in 0..LockOptions[1].penalty
      <3> DEFINE e == LockOptions[1].epochs
                 p == LockOptions[1].penalty
      <3>1. 0 \in Nat /\ e \in Nat /\ p \in Nat /\ 0 < e /\ 0 <= p /\ left \in 0..e
        BY <1>2, <2>2
      <3> HIDE DEF e, p
      <3>2. Interpolation(0, e, left, 0, p) \in 0..p
        BY <3>1, InterpolationBetween
      <3> QED
        BY <2>1, <3>2 DEF e, p
    <2> QED
      BY <1>2, <1>3, <1>4, <2>3
  <1>5. CASE left > LockOptions[1].epochs
    <2> DEFINE i == Segment(left)
    <2>1. i \in 1..(Len(LockOptions) - 1) /\ LockOptions[i].epochs <= left /\ left <= LockOptions[i + 1].epochs
      BY <1>2, <1>3, <1>5, InSegment
    <2>2. FullUnlock(left) = Interpolation(LockOptions[i].epochs, LockOptions[i + 1].epochs, left,
                                           LockOptions[i].penalty, LockOptions[i + 1].penalty)
      BY <1>5 DEF FullUnlock
    <2> HIDE DEF i
    <2>3. i \in 1..Len(LockOptions) /\ i + 1 \in 1..Len(LockOptions) /\ i < i + 1
      BY <2>1, Options
    <2>4. /\ LockOptions[i].epochs \in Nat /\ LockOptions[i + 1].epochs \in Nat
          /\ LockOptions[i].epochs < LockOptions[i + 1].epochs
          /\ LockOptions[i].penalty \in Nat /\ LockOptions[i + 1].penalty \in Nat
          /\ LockOptions[i].penalty <= LockOptions[i + 1].penalty
      BY <2>3, OptionsInOrder
    <2>5. left \in LockOptions[i].epochs..LockOptions[i + 1].epochs
      BY <1>3, <2>1, <2>4
    <2>6. FullUnlock(left) \in LockOptions[i].penalty..LockOptions[i + 1].penalty
      BY <2>2, <2>4, <2>5, InterpolationBetween
    <2> QED
      BY <1>2, <1>3, <1>5, <2>6 DEF i
  <1> QED
    BY <1>2, <1>3, <1>4, <1>5

\* A lock of fewer epochs is not dearer to leave, whichever segments the two lie in.
LEMMA FullUnlockMonotone ==
    ASSUME NEW x \in 1..LongestLock, NEW y \in 1..LongestLock, x <= y
    PROVE  FullUnlock(x) <= FullUnlock(y) /\ FullUnlock(x) \in Nat
  <1> DEFINE e == LockOptions[1].epochs
             i == Segment(x)
             j == Segment(y)
  <1>1. 1 \in 1..Len(LockOptions) /\ Len(LockOptions) \in Nat
    BY Options
  <1>2. e \in Nat \ {0} /\ LockOptions[1].penalty \in Nat
    BY <1>1, OptionsInOrder
  <1>3. LongestLock \in Nat
    BY <1>1, NewLockFits
  <1>4. x \in Nat /\ y \in Nat /\ x <= LongestLock /\ y <= LongestLock
    BY <1>3
  <1>5. x > e => /\ i \in 1..(Len(LockOptions) - 1)
                 /\ LockOptions[i].epochs <= x /\ x <= LockOptions[i + 1].epochs
                 /\ \A k \in 1..(i - 1) : x > LockOptions[k + 1].epochs
    BY <1>2, <1>4, InSegment
  <1>6. y > e => /\ j \in 1..(Len(LockOptions) - 1)
                 /\ LockOptions[j].epochs <= y /\ y <= LockOptions[j + 1].epochs
                 /\ \A k \in 1..(j - 1) : y > LockOptions[k + 1].epochs
    BY <1>2, <1>4, InSegment
  <1>7. /\ x <= e => FullUnlock(x) \in 0..LockOptions[1].penalty
        /\ x > e => FullUnlock(x) \in LockOptions[i].penalty..LockOptions[i + 1].penalty
    BY FullUnlockBetween
  <1>8. /\ y <= e => FullUnlock(y) \in 0..LockOptions[1].penalty
        /\ y > e => FullUnlock(y) \in LockOptions[j].penalty..LockOptions[j + 1].penalty
    BY FullUnlockBetween
  <1>9. /\ x <= e => FullUnlock(x) = Interpolation(0, e, x, 0, LockOptions[1].penalty)
        /\ x > e => FullUnlock(x) = Interpolation(LockOptions[i].epochs, LockOptions[i + 1].epochs, x,
                                                  LockOptions[i].penalty, LockOptions[i + 1].penalty)
    BY <1>2, <1>4 DEF FullUnlock
  <1>10. /\ y <= e => FullUnlock(y) = Interpolation(0, e, y, 0, LockOptions[1].penalty)
         /\ y > e => FullUnlock(y) = Interpolation(LockOptions[j].epochs, LockOptions[j + 1].epochs, y,
                                                   LockOptions[j].penalty, LockOptions[j + 1].penalty)
    BY <1>2, <1>4 DEF FullUnlock
  <1> HIDE DEF i, j
  <1>11. CASE y <= e
    <2>1. x <= e /\ x \in 0..e /\ y \in 0..e
      BY <1>2, <1>4, <1>11
    <2>2. Interpolation(0, e, x, 0, LockOptions[1].penalty) <= Interpolation(0, e, y, 0, LockOptions[1].penalty)
      <3> HIDE DEF e
      <3> QED
        BY <1>2, <2>1, InterpolationMonotone
    <2> QED
      BY <1>2, <1>7, <1>9, <1>10, <1>11, <2>1, <2>2
  <1>12. CASE x <= e /\ y > e
    <2>1. j \in 1..Len(LockOptions) /\ j + 1 \in 1..Len(LockOptions) /\ 1 <= j
      BY <1>1, <1>6, <1>12
    <2>2. LockOptions[1].penalty <= LockOptions[j].penalty /\ LockOptions[j].penalty \in Nat
      BY <1>1, <2>1, OptionsInOrder
    <2>3. LockOptions[j + 1].penalty \in Nat
      BY <2>1, OptionsInOrder
    <2>4. \A a, b, p, q, r \in Nat : a \in 0..p /\ p <= q /\ b \in q..r => a <= b
      OBVIOUS
    <2>5. FullUnlock(x) \in Nat /\ FullUnlock(y) \in Nat
      BY <1>2, <1>7, <1>8, <1>12, <2>2, <2>3
    <2> QED
      BY <1>2, <1>7, <1>8, <1>12, <2>2, <2>3, <2>4, <2>5
  <1>13. CASE x > e
    <2>1. y > e
      BY <1>2, <1>4, <1>13
    <2>2. /\ i \in 1..Len(LockOptions) /\ i + 1 \in 1..Len(LockOptions) /\ i < i + 1
          /\ j \in 1..Len(LockOptions) /\ j + 1 \in 1..Len(LockOptions) /\ j < j + 1
      BY <1>1, <1>5, <1>6, <1>13, <2>1
    <2>3. /\ LockOptions[i].epochs \in Nat /\ LockOptions[i + 1].epochs \in Nat
          /\ LockOptions[i].epochs < LockOptions[i + 1].epochs
          /\ LockOptions[i].penalty \in Nat /\ LockOptions[i + 1].penalty \in Nat
          /\ LockOptions[i].penalty <= LockOptions[i + 1].penalty
      BY <2>2, OptionsInOrder
    <2>4. LockOptions[j].penalty \in Nat /\ LockOptions[j + 1].penalty \in Nat
      BY <2>2, OptionsInOrder
    <2>5. FullUnlock(x) \in Nat /\ FullUnlock(y) \in Nat
      BY <1>7, <1>8, <1>13, <2>1, <2>3, <2>4
    <2>6. CASE i = j
      <3>1. x \in LockOptions[i].epochs..LockOptions[i + 1].epochs
            /\ y \in LockOptions[i].epochs..LockOptions[i + 1].epochs
        BY <1>4, <1>5, <1>6, <1>13, <2>1, <2>3, <2>6
      <3>2. Interpolation(LockOptions[i].epochs, LockOptions[i + 1].epochs, x,
                          LockOptions[i].penalty, LockOptions[i + 1].penalty)
            <= Interpolation(LockOptions[i].epochs, LockOptions[i + 1].epochs, y,
                             LockOptions[i].penalty, LockOptions[i + 1].penalty)
        BY <2>3, <3>1, InterpolationMonotone
      <3> QED
        BY <1>9, <1>10, <1>13, <2>1, <2>5, <2>6, <3>2
    <2>7. CASE i < j
      <3>1. i + 1 <= j
        BY <2>2, <2>7
      <3>2. LockOptions[i + 1].penalty <= LockOptions[j].penalty
        BY <2>2, <3>1, OptionsInOrder
      <3>3. \A a, b, o, p, q, r \in Nat : a \in o..p /\ p <= q /\ b \in q..r => a <= b
        OBVIOUS
      <3> QED
        BY <1>7, <1>8, <1>13, <2>1, <2>3, <2>4, <2>5, <3>2, <3>3
    \* More epochs do not lie in an earlier segment.
    <2>8. CASE j < i
      <3>1. j \in 1..(i - 1)
        BY <2>2, <2>8, <1>1
      <3>2. x > LockOptions[j + 1].epochs /\ LockOptions[j + 1].epochs \in Nat
        BY <1>5, <1>13, <2>2, <3>1, OptionsInOrder
      <3>3. y <= LockOptions[j + 1].epochs
        BY <1>6, <2>1
      <3>4. FALSE
        BY <1>4, <3>2, <3>3
      <3> QED
        BY <3>4
    <2> QED
      BY <1>1, <2>2, <2>6, <2>7, <2>8
  <1> QED
    BY <1>2, <1>4, <1>11, <1>12, <1>13

\* A lock of fewer epochs is not dearer to leave, one that is over costs nothing
\* (computePenaltyPercentageFullUnlock).
THEOREM PenaltyMonotone ==
    ASSUME NEW x \in Int, NEW y \in Int, x <= y, y <= LongestLock
    PROVE  PenaltyPercentage(x, 0) <= PenaltyPercentage(y, 0) /\ PenaltyPercentage(x, 0) \in Nat
  <1>1. LongestLock \in Nat
    <2>1. 1 \in 1..Len(LockOptions)
      BY Options
    <2> QED
      BY <2>1, NewLockFits
  <1>2. CASE y <= 0
    <2>1. x <= 0
      BY <1>2
    <2> QED
      BY <1>2, <2>1 DEF PenaltyPercentage
  <1>3. CASE y > 0
    <2>1. y \in 1..LongestLock /\ y <= y
      BY <1>1, <1>3
    <2>2. PenaltyPercentage(y, 0) = FullUnlock(y) /\ FullUnlock(y) \in Nat
      BY <1>3, <2>1, FullUnlockMonotone DEF PenaltyPercentage
    <2>3. CASE x <= 0
      BY <2>2, <2>3 DEF PenaltyPercentage
    <2>4. CASE x > 0
      <3>1. x \in 1..LongestLock
        BY <1>1, <2>4
      <3>2. PenaltyPercentage(x, 0) = FullUnlock(x)
        BY <2>4 DEF PenaltyPercentage
      <3> QED
        BY <2>1, <2>2, <3>1, <3>2, FullUnlockMonotone
    <2> QED
      BY <2>3, <2>4
  <1> QED
    BY <1>2, <1>3

\* A lock that is left alone only becomes cheaper to leave, over the bounds of the segments too.
THEOREM WaitingIsCheaper == Spec => PenaltyOnlyFalls
  <1>1. IInv /\ [Next]_vars =>
          [lock' = lock =>
             PenaltyPercentage(lock.unlock - epoch', 0)
               <= PenaltyPercentage(lock.unlock - epoch, 0)]_vars
    <2> SUFFICES ASSUME IInv, [Next]_vars, lock' = lock
                 PROVE  PenaltyPercentage(lock.unlock - epoch', 0)
                          <= PenaltyPercentage(lock.unlock - epoch, 0)
      OBVIOUS
    <2>1. ChainInv /\ LockInv /\ CacheInv
      BY DEF IInv
    <2>2. epoch \in Nat
      BY <2>1, Epochs
    <2>3. epoch' \in Nat /\ epoch <= epoch'
      <3>1. CASE NextEpoch
        BY <2>2, <3>1 DEF NextEpoch
      <3>2. CASE epoch' = epoch
        BY <2>2, <3>2
      <3>3. CASE ~NextEpoch
        <4>1. epoch' = epoch
          BY <3>3 DEF Next, vars, Relock, UpdateEnergy, Collect, HandleUpdateUserEnergy, Expire,
                      CountUndistributed, Open, Check, Recorded, NotRecorded, Resume, Ask, Answer,
                      ResumeCheck, Close, chain
        <4> QED
          BY <3>2, <4>1
      <3> QED
        BY <3>1, <3>3
    <2>4. PICK u \in Nat, s \in Nat : u = lock.unlock /\ s = lock.since
      BY <2>1 DEF LockInv, Locks
    <2>5. LongestLock \in Nat
      <3>1. 1 \in 1..Len(LockOptions)
        BY Options
      <3> QED
        BY <3>1, NewLockFits
    <2>6. s <= epoch /\ u <= s + LongestLock
      BY <2>1, <2>4 DEF LockInv
    <2>7. u - epoch \in Int /\ u - epoch <= LongestLock
      BY <2>2, <2>4, <2>5, <2>6
    <2>8. u - epoch' \in Int /\ u - epoch' <= u - epoch
      <3>1. \A a, b, c \in Nat : b <= c => a - c \in Int /\ a - c <= a - b
        OBVIOUS
      <3> QED
        BY <2>2, <2>3, <2>4, <3>1
    <2>9. PenaltyPercentage(u - epoch', 0) <= PenaltyPercentage(u - epoch, 0)
      BY <2>7, <2>8, PenaltyMonotone
    <2> QED
      BY <2>4, <2>9
  <1> QED
    BY <1>1, AlwaysInv, PTL DEF Spec, PenaltyOnlyFalls
================================================================================
