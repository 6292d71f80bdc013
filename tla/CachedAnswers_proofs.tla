-------------------------- MODULE CachedAnswers_proofs --------------------------
(***************************************************************************)
(* What the service answers from values it stored earlier.                 *)
(*                                                                         *)
(* Amounts of a swap, for all reserves and fees.                           *)
(*                                                                         *)
(* Routes of swaps (RouterInv).  The depth first search is one solution of *)
(* its recursive equation, and by induction over the tokens not visited    *)
(* the only one; so it finds the ways to swap, whatever the pairs are.     *)
(* The amounts along a route follow by induction over its hops, and so do  *)
(* how they compare when more is paid in, and the two ways to quote them.  *)
(*                                                                         *)
(* Rewards of a farm or a staking contract (QuotesInv).  Once nothing has  *)
(* stirred for as long as entries live, every entry was read after the     *)
(* last change, whatever times to live the keys have, and the quote is     *)
(* computed from the values the contract has.  Rewards grow with the block *)
(* they are quoted for, and the cached block only grows.                   *)
(*                                                                         *)
(* Responses for guests (GuestInv).  What is counted, the full batches on  *)
(* their way and the requests since stand for different requests, so no    *)
(* more is counted than was made.                                          *)
(***************************************************************************)
EXTENDS RewardQuotes, PairMath, AutoRouter, GuestCache, FiniteSetTheorems, TLAPS

--------------------------------------------------------------------------------
(* Amounts of a swap.                                                      *)

\* The quotient of two naturals, by multiplication.
LEMMA Quotient ==
  ASSUME NEW n \in Nat, NEW d \in Nat \ {0}
  PROVE  /\ n \div d \in Nat
         /\ (n \div d) * d <= n
         /\ n < (n \div d) * d + d
  BY SMT

\* Rounding is to within half of the denominator.
LEMMA RoundedIsNearest ==
  ASSUME NEW n \in Nat, NEW d \in Nat \ {0}
  PROVE  /\ Rounded(n, d) \in Nat
         /\ 2 * (Rounded(n, d) * d) <= 2 * n + d
         /\ 2 * n < 2 * (Rounded(n, d) * d) + d
<1> DEFINE q == (2 * n + d) \div (2 * d)
<1>1. 2 * n + d \in Nat /\ 2 * d \in Nat \ {0}
  OBVIOUS
<1>2. q \in Nat /\ q * (2 * d) <= 2 * n + d /\ 2 * n + d < q * (2 * d) + 2 * d
  BY <1>1, Quotient
<1>3. q * (2 * d) = 2 * (q * d)
  BY <1>2
<1>4. q * d \in Nat
  BY <1>2
<1> HIDE DEF q
<1>5. 2 * (q * d) <= 2 * n + d /\ 2 * n < 2 * (q * d) + d
  BY <1>2, <1>3, <1>4
<1>. QED BY <1>2, <1>5 DEF Rounded, q

\* Rounding keeps the order of quotients.
LEMMA RoundedIsMonotone ==
  ASSUME NEW na \in Nat, NEW da \in Nat \ {0}, NEW nb \in Nat, NEW db \in Nat \ {0},
         na * db <= nb * da
  PROVE  Rounded(na, da) <= Rounded(nb, db)
<1> DEFINE qa == Rounded(na, da)
           qb == Rounded(nb, db)
           dd == da * db
<1>1. qa \in Nat /\ 2 * (qa * da) <= 2 * na + da
  BY RoundedIsNearest
<1>2. qb \in Nat /\ 2 * nb < 2 * (qb * db) + db
  BY RoundedIsNearest
<1> HIDE DEF qa, qb
<1>3. dd \in Nat \ {0} /\ na * db \in Nat /\ nb * da \in Nat
  OBVIOUS
<1>4. 2 * (qa * dd) <= 2 * (na * db) + dd
  <2>1. (2 * (qa * da)) * db <= (2 * na + da) * db
    <3> DEFINE x == 2 * (qa * da)
               y == 2 * na + da
    <3>1. x \in Nat /\ y \in Nat /\ x <= y BY <1>1
    <3> HIDE DEF x, y
    <3>2. x * db <= y * db BY <3>1
    <3>. QED BY <3>2 DEF x, y
  <2>2. (2 * (qa * da)) * db = 2 * (qa * dd) /\ (2 * na + da) * db = 2 * (na * db) + dd
    BY <1>1
  <2>. QED BY <2>1, <2>2
<1>5. 2 * (nb * da) < 2 * (qb * dd) + dd
  <2>1. (2 * nb) * da < (2 * (qb * db) + db) * da
    <3> DEFINE x == 2 * nb
               y == 2 * (qb * db) + db
    <3>1. x \in Nat /\ y \in Nat /\ x < y BY <1>2
    <3> HIDE DEF x, y
    <3>2. x * da < y * da BY <3>1
    <3>. QED BY <3>2 DEF x, y
  <2>2. (2 * nb) * da = 2 * (nb * da) /\ (2 * (qb * db) + db) * da = 2 * (qb * dd) + dd
    BY <1>2
  <2>. QED BY <2>1, <2>2
<1> HIDE DEF dd
<1>6. CASE qa > qb
  <2>1. qa * dd >= (qb + 1) * dd
    BY <1>1, <1>2, <1>3, <1>6
  <2>2. (qb + 1) * dd = qb * dd + dd /\ qb * dd \in Nat /\ qa * dd \in Nat
    BY <1>1, <1>2, <1>3
  <2>. QED BY <1>3, <1>4, <1>5, <2>1, <2>2
<1>. QED BY <1>1, <1>2, <1>6 DEF qa, qb

\* The denominators and numerators of the formulas are naturals.
LEMMA Types ==
  ASSUME NEW a \in Nat, NEW reserveIn \in Nat \ {0}, NEW reserveOut \in Nat
  PROVE  /\ WithFee(a) \in Nat
         /\ OutNumerator(a, reserveOut) \in Nat
         /\ OutDenominator(a, reserveIn) \in Nat \ {0}
<1> DEFINE rest == BasePoints - Fee
<1>1. rest \in Nat /\ BasePoints \in Nat \ {0}
  BY PairMathAssumption
<1> HIDE DEF rest
<1>2. a * rest \in Nat /\ reserveIn * BasePoints \in Nat \ {0}
  BY <1>1
<1>3. WithFee(a) \in Nat
  BY <1>2 DEF WithFee, rest
<1>4. WithFee(a) * reserveOut \in Nat
  BY <1>3
<1>. QED BY <1>2, <1>3, <1>4 DEF OutNumerator, OutDenominator

--------------------------------------------------------------------------------
\* getAmountIn: an input quoted for an output is enough for it, although the quotient
\* is rounded to the nearest unit: the unit added to it makes up for that.
THEOREM InputSuffices ==
  ASSUME NEW amountOut \in Nat, NEW reserveIn \in Nat, NEW reserveOut \in Nat,
         amountOut < reserveOut
  PROVE  /\ GetAmountIn(amountOut, reserveIn, reserveOut) \in Nat
         /\ Suffices(GetAmountIn(amountOut, reserveIn, reserveOut),
                     amountOut, reserveIn, reserveOut)
<1> DEFINE rest == BasePoints - Fee
           left == reserveOut - amountOut
           d == left * rest
           e == reserveIn * amountOut * BasePoints
           q == Rounded(e + d, d)
           w == q * rest
<1>1. rest \in Nat \ {0} /\ left \in Nat \ {0} /\ BasePoints \in Nat
  BY PairMathAssumption
<1>2. d \in Nat \ {0}
  <2> HIDE DEF rest, left
  <2>. QED BY <1>1
<1>3. reserveIn * amountOut \in Nat
  OBVIOUS
<1>4. e \in Nat
  BY <1>1, <1>3
<1>5. GetAmountIn(amountOut, reserveIn, reserveOut) = q
  BY DEF GetAmountIn, WithFee
<1> HIDE DEF d, e
<1>6. q \in Nat /\ 2 * (e + d) < 2 * (q * d) + d
  <2>1. e + d \in Nat
    BY <1>2, <1>4
  <2>. QED BY <1>2, <2>1, RoundedIsNearest
<1> HIDE DEF q
<1>7. q * d \in Nat
  BY <1>2, <1>6
<1>8. e < q * d
  BY <1>2, <1>4, <1>6, <1>7
<1> HIDE DEF rest, left
<1>9. w \in Nat /\ w * left = q * d
  BY <1>1, <1>6 DEF d
<1> HIDE DEF w
<1>10. w * left = w * reserveOut - w * amountOut
  BY <1>9 DEF left
<1>11. amountOut * (reserveIn * BasePoints + w) = e + w * amountOut
  BY <1>1, <1>9 DEF e
<1>12. w * reserveOut \in Nat /\ w * amountOut \in Nat
  BY <1>9
<1>13. e + w * amountOut <= w * reserveOut
  BY <1>4, <1>7, <1>8, <1>9, <1>10, <1>12
<1>. QED BY <1>5, <1>6, <1>11, <1>13 DEF Suffices, OutNumerator, OutDenominator, WithFee, w, rest

\* getAmountOut: a quote is more than what an input suffices for by less than one unit.
THEOREM OutputWithinOne ==
  ASSUME NEW amountIn \in Nat, NEW reserveIn \in Nat \ {0}, NEW reserveOut \in Nat
  PROVE  Suffices(amountIn, GetAmountOut(amountIn, reserveIn, reserveOut) - 1,
                  reserveIn, reserveOut)
<1> DEFINE n == OutNumerator(amountIn, reserveOut)
           d == OutDenominator(amountIn, reserveIn)
           q == GetAmountOut(amountIn, reserveIn, reserveOut)
<1>1. n \in Nat /\ d \in Nat \ {0}
  BY Types
<1> HIDE DEF n, d
<1>2. q = Rounded(n, d)
  BY DEF GetAmountOut, n, d
<1> HIDE DEF q
<1>3. q \in Nat /\ 2 * (q * d) <= 2 * n + d
  BY <1>1, <1>2, RoundedIsNearest
<1>4. q * d \in Nat /\ (q - 1) * d = q * d - d
  BY <1>1, <1>3
<1>5. (q - 1) * d <= n
  BY <1>1, <1>3, <1>4
<1>. QED BY <1>5 DEF Suffices, n, d, q

\* getAmountOut never promises more than the reserve.
THEOREM OutputWithinReserve ==
  ASSUME NEW amountIn \in Nat, NEW reserveIn \in Nat \ {0}, NEW reserveOut \in Nat
  PROVE  GetAmountOut(amountIn, reserveIn, reserveOut) \in 0..reserveOut
<1> DEFINE n == OutNumerator(amountIn, reserveOut)
           d == OutDenominator(amountIn, reserveIn)
           q == GetAmountOut(amountIn, reserveIn, reserveOut)
<1>1. n \in Nat /\ d \in Nat \ {0}
  BY Types
<1>2. n <= d * reserveOut
  <2> DEFINE w == WithFee(amountIn)
             k == reserveIn * BasePoints
  <2>1. w \in Nat /\ k \in Nat
    BY Types, PairMathAssumption
  <2> HIDE DEF w, k
  <2>2. (k + w) * reserveOut = k * reserveOut + w * reserveOut /\ k * reserveOut \in Nat
    BY <2>1
  <2>. QED BY <2>1, <2>2 DEF OutNumerator, OutDenominator, w, k
<1> HIDE DEF n, d
<1>3. q = Rounded(n, d)
  BY DEF GetAmountOut, n, d
<1> HIDE DEF q
<1>4. q \in Nat /\ 2 * (q * d) <= 2 * n + d
  BY <1>1, <1>3, RoundedIsNearest
<1>5. CASE q > reserveOut
  <2>1. q * d >= (reserveOut + 1) * d
    BY <1>1, <1>4, <1>5
  <2>2. (reserveOut + 1) * d = d * reserveOut + d /\ d * reserveOut \in Nat /\ q * d \in Nat
    BY <1>1, <1>4
  <2>. QED BY <1>1, <1>2, <1>4, <2>1, <2>2
<1>. QED BY <1>4, <1>5 DEF q

\* getAmountOut: a larger input never gets a smaller quote.
THEOREM OutputIsMonotone ==
  ASSUME NEW a \in Nat, NEW b \in Nat, a <= b,
         NEW reserveIn \in Nat \ {0}, NEW reserveOut \in Nat
  PROVE  GetAmountOut(a, reserveIn, reserveOut) <= GetAmountOut(b, reserveIn, reserveOut)
<1> DEFINE na == OutNumerator(a, reserveOut)
           nb == OutNumerator(b, reserveOut)
           da == OutDenominator(a, reserveIn)
           db == OutDenominator(b, reserveIn)
           qa == GetAmountOut(a, reserveIn, reserveOut)
           qb == GetAmountOut(b, reserveIn, reserveOut)
<1>1. na \in Nat /\ nb \in Nat /\ da \in Nat \ {0} /\ db \in Nat \ {0}
  BY Types
<1>2. na * db <= nb * da
  <2> DEFINE k == reserveIn * BasePoints
             wa == WithFee(a)
             wb == WithFee(b)
  <2>1. k \in Nat /\ wa \in Nat /\ wb \in Nat
    <3>1. k \in Nat BY PairMathAssumption
    <3>. QED BY <3>1, Types
  <2>2. wa <= wb
    <3>1. BasePoints - Fee \in Nat BY PairMathAssumption
    <3>. QED BY <3>1 DEF WithFee
  <2> HIDE DEF k, wa, wb
  <2>3. PICK more \in Nat : wb = wa + more
    <3>1. wb - wa \in Nat /\ wb = wa + (wb - wa) BY <2>1, <2>2
    <3>. QED BY <3>1
  <2>4. (wa * reserveOut) * (k + wb) = wa * reserveOut * k + wa * reserveOut * wb
    BY <2>1
  <2>5. (wb * reserveOut) * (k + wa) = wb * reserveOut * k + wa * reserveOut * wb
    BY <2>1
  <2>6. wb * reserveOut * k = wa * reserveOut * k + more * reserveOut * k
    BY <2>1, <2>3
  <2>7. /\ more * reserveOut * k \in Nat
        /\ wa * reserveOut * k \in Nat
        /\ wa * reserveOut * wb \in Nat
    BY <2>1
  <2>8. (wa * reserveOut) * (k + wb) <= (wb * reserveOut) * (k + wa)
    BY <2>4, <2>5, <2>6, <2>7
  <2>. QED BY <2>8 DEF OutNumerator, OutDenominator, k, wa, wb
<1> HIDE DEF na, nb, da, db
<1>3. qa = Rounded(na, da) /\ qb = Rounded(nb, db)
  BY DEF GetAmountOut, na, nb, da, db
<1> HIDE DEF qa, qb
<1>4. qa <= qb
  BY <1>1, <1>2, <1>3, RoundedIsMonotone
<1>. QED BY <1>4 DEF qa, qb

\* getAmountIn: a larger output is never quoted a smaller input.
THEOREM InputIsMonotone ==
  ASSUME NEW a \in Nat, NEW b \in Nat, a <= b,
         NEW reserveIn \in Nat, NEW reserveOut \in Nat, b < reserveOut
  PROVE  GetAmountIn(a, reserveIn, reserveOut) <= GetAmountIn(b, reserveIn, reserveOut)
<1> DEFINE rest == BasePoints - Fee
           k == reserveIn * BasePoints
           da == (reserveOut - a) * rest
           db == (reserveOut - b) * rest
           ea == reserveIn * a * BasePoints
           eb == reserveIn * b * BasePoints
<1>1. rest \in Nat \ {0} /\ BasePoints \in Nat
  BY PairMathAssumption
<1>2. k \in Nat /\ ea = k * a /\ eb = k * b
  BY <1>1
<1> HIDE DEF rest, k
<1>3. da \in Nat \ {0} /\ db \in Nat \ {0} /\ db <= da
  <2> DEFINE la == reserveOut - a
             lb == reserveOut - b
  <2>1. la \in Nat \ {0} /\ lb \in Nat \ {0} /\ lb <= la
    OBVIOUS
  <2> HIDE DEF la, lb
  <2>2. la * rest \in Nat \ {0} /\ lb * rest \in Nat \ {0} /\ lb * rest <= la * rest
    BY <1>1, <2>1
  <2>. QED BY <2>2 DEF la, lb
<1>4. k * a \in Nat /\ k * b \in Nat /\ k * a <= k * b
  BY <1>2
<1> HIDE DEF da, db
<1>5. (k * a) * db <= (k * b) * da
  <2> DEFINE x == k * a
             y == k * b
  <2>1. x \in Nat /\ y \in Nat /\ x <= y
    BY <1>4
  <2> HIDE DEF x, y
  <2>2. x * db <= y * db /\ y * db <= y * da /\ {x * db, y * db, y * da} \subseteq Nat
    BY <1>3, <2>1
  <2>3. x * db <= y * da
    BY <2>2
  <2>. QED BY <2>3 DEF x, y
<1> HIDE DEF ea, eb
<1>6. ea \in Nat /\ eb \in Nat /\ ea * db <= eb * da
  BY <1>2, <1>4, <1>5
<1>7. (ea + da) * db <= (eb + db) * da
  <2>1. (ea + da) * db = ea * db + da * db /\ (eb + db) * da = eb * da + da * db
    BY <1>3, <1>6
  <2>2. ea * db \in Nat /\ eb * da \in Nat /\ da * db \in Nat
    BY <1>3, <1>6
  <2>. QED BY <1>6, <2>1, <2>2
<1>8. ea + da \in Nat /\ eb + db \in Nat
  BY <1>3, <1>6
<1>9. Rounded(ea + da, da) <= Rounded(eb + db, db)
  BY <1>3, <1>7, <1>8, RoundedIsMonotone
<1>10. /\ GetAmountIn(a, reserveIn, reserveOut) = Rounded(ea + da, da)
       /\ GetAmountIn(b, reserveIn, reserveOut) = Rounded(eb + db, db)
  BY DEF GetAmountIn, WithFee, ea, eb, da, db, rest
<1>. QED BY <1>9, <1>10

\* getAmountOut: an input that suffices for an output is quoted at least that output.
THEOREM EnoughIsQuoted ==
  ASSUME NEW amountIn \in Nat, NEW amountOut \in Nat,
         NEW reserveIn \in Nat \ {0}, NEW reserveOut \in Nat,
         Suffices(amountIn, amountOut, reserveIn, reserveOut)
  PROVE  amountOut <= GetAmountOut(amountIn, reserveIn, reserveOut)
<1> DEFINE n == OutNumerator(amountIn, reserveOut)
           d == OutDenominator(amountIn, reserveIn)
           q == Rounded(n, d)
<1>1. n \in Nat /\ d \in Nat \ {0}
  BY Types
<1>2. amountOut * d <= n
  BY DEF Suffices
<1> HIDE DEF n, d
<1>3. q \in Nat /\ 2 * n < 2 * (q * d) + d
  BY <1>1, RoundedIsNearest
<1> HIDE DEF q
<1>4. CASE q < amountOut
  <2>1. (q + 1) * d <= amountOut * d
    BY <1>1, <1>3, <1>4
  <2>2. (q + 1) * d = q * d + d /\ q * d \in Nat /\ amountOut * d \in Nat
    BY <1>1, <1>3
  <2>. QED BY <1>1, <1>2, <1>3, <2>1, <2>2
<1>5. GetAmountOut(amountIn, reserveIn, reserveOut) = q
  BY DEF GetAmountOut, n, d, q
<1>. QED BY <1>3, <1>4, <1>5

--------------------------------------------------------------------------------
(* Induction over finite sets and ranges.                                  *)

\* What holds of a subset of a finite set whenever it holds of all smaller ones holds of all.
LEMMA SubsetInduction ==
  ASSUME NEW S, IsFiniteSet(S), NEW D,
         \A A \in SUBSET S : (\A B \in SUBSET S : B \subseteq A /\ B # A => B \in D) => A \in D
  PROVE  SUBSET S \subseteq D
<1> DEFINE Left == {A \in SUBSET S : A \notin D}
           R == StrictSubsetOrdering(S)
<1>1. SUFFICES ASSUME Left # {} PROVE FALSE
  OBVIOUS
<1>2. FiniteSubsetsOf(S) = SUBSET S
  BY FS_FiniteSubsetsOfFinite
<1>3. IsWellFoundedOn(R, SUBSET S)
  BY <1>2, FS_StrictSubsetOrderingWellFounded
<1>4. PICK A \in Left : \A B \in Left : <<B, A>> \notin R
  <2> HIDE DEF R
  <2>1. Left \subseteq SUBSET S
    OBVIOUS
  <2> HIDE DEF Left
  <2>. QED BY <1>1, <1>3, <2>1, WFMin
<1>5. \A B \in SUBSET S : B \subseteq A /\ B # A => B \in D
  BY <1>4 DEF StrictSubsetOrdering
<1>. QED BY <1>4, <1>5

\* Induction up to a number.
LEMMA RangeInduction ==
  ASSUME NEW n \in Nat, NEW D, 0 \in D, \A i \in 1..n : i - 1 \in D => i \in D
  PROVE  0..n \subseteq D
<1> DEFINE Good == {A \in SUBSET (0..n) : \A k \in 0..n : A = 0..k => k \in D}
<1>1. SUBSET (0..n) \subseteq Good
  <2>1. ASSUME NEW A \in SUBSET (0..n), NEW k \in 0..n, A = 0..k, k # 0,
               \A B \in SUBSET (0..n) : B \subseteq A /\ B # A => B \in Good
        PROVE  k \in D
    <3>1. k - 1 \in 0..n /\ k \in 1..n
      BY <2>1
    <3>2. 0..(k - 1) \in SUBSET (0..n) /\ 0..(k - 1) \subseteq A /\ k \in A /\ k \notin 0..(k - 1)
      BY <2>1
    <3>3. k - 1 \in D
      BY <2>1, <3>1, <3>2
    <3>. QED BY <3>1, <3>3
  <2>2. \A A \in SUBSET (0..n) :
           (\A B \in SUBSET (0..n) : B \subseteq A /\ B # A => B \in Good) => A \in Good
    BY <2>1
  <2> DEFINE I == 0..n
  <2>3. IsFiniteSet(I)
    BY FS_Interval
  <2>4. \A A \in SUBSET I : (\A B \in SUBSET I : B \subseteq A /\ B # A => B \in Good) => A \in Good
    BY <2>2
  <2> HIDE DEF Good, I
  <2>5. SUBSET I \subseteq Good
    BY <2>3, <2>4, SubsetInduction
  <2>. QED BY <2>5 DEF I
<1>2. ASSUME NEW k \in 0..n PROVE k \in D
  <2>1. 0..k \in SUBSET (0..n)
    OBVIOUS
  <2>. QED BY <1>1, <2>1
<1>. QED BY <1>2

\* What a step makes of a number and the value before.
Steps(n, S) == [(1..n) \X S -> S]

Recursions(n, S, first, step) ==
    {f \in [0..n -> S] : f[0] = first /\ \A i \in 1..n : f[i] = step[<<i, f[i - 1]>>]}

\* A function may be defined by recursion up to a number.
LEMMA RangeRecursion ==
  ASSUME NEW n \in Nat, NEW S, NEW first \in S, NEW step \in Steps(n, S)
  PROVE  Recursions(n, S, first, step) # {}
<1> DEFINE Upto(k, f) == f[0] = first /\ \A i \in 1..k : f[i] = step[<<i, f[i - 1]>>]
           D == {k \in 0..n : \E f \in [0..k -> S] : Upto(k, f)}
<1>1. 0 \in D
  <2> DEFINE g == [i \in 0..0 |-> first]
  <2>1. g \in [0..0 -> S] /\ Upto(0, g)
    OBVIOUS
  <2> HIDE DEF g, Upto
  <2>. QED BY <2>1
<1>2. ASSUME NEW k \in 1..n, k - 1 \in D PROVE k \in D
  <2>1. PICK f \in [0..(k - 1) -> S] : Upto(k - 1, f)
    BY <1>2
  <2> DEFINE last == step[<<k, f[k - 1]>>]
             g == [i \in 0..k |-> IF i = k THEN last ELSE f[i]]
  <2>2. last \in S
    <3>1. f[k - 1] \in S
      OBVIOUS
    <3>. QED BY <3>1 DEF Steps
  <2>3. g \in [0..k -> S]
    <3>1. \A i \in 0..k : i # k => i \in 0..(k - 1)
      OBVIOUS
    <3> HIDE DEF last
    <3>. QED BY <2>2, <3>1
  <2>4. g[0] = first
    BY <2>1
  <2>5. ASSUME NEW i \in 1..k PROVE g[i] = step[<<i, g[i - 1]>>]
    <3>1. CASE i = k
      <4>1. k - 1 \in 0..k /\ k - 1 # k /\ k \in 0..k
        OBVIOUS
      <4>2. g[i] = last /\ g[i - 1] = f[k - 1]
        <5> HIDE DEF last
        <5>. QED BY <3>1, <4>1
      <4>. QED BY <3>1, <4>2
    <3>2. CASE i # k
      <4>1. i \in 1..(k - 1) /\ i \in 0..k /\ i - 1 \in 0..k /\ i - 1 # k
        BY <3>2
      <4>2. g[i] = f[i] /\ g[i - 1] = f[i - 1]
        <5> HIDE DEF last
        <5>. QED BY <3>2, <4>1
      <4>. QED BY <2>1, <4>1, <4>2
    <3>. QED BY <3>1, <3>2
  <2> HIDE DEF g
  <2>. QED BY <2>3, <2>4, <2>5
<1>3. n \in D
  <2> HIDE DEF D
  <2>. QED BY <1>1, <1>2, RangeInduction
<1>. QED BY <1>3 DEF Recursions

--------------------------------------------------------------------------------
(* The depth first search.                                                 *)

\* The ways from a token to another one that, once they have left it, meet none of the
\* tokens visited and visit none twice.
Ways(pairs, nodes, visited, token, destination) ==
    {path \in Seq(nodes) :
        /\ path # <<>> /\ path[1] = token /\ path[Len(path)] = destination
        /\ IsInjective(path)
        /\ \A i \in 1..(Len(path) - 1) : PairByTokens(pairs, path[i], path[i + 1]) # {}
        /\ \A i \in 2..Len(path) : path[i] \notin visited}

\* Neighbours are the tokens for which a pair is found.
LEMMA NeighboursTrade ==
  ASSUME NEW pairs \in SUBSET Pairs, NEW a, NEW b
  PROVE  /\ b \in Adjacent(pairs, a) <=> PairByTokens(pairs, a, b) # {}
         /\ Adjacent(pairs, a) \subseteq Tokens
<1>1. \A p \in pairs : p \in Pairs /\ Ends[p] = <<Ends[p][1], Ends[p][2]>>
  BY AutoRouterAssumption
<1>2. \A p \in pairs : (Ends[p] = <<a, b>> <=> Ends[p][1] = a /\ Ends[p][2] = b)
                     /\ (Ends[p] = <<b, a>> <=> Ends[p][1] = b /\ Ends[p][2] = a)
  BY <1>1
<1>3. b \in Adjacent(pairs, a) <=>
        \E p \in pairs : (Ends[p][1] = b /\ Ends[p][2] = a) \/ (Ends[p][1] = a /\ Ends[p][2] = b)
  BY DEF Adjacent
<1>4. PairByTokens(pairs, a, b) # {} <=>
        \E p \in pairs : Ends[p] = <<a, b>> \/ Ends[p] = <<b, a>>
  BY DEF PairByTokens
<1>5. Adjacent(pairs, a) \subseteq Tokens
  BY DEF Adjacent, Tokens
<1>. QED BY <1>2, <1>3, <1>4, <1>5

\* One step of the search: the way ends, ...
LEMMA WaysEnd ==
  ASSUME NEW pairs, NEW nodes, NEW visited, NEW token \in nodes
  PROVE  Ways(pairs, nodes, visited, token, token) = {<<token>>}
<1>1. <<token>> \in Ways(pairs, nodes, visited, token, token)
  BY DEF Ways, IsInjective
<1>2. ASSUME NEW path \in Ways(pairs, nodes, visited, token, token) PROVE path = <<token>>
  <2>1. path \in Seq(nodes) /\ path # <<>> /\ path[1] = path[Len(path)] /\ IsInjective(path)
        /\ path[1] = token
    BY <1>2 DEF Ways
  <2>2. Len(path) \in Nat \ {0} /\ DOMAIN path = 1..Len(path)
    BY <2>1
  <2>3. Len(path) = 1
    <3>1. 1 \in DOMAIN path /\ Len(path) \in DOMAIN path
      BY <2>2
    <3>. QED BY <2>1, <3>1 DEF IsInjective
  <2>. QED BY <2>1, <2>3
<1>. QED BY <1>1, <1>2

\* ... or goes on with a neighbour that is not visited yet.
LEMMA WaysStep ==
  ASSUME NEW pairs \in SUBSET Pairs, NEW nodes, NEW visited, NEW token \in nodes,
         NEW destination, token # destination
  PROVE  \A way : way \in Ways(pairs, nodes, visited, token, destination) <=>
           \E next \in Adjacent(pairs, token) \ (visited \cup {token}) :
             \E path \in Ways(pairs, nodes, visited \cup {token}, next, destination) :
               way = <<token>> \o path
<1> DEFINE here == visited \cup {token}
           W == Ways(pairs, nodes, visited, token, destination)
           Rest(next) == Ways(pairs, nodes, here, next, destination)
           Nexts == Adjacent(pairs, token) \ here
<1>1. ASSUME NEW next \in Nexts, NEW path \in Rest(next)
      PROVE  <<token>> \o path \in W
  <2> DEFINE q == <<token>> \o path
  <2>1. /\ path \in Seq(nodes) /\ path # <<>>
        /\ path[1] = next /\ path[Len(path)] = destination
        /\ IsInjective(path)
        /\ \A i \in 1..(Len(path) - 1) : PairByTokens(pairs, path[i], path[i + 1]) # {}
        /\ \A i \in 2..Len(path) : path[i] \notin here
    BY <1>1 DEF Ways
  <2>2. Len(path) \in Nat \ {0} /\ DOMAIN path = 1..Len(path)
    BY <2>1
  <2>3. /\ q \in Seq(nodes) /\ Len(q) = Len(path) + 1 /\ DOMAIN q = 1..(Len(path) + 1)
        /\ q[1] = token /\ q # <<>>
        /\ \A i \in 2..(Len(path) + 1) : q[i] = path[i - 1]
    BY <2>1, <2>2
  <2> HIDE DEF q
  <2>4. q[Len(q)] = destination
    BY <2>1, <2>2, <2>3
  <2>5. \A i \in 1..Len(path) : path[i] \notin here
    BY <2>1, <2>2
  <2>6. IsInjective(q)
    <3>1. ASSUME NEW a \in 1..(Len(path) + 1), NEW b \in 1..(Len(path) + 1), q[a] = q[b]
          PROVE  a = b
      <4>1. CASE a = 1 \/ b = 1
        BY <3>1, <4>1, <2>2, <2>3, <2>5
      <4>2. CASE a # 1 /\ b # 1
        <5>1. a - 1 \in 1..Len(path) /\ b - 1 \in 1..Len(path) /\ path[a - 1] = path[b - 1]
          BY <3>1, <4>2, <2>2, <2>3
        <5>2. a - 1 = b - 1
          BY <5>1, <2>1, <2>2 DEF IsInjective
        <5>. QED BY <5>2
      <4>. QED BY <4>1, <4>2
    <3>. QED BY <3>1, <2>3 DEF IsInjective
  <2>7. ASSUME NEW i \in 1..(Len(q) - 1) PROVE PairByTokens(pairs, q[i], q[i + 1]) # {}
    <3>1. CASE i = 1
      <4>1. q[1] = token /\ q[2] = next
        BY <2>1, <2>2, <2>3
      <4>. QED BY <3>1, <4>1, NeighboursTrade
    <3>2. CASE i # 1
      <4>1. q[i] = path[i - 1] /\ q[i + 1] = path[i] /\ i - 1 \in 1..(Len(path) - 1)
        BY <3>2, <2>2, <2>3
      <4>2. PairByTokens(pairs, path[i - 1], path[(i - 1) + 1]) # {}
        BY <2>1, <4>1
      <4>3. (i - 1) + 1 = i
        OBVIOUS
      <4>. QED BY <4>1, <4>2, <4>3
    <3>. QED BY <3>1, <3>2
  <2>8. \A i \in 2..Len(q) : q[i] \notin visited
    BY <2>2, <2>3, <2>5
  <2>9. q \in W
    BY <2>3, <2>4, <2>6, <2>7, <2>8 DEF Ways
  <2>. QED BY <2>9 DEF q
<1>2. ASSUME NEW q \in W
      PROVE  \E next \in Nexts : \E path \in Rest(next) : q = <<token>> \o path
  <2>1. /\ q \in Seq(nodes) /\ q # <<>>
        /\ q[1] = token /\ q[Len(q)] = destination
        /\ IsInjective(q)
        /\ \A i \in 1..(Len(q) - 1) : PairByTokens(pairs, q[i], q[i + 1]) # {}
        /\ \A i \in 2..Len(q) : q[i] \notin visited
    BY <1>2 DEF Ways
  <2>2. Len(q) \in Nat /\ Len(q) > 1 /\ DOMAIN q = 1..Len(q)
    BY <2>1
  <2> DEFINE path == Tail(q)
  <2>3. /\ path \in Seq(nodes) /\ Len(path) = Len(q) - 1 /\ DOMAIN path = 1..Len(path)
        /\ \A i \in 1..(Len(q) - 1) : path[i] = q[i + 1]
        /\ q = <<token>> \o path
    BY <2>1, <2>2
  <2> HIDE DEF path
  <2>4. q[2] \in Nexts
    <3>1. q[2] \in Adjacent(pairs, token)
      BY <2>1, <2>2, NeighboursTrade
    <3>2. q[2] # token
      BY <2>1, <2>2 DEF IsInjective
    <3>. QED BY <3>1, <3>2, <2>1, <2>2
  <2>5. path # <<>> /\ path[1] = q[2] /\ path[Len(path)] = destination
    BY <2>1, <2>2, <2>3
  <2>6. IsInjective(path)
    <3>1. ASSUME NEW a \in 1..Len(path), NEW b \in 1..Len(path), path[a] = path[b]
          PROVE  a = b
      <4>1. q[a + 1] = q[b + 1] /\ a + 1 \in 1..Len(q) /\ b + 1 \in 1..Len(q)
        BY <3>1, <2>2, <2>3
      <4>2. a + 1 = b + 1
        BY <4>1, <2>1, <2>2 DEF IsInjective
      <4>. QED BY <4>2
    <3>. QED BY <3>1, <2>3 DEF IsInjective
  <2>7. ASSUME NEW i \in 1..(Len(path) - 1)
        PROVE  PairByTokens(pairs, path[i], path[i + 1]) # {}
    <3>1. path[i] = q[i + 1] /\ path[i + 1] = q[(i + 1) + 1] /\ i + 1 \in 1..(Len(q) - 1)
      BY <2>2, <2>3
    <3>. QED BY <3>1, <2>1
  <2>8. ASSUME NEW i \in 2..Len(path) PROVE path[i] \notin here
    <3>1. path[i] = q[i + 1] /\ i + 1 \in 2..Len(q)
      BY <2>2, <2>3
    <3>2. q[i + 1] # token
      <4>1. i + 1 # 1 /\ i + 1 \in 1..Len(q) /\ 1 \in 1..Len(q)
        BY <2>2, <2>3
      <4>. QED BY <4>1, <2>1, <2>2 DEF IsInjective
    <3>. QED BY <3>1, <3>2, <2>1
  <2>9. path \in Rest(q[2])
    BY <2>3, <2>5, <2>6, <2>7, <2>8 DEF Ways
  <2>. QED BY <2>3, <2>4, <2>9
<1>. QED BY <1>1, <1>2

\* A search meets finitely many tokens.
LEMMA NodesAreFinite ==
  ASSUME NEW source
  PROVE  IsFiniteSet(Nodes(source))
<1> DEFINE ends(i) == {Ends[p][i] : p \in Pairs}
           end(i) == [p \in Pairs |-> Ends[p][i]]
<1>1. IsFiniteSet(Pairs)
  BY AutoRouterAssumption
<1>2. ASSUME NEW i \in {1, 2} PROVE IsFiniteSet(ends(i))
  <2>1. end(i) \in Surjection(Pairs, ends(i))
    BY DEF Surjection
  <2> HIDE DEF ends, end
  <2>. QED BY <1>1, <2>1, FS_Surjection
<1>3. Nodes(source) = (ends(1) \cup ends(2)) \cup {source}
  BY DEF Nodes, Tokens
<1>4. IsFiniteSet(ends(1)) /\ IsFiniteSet(ends(2))
  BY <1>2
<1> HIDE DEF ends
<1>5. IsFiniteSet(ends(1) \cup ends(2))
  BY <1>4, FS_Union
<1>6. IsFiniteSet({source})
  BY FS_Singleton
<1>. QED BY <1>3, <1>5, <1>6, FS_Union

\* What the search returns: the ways are a solution of its equation, and by induction over the
\* tokens not visited its only one.
LEMMA SearchFinds ==
  ASSUME NEW pairs \in SUBSET Pairs, NEW source, NEW destination
  PROVE  Paths(pairs, source, destination)
           = Ways(pairs, Nodes(source), {}, source, destination)
<1> DEFINE N == Nodes(source)
           Dom == (SUBSET N) \X N
           Calls(search, node) ==
               LET visited == node[1] \cup {node[2]} IN
               IF node[2] = destination THEN {<<node[2]>>}
               ELSE {<<node[2]>> \o path : path \in
                        UNION {search[<<visited, next>>] :
                                 next \in Adjacent(pairs, node[2]) \ visited}}
           Search == CHOOSE search : search = [node \in Dom |-> Calls(search, node)]
           From(visited, token) == Ways(pairs, N, visited, token, destination)
           All == [node \in Dom |-> From(node[1], node[2])]
<1>1. Paths(pairs, source, destination) = Search[<<{}, source>>]
  BY DEF Paths
<1>2. ASSUME NEW token \in N PROVE Adjacent(pairs, token) \subseteq N
  BY NeighboursTrade DEF Nodes
<1>3. ASSUME NEW visited \in SUBSET N, NEW token \in N
      PROVE  From(visited, token) =
               IF token = destination THEN {<<token>>}
               ELSE {<<token>> \o path : path \in
                        UNION {From(visited \cup {token}, next) :
                                 next \in Adjacent(pairs, token) \ (visited \cup {token})}}
  <2>1. CASE token = destination
    BY <2>1, WaysEnd
  <2>2. CASE token # destination
    <3>1. From(visited, token) =
            {<<token>> \o path : path \in
                UNION {From(visited \cup {token}, next) :
                         next \in Adjacent(pairs, token) \ (visited \cup {token})}}
      <4>1. \A way : way \in From(visited, token) <=>
              \E next \in Adjacent(pairs, token) \ (visited \cup {token}) :
                \E path \in From(visited \cup {token}, next) : way = <<token>> \o path
        <5> HIDE DEF N
        <5>. QED BY <2>2, WaysStep
      <4> HIDE DEF From, N
      <4>. QED BY <4>1
    <3> HIDE DEF From
    <3>. QED BY <2>2, <3>1
  <2>. QED BY <2>1, <2>2
<1>4. ASSUME NEW node \in Dom PROVE All[node] = Calls(All, node)
  <2> DEFINE visited == node[1] \cup {node[2]}
             Nexts == Adjacent(pairs, node[2]) \ visited
  <2>1. node[1] \in SUBSET N /\ node[2] \in N /\ visited \in SUBSET N
    OBVIOUS
  <2>2. \A next \in Nexts : <<visited, next>> \in Dom
    BY <1>2, <2>1
  <2>3. \A next \in Nexts : All[<<visited, next>>] = From(visited, next)
    <3> HIDE DEF From, visited, Nexts, Dom
    <3>. QED BY <2>2
  <2>4. All[node] = From(node[1], node[2])
    <3> HIDE DEF From, Dom
    <3>. QED OBVIOUS
  <2>5. UNION {All[<<visited, next>>] : next \in Nexts}
          = UNION {From(visited, next) : next \in Nexts}
    <3> HIDE DEF From, visited, Nexts, All
    <3>. QED BY <2>3
  <2> HIDE DEF From, All, N
  <2>. QED BY <1>3, <2>1, <2>4, <2>5
<1>5. Search = [node \in Dom |-> Calls(Search, node)]
  <2>1. All = [node \in Dom |-> Calls(All, node)]
    <3> HIDE DEF Calls, Dom, From
    <3>1. All = [node \in Dom |-> All[node]]
      OBVIOUS
    <3> HIDE DEF All
    <3>. QED BY <1>4, <3>1
  <2> HIDE DEF Calls, Dom, All
  <2>. QED BY <2>1
<1> DEFINE D == {A \in SUBSET N : \A token \in N : Search[<<N \ A, token>>] = From(N \ A, token)}
<1>6. ASSUME NEW A \in SUBSET N, \A B \in SUBSET N : B \subseteq A /\ B # A => B \in D
      PROVE  A \in D
  <2> DEFINE visited == N \ A
  <2>1. ASSUME NEW token \in N,
               \A next \in Adjacent(pairs, token) \ (visited \cup {token}) :
                  Search[<<visited \cup {token}, next>>] = From(visited \cup {token}, next)
        PROVE  Search[<<visited, token>>] = From(visited, token)
    <3> DEFINE here == visited \cup {token}
               Nexts == Adjacent(pairs, token) \ here
               node == <<visited, token>>
    <3>1. node \in Dom /\ node[1] = visited /\ node[2] = token
      OBVIOUS
    <3>2. Search[node] = Calls(Search, node)
      <4> HIDE DEF Calls, Search, node, Dom
      <4>. QED BY <1>5, <3>1
    <3>3. UNION {Search[<<here, next>>] : next \in Nexts}
            = UNION {From(here, next) : next \in Nexts}
      <4> HIDE DEF Search, From, N
      <4>. QED BY <2>1
    <3>4. visited \in SUBSET N
      OBVIOUS
    <3>5. Calls(Search, node) =
            IF token = destination THEN {<<token>>}
            ELSE {<<token>> \o path : path \in UNION {Search[<<here, next>>] : next \in Nexts}}
      <4> HIDE DEF Search, N, visited
      <4>. QED BY <3>1
    <3>6. From(visited, token) =
            IF token = destination THEN {<<token>>}
            ELSE {<<token>> \o path : path \in UNION {From(here, next) : next \in Nexts}}
      <4> HIDE DEF From, N, visited
      <4>. QED BY <1>3, <3>4
    <3> HIDE DEF Search, From, N, visited, Nexts, here, Calls
    <3>. QED BY <3>2, <3>3, <3>5, <3>6
  <2>2. ASSUME NEW token \in A PROVE Search[<<visited, token>>] = From(visited, token)
    <3>1. visited \cup {token} = N \ (A \ {token}) /\ A \ {token} \in D /\ token \in N
      <4> HIDE DEF D, N
      <4>. QED BY <1>6
    <3>2. \A next \in N : Search[<<visited \cup {token}, next>>] = From(visited \cup {token}, next)
      <4> HIDE DEF Search, From, N
      <4>. QED BY <3>1
    <3> HIDE DEF Search, From, N, visited
    <3>. QED BY <1>2, <2>1, <3>1, <3>2
  <2>3. ASSUME NEW token \in N, token \notin A
        PROVE  Search[<<visited, token>>] = From(visited, token)
    <3>1. visited \cup {token} = visited
      BY <2>3
    <3>2. \A next \in Adjacent(pairs, token) \ visited : next \in A
      BY <1>2
    <3> HIDE DEF Search, From, N, visited
    <3>. QED BY <2>1, <2>2, <2>3, <3>1, <3>2
  <2> HIDE DEF Search, From, N
  <2>. QED BY <2>2, <2>3
<1>7. {} \in SUBSET N /\ N \ N = {} /\ N \in SUBSET N /\ source \in N
  BY DEF Nodes
<1>8. N \in D
  <2>1. IsFiniteSet(N)
    BY NodesAreFinite
  <2> HIDE DEF D, N
  <2>2. SUBSET N \subseteq D
    BY <1>6, <2>1, SubsetInduction
  <2>. QED BY <2>2
<1> HIDE DEF Search, From, N
<1>9. Search[<<{}, source>>] = From({}, source)
  BY <1>7, <1>8
<1>. QED BY <1>1, <1>9 DEF From, N

\* GraphService finds every way to swap, and none that visits a token twice.
THEOREM SearchIsComplete ==
  ASSUME NEW pairs \in SUBSET Pairs, NEW source, NEW destination
  PROVE  Paths(pairs, source, destination) = SimplePaths(pairs, source, destination)
<1> DEFINE N == Nodes(source)
           Long == UNION {[1..n -> N] : n \in 1..Cardinality(N)}
<1>1. ASSUME NEW path \in Long PROVE path \in Seq(N) /\ path # <<>>
  <2>1. PICK n \in 1..Cardinality(N) : path \in [1..n -> N]
    OBVIOUS
  <2>2. n \in Nat \ {0}
    <3>1. Cardinality(N) \in Nat
      BY NodesAreFinite, FS_CardinalityType
    <3>. QED BY <3>1
  <2>. QED BY <2>1, <2>2
<1>2. ASSUME NEW path \in Seq(N), path # <<>>, IsInjective(path) PROVE path \in Long
  <2>1. Len(path) \in Nat \ {0} /\ path \in [1..Len(path) -> N]
    BY <1>2
  <2>2. path \in Injection(1..Len(path), N)
    BY <1>2, <2>1 DEF Injection
  <2>3. Cardinality(1..Len(path)) <= Cardinality(N) /\ Cardinality(N) \in Nat
    <3> HIDE DEF N
    <3>1. IsFiniteSet(N)
      BY NodesAreFinite DEF N
    <3>. QED BY <2>2, <3>1, FS_Injection, FS_CardinalityType
  <2>4. Cardinality(1..Len(path)) = Len(path)
    BY <2>1, FS_Interval
  <2>. QED BY <2>1, <2>3, <2>4
<1>3. \A path \in Seq(N) : \A i \in 2..Len(path) : path[i] \notin {}
  OBVIOUS
<1>4. SimplePaths(pairs, source, destination) =
        {path \in Long : /\ path[1] = source /\ path[Len(path)] = destination
                         /\ IsInjective(path)
                         /\ \A i \in 1..(Len(path) - 1) :
                              PairByTokens(pairs, path[i], path[i + 1]) # {}}
  BY DEF SimplePaths
<1>5. Ways(pairs, N, {}, source, destination) = SimplePaths(pairs, source, destination)
  <2> HIDE DEF N, Long
  <2>. QED BY <1>1, <1>2, <1>3, <1>4 DEF Ways
<1>. QED BY <1>5, SearchFinds

--------------------------------------------------------------------------------
(* The hops of a path, and the amounts along them.                         *)

\* Hops for which a pair is found.
Traded(pairs, nodes) == {hop \in nodes \X nodes : PairByTokens(pairs, hop[1], hop[2]) # {}}

\* A pair is found for every hop that is kept, and all are kept when one is found for each.
LEMMA HopsAreTraded ==
  ASSUME NEW pairs, NEW nodes, NEW path \in Seq(nodes), path # <<>>
  PROVE  /\ Hops(pairs, path) \in Seq(Traded(pairs, nodes))
         /\ (\A i \in 1..(Len(path) - 1) : PairByTokens(pairs, path[i], path[i + 1]) # {})
              => Len(Hops(pairs, path)) = Len(path) - 1
<1> DEFINE last == Len(path) - 1
           S == Seq(Traded(pairs, nodes))
           found(n) == PairByTokens(pairs, path[n], path[n + 1]) # {}
           hop(n) == <<path[n], path[n + 1]>>
           Calls(hops, n) ==
               IF n = 0 THEN <<>>
               ELSE IF PairByTokens(pairs, path[n], path[n + 1]) = {} THEN hops[n - 1]
               ELSE Append(hops[n - 1], <<path[n], path[n + 1]>>)
           H == CHOOSE hops : hops = [n \in 0..last |-> Calls(hops, n)]
           step == [at \in (1..last) \X S |->
                      IF found(at[1]) THEN Append(at[2], hop(at[1])) ELSE at[2]]
<1>1. last \in Nat
  OBVIOUS
<1>2. ASSUME NEW n \in 1..last, found(n) PROVE hop(n) \in Traded(pairs, nodes)
  <2>1. path[n] \in nodes /\ path[n + 1] \in nodes
    <3>1. n \in 1..Len(path) /\ n + 1 \in 1..Len(path)
      OBVIOUS
    <3>. QED BY <3>1
  <2>. QED BY <1>2, <2>1 DEF Traded
<1>3. ASSUME NEW n \in 1..last, NEW s \in S
      PROVE  (IF found(n) THEN Append(s, hop(n)) ELSE s) \in S
  <2>1. CASE found(n)
    <3>1. hop(n) \in Traded(pairs, nodes)
      BY <1>2, <2>1
    <3> HIDE DEF hop, found
    <3>. QED BY <2>1, <3>1
  <2>2. CASE ~found(n)
    BY <2>2
  <2>. QED BY <2>1, <2>2
<1>4. step \in Steps(last, S)
  <2> HIDE DEF S, found, hop, last
  <2>. QED BY <1>3 DEF Steps
<1>5. \E f \in [0..last -> S] : f[0] = <<>> /\ \A n \in 1..last : f[n] = step[<<n, f[n - 1]>>]
  <2> DEFINE first == <<>>
  <2>1. first \in S
    OBVIOUS
  <2> HIDE DEF S, step, last, first
  <2>2. Recursions(last, S, first, step) # {}
    BY <1>1, <1>4, <2>1, RangeRecursion
  <2>. QED BY <2>2 DEF first, Recursions
<1>6. H = [n \in 0..last |-> Calls(H, n)]
  <2>1. PICK f \in [0..last -> S] : f[0] = <<>> /\ \A n \in 1..last : f[n] = step[<<n, f[n - 1]>>]
    BY <1>5
  <2>2. ASSUME NEW n \in 0..last PROVE f[n] = Calls(f, n)
    <3>1. CASE n = 0
      BY <2>1, <3>1
    <3>2. CASE n # 0
      <4>1. n \in 1..last /\ n - 1 \in 0..last /\ f[n - 1] \in S
        BY <1>1, <3>2
      <4>2. f[n] = step[<<n, f[n - 1]>>] /\ <<n, f[n - 1]>> \in (1..last) \X S
        BY <2>1, <4>1
      <4>3. step[<<n, f[n - 1]>>] = IF found(n) THEN Append(f[n - 1], hop(n)) ELSE f[n - 1]
        <5> HIDE DEF S, found, hop, last
        <5>. QED BY <4>2
      <4>. QED BY <3>2, <4>2, <4>3
    <3>. QED BY <3>1, <3>2
  <2>3. f = [n \in 0..last |-> Calls(f, n)]
    <3> HIDE DEF Calls, last, S
    <3>. QED BY <2>2
  <2> HIDE DEF Calls, last
  <2>. QED BY <2>3
<1> DEFINE all == \A i \in 1..last : found(i)
           D == {n \in 0..last : H[n] \in S /\ (all => Len(H[n]) = n)}
<1>7. 0..last \subseteq D
  <2>1. 0 \in D
    <3>1. H[0] = <<>>
      <4> HIDE DEF H, last
      <4>. QED BY <1>1, <1>6
    <3>2. H[0] \in S /\ Len(H[0]) = 0 /\ 0 \in 0..last
      <4> HIDE DEF H
      <4>. QED BY <3>1, <1>1
    <3> HIDE DEF H, S, last
    <3>. QED BY <3>2
  <2>2. ASSUME NEW n \in 1..last, n - 1 \in D PROVE n \in D
    <3>1. n \in 0..last /\ n - 1 \in 0..last /\ n # 0
      BY <1>1
    <3>2. H[n] = IF found(n) THEN Append(H[n - 1], hop(n)) ELSE H[n - 1]
      <4>1. H[n] = Calls(H, n)
        <5> HIDE DEF H, Calls, last
        <5>. QED BY <1>6, <3>1
      <4> HIDE DEF H
      <4>. QED BY <3>1, <4>1
    <3>3. H[n - 1] \in S /\ (all => Len(H[n - 1]) = n - 1)
      <4> HIDE DEF H, S, all
      <4>. QED BY <2>2
    <3>4. H[n] \in S
      <4> HIDE DEF H, S, found, hop
      <4>. QED BY <1>3, <3>2, <3>3
    <3>5. all => H[n] = Append(H[n - 1], hop(n))
      <4> HIDE DEF H, hop
      <4>. QED BY <3>2
    <3>6. all => Len(H[n]) = n
      <4> HIDE DEF H, hop, all
      <4>. QED BY <3>1, <3>3, <3>5
    <3> HIDE DEF H, S, all
    <3>. QED BY <3>1, <3>4, <3>6
  <2> HIDE DEF D, last
  <2>. QED BY <1>1, <2>1, <2>2, RangeInduction
<1>8. H[last] \in S /\ (all => Len(H[last]) = last)
  <2>1. last \in 0..last
    BY <1>1
  <2> HIDE DEF H, S, all, last
  <2>. QED BY <1>7, <2>1
<1>9. Hops(pairs, path) = H[last]
  BY DEF Hops
<1> HIDE DEF H
<1>. QED BY <1>8, <1>9

\* What is known of the reserves of the pairs a request read.
Priced(pairs, info) ==
    pairs \in SUBSET Pairs /\ DOMAIN info = pairs /\ \A p \in pairs : info[p] \in ReserveSets

Reserves == (Nat \ {0}) \X (Nat \ {0})

\* Every hop has the reserves of its pair.
LEMMA HopsArePriced ==
  ASSUME NEW pairs, NEW info, Priced(pairs, info),
         NEW nodes, NEW path \in Seq(nodes), path # <<>>
  PROVE  /\ OrderedReserves(pairs, info, path) \in Seq(Reserves)
         /\ Len(OrderedReserves(pairs, info, path)) = Len(Hops(pairs, path))
         /\ Len(AddressRoute(pairs, path)) = Len(Hops(pairs, path))
<1> DEFINE hops == Hops(pairs, path)
           route == AddressRoute(pairs, path)
           both == OrderedReserves(pairs, info, path)
<1>1. hops \in Seq(Traded(pairs, nodes)) /\ Len(hops) \in Nat /\ DOMAIN hops = 1..Len(hops)
  BY HopsAreTraded
<1>2. route = [i \in DOMAIN hops |->
                 CHOOSE p \in pairs : p \in PairByTokens(pairs, hops[i][1], hops[i][2])]
  BY DEF AddressRoute
<1>3. ASSUME NEW i \in 1..Len(hops) PROVE route[i] \in pairs
  <2>1. hops[i] \in Traded(pairs, nodes)
    BY <1>1
  <2>2. PairByTokens(pairs, hops[i][1], hops[i][2]) # {}
    BY <2>1 DEF Traded
  <2>3. \E p \in pairs : p \in PairByTokens(pairs, hops[i][1], hops[i][2])
    BY <2>2 DEF PairByTokens
  <2> HIDE DEF hops, route
  <2>. QED BY <1>1, <1>2, <2>3
<1>4. both = [i \in DOMAIN hops |-> IF Ends[route[i]][1] = hops[i][1] THEN info[route[i]]
                                    ELSE <<info[route[i]][2], info[route[i]][1]>>]
  BY DEF OrderedReserves
<1> HIDE DEF hops, route, both
<1>5. ASSUME NEW i \in 1..Len(hops) PROVE both[i] \in Reserves
  <2>1. info[route[i]] \in Reserves
    BY <1>3, AutoRouterAssumption DEF Priced, Reserves
  <2>2. both[i] \in {info[route[i]], <<info[route[i]][2], info[route[i]][1]>>}
    BY <1>1, <1>4
  <2>. QED BY <2>1, <2>2 DEF Reserves
<1>6. both \in [1..Len(hops) -> Reserves]
  <2>1. both = [i \in 1..Len(hops) |-> both[i]]
    BY <1>1, <1>4
  <2> HIDE DEF Reserves
  <2>. QED BY <1>5, <2>1
<1>7. both \in Seq(Reserves) /\ Len(both) = Len(hops)
  <2> HIDE DEF Reserves
  <2>. QED BY <1>1, <1>6
<1>8. Len(route) = Len(hops)
  BY <1>1, <1>2
<1>. QED BY <1>7, <1>8 DEF hops, route, both

\* An amount that is paid in buys an amount at every hop.
LEMMA AmountsOfInput ==
  ASSUME NEW amountIn \in Nat, NEW both \in Seq(Reserves)
  PROVE  LET amounts == AmountsFixedInput(amountIn, both) IN
         /\ amounts \in [0..Len(both) -> Nat]
         /\ amounts[0] = amountIn
         /\ \A i \in 1..Len(both) :
              amounts[i] = GetAmountOut(amounts[i - 1], both[i][1], both[i][2])
<1> DEFINE last == Len(both)
           out(x, i) == GetAmountOut(x, both[i][1], both[i][2])
           Calls(amount, i) == IF i = 0 THEN amountIn ELSE out(amount[i - 1], i)
           A == CHOOSE amount : amount = [i \in 0..last |-> Calls(amount, i)]
           step == [at \in (1..last) \X Nat |-> out(at[2], at[1])]
<1>1. last \in Nat /\ \A i \in 1..last : both[i] \in Reserves
  OBVIOUS
<1>2. ASSUME NEW x \in Nat, NEW i \in 1..last PROVE out(x, i) \in Nat
  <2>1. both[i][1] \in Nat \ {0} /\ both[i][2] \in Nat
    BY <1>1 DEF Reserves
  <2>2. out(x, i) \in 0..(both[i][2])
    BY <2>1, OutputWithinReserve
  <2>. QED BY <2>1, <2>2
<1>3. step \in Steps(last, Nat)
  <2> HIDE DEF out, last
  <2>. QED BY <1>2 DEF Steps
<1>4. A = [i \in 0..last |-> Calls(A, i)]
  <2>1. Recursions(last, Nat, amountIn, step) # {}
    <3> HIDE DEF step, last
    <3>. QED BY <1>1, <1>3, RangeRecursion
  <2>2. PICK f \in [0..last -> Nat] :
          f[0] = amountIn /\ \A i \in 1..last : f[i] = step[<<i, f[i - 1]>>]
    BY <2>1 DEF Recursions
  <2>3. ASSUME NEW i \in 0..last PROVE f[i] = Calls(f, i)
    <3>1. CASE i = 0
      BY <2>2, <3>1
    <3>2. CASE i # 0
      <4>1. i \in 1..last /\ i - 1 \in 0..last /\ f[i - 1] \in Nat
        BY <1>1, <3>2
      <4>2. step[<<i, f[i - 1]>>] = out(f[i - 1], i)
        <5> HIDE DEF out, last
        <5>. QED BY <4>1
      <4> HIDE DEF step
      <4>. QED BY <2>2, <3>2, <4>1, <4>2
    <3>. QED BY <3>1, <3>2
  <2>4. f = [i \in 0..last |-> Calls(f, i)]
    <3> HIDE DEF Calls, last
    <3>. QED BY <2>3
  <2> HIDE DEF Calls, last
  <2>. QED BY <2>4
<1> DEFINE D == {i \in 0..last : A[i] \in Nat}
<1>5. ASSUME NEW i \in 0..last PROVE A[i] = Calls(A, i)
  <2> HIDE DEF A, Calls, last
  <2>. QED BY <1>4
<1>6. 0..last \subseteq D
  <2>1. 0 \in D
    <3>1. 0 \in 0..last
      BY <1>1
    <3>2. A[0] = amountIn
      <4> HIDE DEF A, last
      <4>. QED BY <1>5, <3>1
    <3> HIDE DEF A, last
    <3>. QED BY <3>1, <3>2
  <2>2. ASSUME NEW i \in 1..last, i - 1 \in D PROVE i \in D
    <3>1. i \in 0..last /\ i # 0 /\ A[i - 1] \in Nat
      <4> HIDE DEF A
      <4>. QED BY <1>1, <2>2
    <3>2. A[i] = out(A[i - 1], i)
      <4> HIDE DEF A, last, out
      <4>. QED BY <1>5, <3>1
    <3> HIDE DEF A, last, out
    <3>. QED BY <1>2, <3>1, <3>2
  <2> HIDE DEF D, last
  <2>. QED BY <1>1, <2>1, <2>2, RangeInduction
<1>7. AmountsFixedInput(amountIn, both) = A
  BY DEF AmountsFixedInput
<1>8. A = [i \in 0..last |-> A[i]]
  <2> HIDE DEF Calls, last
  <2>1. DOMAIN A = 0..last
    <3> HIDE DEF A
    <3>. QED BY <1>4
  <2> HIDE DEF A
  <2>. QED BY <1>4, <2>1
<1>9. A \in [0..last -> Nat]
  <2> HIDE DEF A, last
  <2>. QED BY <1>6, <1>8
<1>10. A[0] = amountIn /\ \A i \in 1..last : A[i] = out(A[i - 1], i)
  <2>1. 0 \in 0..last /\ \A i \in 1..last : i \in 0..last /\ i # 0
    BY <1>1
  <2> HIDE DEF A, last, out
  <2>. QED BY <1>5, <2>1
<1> HIDE DEF A
<1>. QED BY <1>7, <1>9, <1>10

\* The amounts that lead to an output are computed from its end.
LEMMA AmountsOfOutput ==
  ASSUME NEW amountOut \in Nat, NEW both \in Seq(Reserves), NEW amounts,
         amounts = AmountsFixedOutput(amountOut, both)
  PROVE  /\ amounts \in [0..Len(both) -> Nat]
         /\ amounts[Len(both)] = amountOut
         /\ \A i \in 0..(Len(both) - 1) :
              amounts[i] = IF amounts[i + 1] = 0 THEN 0
                           ELSE GetAmountIn(amounts[i + 1], both[i + 1][1], both[i + 1][2])
<1> DEFINE last == Len(both)
           paid(x, i) == IF x = 0 THEN 0 ELSE GetAmountIn(x, both[i][1], both[i][2])
           Calls(amount, i) == IF i = last THEN amountOut ELSE paid(amount[i + 1], i + 1)
           A == CHOOSE amount : amount = [i \in 0..last |-> Calls(amount, i)]
           step == [at \in (1..last) \X Nat |-> paid(at[2], last + 1 - at[1])]
<1>1. last \in Nat /\ \A i \in 1..last : both[i] \in Reserves
  OBVIOUS
<1>2. ASSUME NEW x \in Nat, NEW i \in 1..last PROVE paid(x, i) \in Nat
  <2>1. both[i][1] \in Nat /\ both[i][2] \in Nat
    BY <1>1 DEF Reserves
  <2>2. CASE x < both[i][2]
    BY <2>1, <2>2, InputSuffices
  <2>3. CASE x >= both[i][2]
    BY <2>3 DEF GetAmountIn
  <2>. QED BY <2>1, <2>2, <2>3
<1>3. step \in Steps(last, Nat)
  <2>1. \A i \in 1..last : last + 1 - i \in 1..last
    BY <1>1
  <2> HIDE DEF paid, last
  <2>. QED BY <1>2, <2>1 DEF Steps
<1>4. A = [i \in 0..last |-> Calls(A, i)]
  <2>1. Recursions(last, Nat, amountOut, step) # {}
    <3> HIDE DEF step, last
    <3>. QED BY <1>1, <1>3, RangeRecursion
  <2>2. PICK f \in [0..last -> Nat] :
          f[0] = amountOut /\ \A i \in 1..last : f[i] = step[<<i, f[i - 1]>>]
    BY <2>1 DEF Recursions
  <2> DEFINE g == [i \in 0..last |-> f[last - i]]
  <2>3. ASSUME NEW i \in 0..last PROVE g[i] = Calls(g, i)
    <3>1. CASE i = last
      <4>1. g[i] = f[0]
        BY <1>1, <3>1
      <4>. QED BY <2>2, <3>1, <4>1
    <3>2. CASE i # last
      <4>1. /\ last - i \in 1..last /\ i + 1 \in 0..last /\ f[(last - i) - 1] \in Nat
            /\ last - (i + 1) = (last - i) - 1 /\ last + 1 - (last - i) = i + 1
        BY <1>1, <3>2
      <4>2. g[i] = f[last - i] /\ g[i + 1] = f[(last - i) - 1]
        <5> HIDE DEF last
        <5>. QED BY <4>1
      <4>3. step[<<last - i, f[(last - i) - 1]>>] = paid(f[(last - i) - 1], i + 1)
        <5> HIDE DEF paid, last
        <5>. QED BY <4>1
      <4> HIDE DEF step, g, paid
      <4>. QED BY <2>2, <3>2, <4>1, <4>2, <4>3
    <3>. QED BY <3>1, <3>2
  <2>4. g = [i \in 0..last |-> Calls(g, i)]
    <3> HIDE DEF Calls, last
    <3>1. g = [i \in 0..last |-> g[i]]
      OBVIOUS
    <3> HIDE DEF g
    <3>. QED BY <2>3, <3>1
  <2> HIDE DEF Calls, last, g
  <2>. QED BY <2>4
<1>5. ASSUME NEW i \in 0..last PROVE A[i] = Calls(A, i)
  <2> HIDE DEF A, Calls, last
  <2>. QED BY <1>4
<1> DEFINE D == {i \in 0..last : A[last - i] \in Nat}
<1>6. 0..last \subseteq D
  <2>1. 0 \in D
    <3>1. last \in 0..last /\ 0 \in 0..last /\ last - 0 = last
      BY <1>1
    <3>2. A[last] = amountOut
      <4> HIDE DEF A, last
      <4>. QED BY <1>5, <3>1
    <3> HIDE DEF A, last
    <3>. QED BY <3>1, <3>2
  <2>2. ASSUME NEW i \in 1..last, i - 1 \in D PROVE i \in D
    <3>1. /\ i \in 0..last /\ last - i \in 0..last /\ last - i # last
          /\ (last - i) + 1 \in 1..last /\ (last - i) + 1 = last - (i - 1)
      BY <1>1
    <3>2. A[last - (i - 1)] \in Nat
      <4> HIDE DEF A
      <4>. QED BY <2>2
    <3>3. A[last - i] = paid(A[(last - i) + 1], (last - i) + 1)
      <4>1. A[last - i] = Calls(A, last - i)
        <5> HIDE DEF A, last, Calls
        <5>. QED BY <1>5, <3>1
      <4> HIDE DEF A, last, paid
      <4>. QED BY <4>1, <3>1
    <3> HIDE DEF A, last, paid
    <3>. QED BY <1>2, <3>1, <3>2, <3>3
  <2> HIDE DEF D, last
  <2>. QED BY <1>1, <2>1, <2>2, RangeInduction
<1>7. amounts = A
  BY DEF AmountsFixedOutput
<1>8. DOMAIN A = 0..last /\ A = [i \in 0..last |-> A[i]]
  <2> HIDE DEF Calls, last
  <2>1. DOMAIN A = 0..last
    <3> HIDE DEF A
    <3>. QED BY <1>4
  <2> HIDE DEF A
  <2>. QED BY <1>4, <2>1
<1>9. ASSUME NEW i \in 0..last PROVE A[i] \in Nat
  <2>1. last - i \in 0..last /\ last - (last - i) = i
    BY <1>1
  <2>2. last - i \in D
    <3> HIDE DEF D
    <3>. QED BY <1>6, <2>1
  <2> HIDE DEF A, last
  <2>. QED BY <2>1, <2>2
<1>10. A \in [0..last -> Nat]
  <2> HIDE DEF A, last
  <2>. QED BY <1>8, <1>9
<1>11. ASSUME NEW i \in 0..(last - 1) PROVE A[i] = paid(A[i + 1], i + 1)
  <2>1. i \in 0..last /\ i # last
    BY <1>1
  <2>2. A[i] = Calls(A, i)
    <3> HIDE DEF A, last, Calls
    <3>. QED BY <1>5, <2>1
  <2> HIDE DEF A, last, paid
  <2>. QED BY <2>1, <2>2
<1>12. A[last] = amountOut
  <2>1. last \in 0..last
    BY <1>1
  <2> HIDE DEF A, last
  <2>. QED BY <1>5, <2>1
<1> HIDE DEF A
<1>. QED BY <1>7, <1>10, <1>11, <1>12

\* When an amount is quoted for the first token, every hop was quoted, and gets enough.
LEMMA EveryHopSuffices ==
  ASSUME NEW amountOut \in Nat, NEW both \in Seq(Reserves), NEW amounts,
         amounts = AmountsFixedOutput(amountOut, both), amounts[0] # 0
  PROVE  \A i \in 1..Len(both) : Suffices(amounts[i - 1], amounts[i], both[i][1], both[i][2])
<1> DEFINE last == Len(both)
           D == {i \in 0..last : amounts[i] # 0}
<1>1. /\ last \in Nat /\ \A i \in 0..last : amounts[i] \in Nat
      /\ \A i \in 1..last : both[i] \in Reserves
      /\ \A i \in 1..last :
           amounts[i - 1] = IF amounts[i] = 0 THEN 0
                            ELSE GetAmountIn(amounts[i], both[i][1], both[i][2])
  <2>1. amounts \in [0..last -> Nat]
    BY AmountsOfOutput
  <2>2. ASSUME NEW i \in 1..last
        PROVE  amounts[i - 1] = IF amounts[i] = 0 THEN 0
                                ELSE GetAmountIn(amounts[i], both[i][1], both[i][2])
    <3>1. i - 1 \in 0..(last - 1) /\ (i - 1) + 1 = i
      OBVIOUS
    <3>2. amounts[i - 1] = IF amounts[(i - 1) + 1] = 0 THEN 0
            ELSE GetAmountIn(amounts[(i - 1) + 1], both[(i - 1) + 1][1], both[(i - 1) + 1][2])
      BY <3>1, AmountsOfOutput
    <3>. QED BY <3>1, <3>2
  <2>. QED BY <2>1, <2>2
<1>2. 0..last \subseteq D
  <2>1. 0 \in D
    BY <1>1
  <2>2. \A i \in 1..last : i - 1 \in D => i \in D
    BY <1>1
  <2> HIDE DEF D, last
  <2>. QED BY <1>1, <2>1, <2>2, RangeInduction
<1>3. ASSUME NEW i \in 1..last PROVE Suffices(amounts[i - 1], amounts[i], both[i][1], both[i][2])
  <2>1. i - 1 \in 0..last /\ i \in 0..last
    OBVIOUS
  <2>2. amounts[i - 1] # 0 /\ amounts[i] # 0
    BY <1>2, <2>1
  <2>3. amounts[i - 1] = GetAmountIn(amounts[i], both[i][1], both[i][2])
    BY <1>1, <2>2
  <2>4. both[i][1] \in Nat /\ both[i][2] \in Nat /\ amounts[i] \in Nat
    BY <1>1, <2>1 DEF Reserves
  <2>5. amounts[i] < both[i][2]
    BY <2>2, <2>3, <2>4 DEF GetAmountIn
  <2> DEFINE x == amounts[i] in == both[i][1] out == both[i][2]
  <2>6. Suffices(GetAmountIn(x, in, out), x, in, out)
    <3> HIDE DEF x, in, out
    <3>. QED BY <2>4, <2>5, InputSuffices DEF x, in, out
  <2>. QED BY <2>3, <2>6
<1>. QED BY <1>3

\* computeIntermediaryAmountsFixedInput: more paid in along a route buys no less of any token on
\* it.
THEOREM RoutesAreMonotone ==
  ASSUME NEW a \in Nat, NEW b \in Nat, a <= b, NEW both \in Seq(Reserves)
  PROVE  \A i \in 0..Len(both) : AmountsFixedInput(a, both)[i] <= AmountsFixedInput(b, both)[i]
<1> DEFINE last == Len(both)
           less == AmountsFixedInput(a, both)
           more == AmountsFixedInput(b, both)
           D == {i \in 0..last : less[i] <= more[i]}
<1>1. /\ last \in Nat
      /\ less \in [0..last -> Nat] /\ less[0] = a
      /\ \A i \in 1..last : less[i] = GetAmountOut(less[i - 1], both[i][1], both[i][2])
      /\ more \in [0..last -> Nat] /\ more[0] = b
      /\ \A i \in 1..last : more[i] = GetAmountOut(more[i - 1], both[i][1], both[i][2])
  BY AmountsOfInput
<1>2. \A i \in 1..last : both[i][1] \in Nat \ {0} /\ both[i][2] \in Nat
  BY DEF Reserves
<1> HIDE DEF last, less, more
<1>3. 0..last \subseteq D
  <2>1. 0 \in D
    BY <1>1
  <2>2. ASSUME NEW i \in 1..last, i - 1 \in D PROVE i \in D
    <3>1. i \in 0..last /\ i - 1 \in 0..last
      BY <1>1
    <3>2. less[i - 1] \in Nat /\ more[i - 1] \in Nat /\ less[i - 1] <= more[i - 1]
      BY <1>1, <2>2, <3>1
    <3>3. GetAmountOut(less[i - 1], both[i][1], both[i][2])
            <= GetAmountOut(more[i - 1], both[i][1], both[i][2])
      BY <1>2, <3>2, OutputIsMonotone
    <3>. QED BY <1>1, <3>1, <3>3
  <2> HIDE DEF D
  <2>. QED BY <1>1, <2>1, <2>2, RangeInduction
<1>. QED BY <1>3 DEF last, less, more

\* computeIntermediaryAmountsFixedOutput and ...FixedInput agree: whoever pays in what is quoted
\* for a fixed output is quoted, for the same reserves, at least that output.
THEOREM RoundTripsKeep ==
  ASSUME NEW amountOut \in Nat, NEW both \in Seq(Reserves), NEW needed,
         needed = AmountsFixedOutput(amountOut, both), needed[0] # 0
  PROVE  \A i \in 0..Len(both) : needed[i] <= AmountsFixedInput(needed[0], both)[i]
<1> DEFINE last == Len(both)
           bought == AmountsFixedInput(needed[0], both)
           D == {i \in 0..last : needed[i] <= bought[i]}
<1>1. last \in Nat /\ needed \in [0..last -> Nat] /\ needed[0] \in Nat
  <2>1. needed \in [0..last -> Nat]
    BY AmountsOfOutput
  <2>. QED BY <2>1
<1>2. /\ bought \in [0..last -> Nat] /\ bought[0] = needed[0]
      /\ \A i \in 1..last : bought[i] = GetAmountOut(bought[i - 1], both[i][1], both[i][2])
  BY <1>1, AmountsOfInput
<1>3. \A i \in 1..last : Suffices(needed[i - 1], needed[i], both[i][1], both[i][2])
  BY EveryHopSuffices
<1>4. \A i \in 1..last : both[i][1] \in Nat \ {0} /\ both[i][2] \in Nat
  BY DEF Reserves
<1> HIDE DEF last, bought
<1>5. 0..last \subseteq D
  <2>1. 0 \in D
    BY <1>1, <1>2
  <2>2. ASSUME NEW i \in 1..last, i - 1 \in D PROVE i \in D
    <3>1. i \in 0..last /\ i - 1 \in 0..last
      BY <1>1
    <3>2. /\ needed[i - 1] \in Nat /\ bought[i - 1] \in Nat /\ needed[i - 1] <= bought[i - 1]
          /\ needed[i] \in Nat
      BY <1>1, <1>2, <2>2, <3>1
    <3> DEFINE in == both[i][1] out == both[i][2] x == needed[i - 1] y == bought[i - 1]
    <3>3. in \in Nat \ {0} /\ out \in Nat
      BY <1>4
    <3>4. x \in Nat /\ y \in Nat /\ x <= y /\ Suffices(x, needed[i], in, out)
      BY <1>3, <3>2
    <3> HIDE DEF in, out, x, y
    <3>5. needed[i] <= GetAmountOut(x, in, out)
      BY <3>2, <3>3, <3>4, EnoughIsQuoted
    <3>6. GetAmountOut(x, in, out) <= GetAmountOut(y, in, out)
      BY <3>3, <3>4, OutputIsMonotone
    <3>7. GetAmountOut(x, in, out) \in Nat /\ GetAmountOut(y, in, out) \in Nat
      <4>1. GetAmountOut(x, in, out) \in 0..out /\ GetAmountOut(y, in, out) \in 0..out
        BY <3>3, <3>4, OutputWithinReserve
      <4>. QED BY <3>3, <4>1
    <3>8. bought[i] = GetAmountOut(y, in, out)
      BY <1>2 DEF in, out, y
    <3>9. needed[i] <= bought[i]
      BY <3>2, <3>5, <3>6, <3>7, <3>8
    <3>. QED BY <3>1, <3>9
  <2> HIDE DEF D
  <2>. QED BY <1>1, <2>1, <2>2, RangeInduction
<1>. QED BY <1>5 DEF last, bought

--------------------------------------------------------------------------------
(* The requests of AutoRouterService.                                      *)

RouteTokens == Tokens \cup {s.tokenIn : s \in Swaps}

RequestType ==
    [pc : {"idle", "info", "search", "store", "compute", "answered"},
     swap : Swaps \cup {NoSwap}, pairs : SUBSET Pairs,
     info : UNION {[pairs -> ReserveSets] : pairs \in SUBSET Pairs},
     graph : SUBSET Pairs, route : Seq(RouteTokens)]

\* A request that looks for paths has the reserves of all its pairs; its answer is the best
\* of the paths of its graph by these reserves.
RequestOK(asked) ==
    /\ asked \in RequestType
    /\ DOMAIN asked.info \subseteq asked.pairs
    /\ asked.pc # "idle" => asked.swap \in Swaps
    /\ asked.pc \in {"search", "store", "compute", "answered"} => DOMAIN asked.info = asked.pairs
    /\ asked.pc = "answered" => asked.route \in BestPaths(asked)

RouterInv ==
    /\ active \subseteq Pairs /\ graph \subseteq Pairs /\ locked \subseteq Locked
    /\ reserves \in [Pairs -> ReserveSets]
    /\ DOMAIN cached \subseteq Routes
    /\ \A route \in DOMAIN cached : cached[route] \subseteq Pairs
    /\ changes \in 0..MaxChanges /\ trades \in 0..MaxTrades /\ errors \in 0..MaxErrors
    /\ request \in [RouteRequests -> RequestType]
    /\ \A r \in RouteRequests : RequestOK(request[r])

\* What a path amounts to, and which is the best, depends on what the request has read.
LEMMA SameResults ==
  ASSUME NEW one, NEW other, one.swap = other.swap, one.pairs = other.pairs,
         one.info = other.info, one.graph = other.graph
  PROVE  BestPaths(one) = BestPaths(other)
<1>1. \A path : Result(one, path) = Result(other, path)
  BY DEF Result
<1>. QED BY <1>1 DEF BestPaths

\* getBestAmountAndIndex: a best path is one that no other is better than.
LEMMA BestOfPaths ==
  ASSUME NEW r, NEW path
  PROVE  path \in BestPaths(r) <=>
           /\ path \in Paths(r.graph, r.swap.tokenIn, r.swap.tokenOut)
           /\ Result(r, path) # 0
           /\ \A other \in Paths(r.graph, r.swap.tokenIn, r.swap.tokenOut) :
                ~Better(r.swap.type, Result(r, other), Result(r, path))
  BY DEF BestPaths

\* A request has the reserves of all its pairs when it computes.
LEMMA RequestIsPriced ==
  ASSUME NEW asked, RequestOK(asked), DOMAIN asked.info = asked.pairs
  PROVE  Priced(asked.pairs, asked.info)
<1>1. /\ asked.pairs \in SUBSET Pairs
      /\ asked.info \in UNION {[pairs -> ReserveSets] : pairs \in SUBSET Pairs}
  BY DEF RequestOK, RequestType
<1>2. PICK pairs \in SUBSET Pairs : asked.info \in [pairs -> ReserveSets]
  BY <1>1
<1>3. DOMAIN asked.info = pairs
  BY <1>2
<1>. QED BY <1>1, <1>2, <1>3 DEF Priced

\* A path that is worth nothing amounts to 0, the others to more.
LEMMA ResultIsNat ==
  ASSUME NEW asked, RequestOK(asked), DOMAIN asked.info = asked.pairs, asked.swap \in Swaps,
         NEW nodes, NEW path \in Seq(nodes), path # <<>>
  PROVE  Result(asked, path) \in Nat
<1> DEFINE both == OrderedReserves(asked.pairs, asked.info, path)
           amount == asked.swap.amount
<1>1. both \in Seq(Reserves)
  BY RequestIsPriced, HopsArePriced
<1>2. amount \in Nat
  BY AutoRouterAssumption
<1>3. Len(both) \in Nat
  <2> HIDE DEF both
  <2>. QED BY <1>1
<1>4. AmountsFixedInput(amount, both)[Len(both)] \in Nat
  <2> HIDE DEF both, amount
  <2>1. AmountsFixedInput(amount, both) \in [0..Len(both) -> Nat]
    BY <1>1, <1>2, AmountsOfInput
  <2>. QED BY <1>3, <2>1
<1>5. AmountsFixedOutput(amount, both)[0] \in Nat
  <2> HIDE DEF both, amount
  <2>1. AmountsFixedOutput(amount, both) \in [0..Len(both) -> Nat]
    BY <1>1, <1>2, AmountsOfOutput
  <2>. QED BY <1>3, <2>1
<1> HIDE DEF both
<1>. QED BY <1>4, <1>5 DEF Result, both

\* The paths of a request: where they start and end, and their hops.
LEMMA PathsOfRequest ==
  ASSUME NEW pairs \in SUBSET Pairs, NEW source, NEW destination,
         NEW path \in Paths(pairs, source, destination)
  PROVE  /\ path \in Seq(Nodes(source)) /\ path # <<>>
         /\ path[1] = source /\ path[Len(path)] = destination
         /\ \A i \in 1..(Len(path) - 1) : PairByTokens(pairs, path[i], path[i + 1]) # {}
<1>1. path \in Ways(pairs, Nodes(source), {}, source, destination)
  BY SearchFinds
<1>. QED BY <1>1 DEF Ways

\* A request that is not made.
LEMMA IdleIsTyped == Idle \in RequestType
<1>1. <<>> \in UNION {[pairs -> ReserveSets] : pairs \in SUBSET Pairs}
  <2>1. <<>> \in [{} -> ReserveSets]
    OBVIOUS
  <2>. QED BY <2>1
<1>2. <<>> \in Seq(RouteTokens)
  OBVIOUS
<1>. QED BY <1>1, <1>2 DEF Idle, RequestType

\* Initially nothing is asked.
THEOREM RouterInitOK == RouterInit => RouterInv
<1>1. SUFFICES ASSUME RouterInit PROVE RouterInv
  OBVIOUS
<1>2. Idle \in RequestType
  BY IdleIsTyped
<1>3. RequestOK(Idle)
  BY <1>2 DEF RequestOK, Idle
<1>4. request \in [RouteRequests -> RequestType] /\ \A r \in RouteRequests : RequestOK(request[r])
  BY <1>1, <1>2, <1>3 DEF RouterInit
<1>5. 0 \in 0..MaxChanges /\ 0 \in 0..MaxTrades /\ 0 \in 0..MaxErrors
  BY AutoRouterAssumption
<1>. QED BY <1>1, <1>4, <1>5 DEF RouterInit, RouterInv

\* A request that changes alone.
LEMMA OneRequest ==
  ASSUME RouterInv, NEW r \in RouteRequests, NEW asked, RequestOK(asked),
         request' = [request EXCEPT ![r] = asked]
  PROVE  /\ request' \in [RouteRequests -> RequestType]
         /\ \A q \in RouteRequests : RequestOK(request'[q])
<1>1. asked \in RequestType
  BY DEF RequestOK
<1>2. request \in [RouteRequests -> RequestType] /\ \A q \in RouteRequests : RequestOK(request[q])
  BY DEF RouterInv
<1>. QED BY <1>1, <1>2

\* getAllActivePairs: a request begins with the pairs that are active, ...
LEMMA ReadStatesKeeps ==
  ASSUME RouterInv, NEW r \in RouteRequests, NEW swap \in Swaps, ReadStates(r, swap)
  PROVE  RouterInv'
<1> DEFINE asked == [Idle EXCEPT !.pc = "info", !.swap = swap, !.pairs = active]
<1>1. active \subseteq Pairs
  BY DEF RouterInv
<1>2. RequestOK(asked)
  <2>1. Idle \in RequestType /\ Idle.info = <<>>
    BY IdleIsTyped DEF Idle
  <2>2. asked \in RequestType
    BY <1>1, <2>1 DEF RequestType
  <2>3. asked.pc = "info" /\ asked.swap = swap /\ asked.info = <<>>
    BY <2>1 DEF RequestType
  <2> HIDE DEF asked
  <2>. QED BY <2>2, <2>3 DEF RequestOK
<1>3. request' = [request EXCEPT ![r] = asked]
  BY DEF ReadStates
<1> HIDE DEF asked
<1>4. /\ request' \in [RouteRequests -> RequestType]
      /\ \A q \in RouteRequests : RequestOK(request'[q])
  BY <1>2, <1>3, OneRequest
<1>. QED BY <1>4 DEF RouterInv, ReadStates, chain, bounded

\* ... and reads the reserves of one pair after the other.
LEMMA ReadInfoKeeps ==
  ASSUME RouterInv, NEW r \in RouteRequests, NEW p \in Pairs, ReadInfo(r, p)
  PROVE  RouterInv'
<1> DEFINE asked == request[r]
           info == With(asked.info, p, reserves[p])
           after == [asked EXCEPT !.info = info]
<1>1. RequestOK(asked) /\ asked \in RequestType /\ asked.pc = "info" /\ p \in asked.pairs
  BY DEF RouterInv, ReadInfo
<1>2. reserves[p] \in ReserveSets
  BY DEF RouterInv
<1>3. PICK known \in SUBSET Pairs : asked.info \in [known -> ReserveSets]
  BY <1>1 DEF RequestType
<1>4. info \in [known \cup {p} -> ReserveSets]
  <2> HIDE DEF asked
  <2>1. info = [q \in known \cup {p} |-> IF q = p THEN reserves[p] ELSE asked.info[q]]
    BY <1>3 DEF With
  <2> HIDE DEF info
  <2>. QED BY <1>2, <1>3, <2>1
<1>5. info \in UNION {[pairs -> ReserveSets] : pairs \in SUBSET Pairs}
  <2> HIDE DEF info
  <2>. QED BY <1>4
<1>6. DOMAIN info \subseteq asked.pairs
  <2>1. DOMAIN info = known \cup {p} /\ DOMAIN asked.info = known
    <3> HIDE DEF info, asked
    <3>. QED BY <1>3, <1>4
  <2>. QED BY <2>1, <1>1 DEF RequestOK
<1>7. RequestOK(after)
  <2> HIDE DEF asked, info
  <2>1. after \in RequestType
    BY <1>1, <1>5 DEF RequestType
  <2>2. after.pc = "info" /\ after.info = info /\ after.pairs = asked.pairs /\ after.swap = asked.swap
    BY <1>1 DEF RequestType
  <2> HIDE DEF after
  <2>. QED BY <1>1, <1>6, <2>1, <2>2 DEF RequestOK
<1>8. request' = [request EXCEPT ![r] = after]
  BY DEF ReadInfo, RouterInv
<1>9. /\ request' \in [RouteRequests -> RequestType]
      /\ \A q \in RouteRequests : RequestOK(request'[q])
  <2> HIDE DEF after
  <2>. QED BY <1>7, <1>8, OneRequest
<1>. QED BY <1>9 DEF RouterInv, ReadInfo, chain, bounded

\* A request that goes on with a graph.
LEMMA GoesOn ==
  ASSUME NEW asked, RequestOK(asked), NEW pc \in {"search", "store", "compute"},
         NEW pairs \in SUBSET Pairs, asked.pc # "idle", DOMAIN asked.info = asked.pairs
  PROVE  RequestOK([asked EXCEPT !.pc = pc, !.graph = pairs]) /\ RequestOK([asked EXCEPT !.pc = pc])
<1>1. asked \in RequestType /\ asked.swap \in Swaps
  BY DEF RequestOK
<1>2. ASSUME NEW g \in SUBSET Pairs PROVE RequestOK([asked EXCEPT !.pc = pc, !.graph = g])
  <2> DEFINE after == [asked EXCEPT !.pc = pc, !.graph = g]
  <2>1. after \in RequestType
    BY <1>1 DEF RequestType
  <2>2. after.pc = pc /\ after.info = asked.info /\ after.pairs = asked.pairs /\ after.swap = asked.swap
    BY <1>1 DEF RequestType
  <2>3. pc # "answered"
    OBVIOUS
  <2> HIDE DEF after
  <2>4. RequestOK(after)
    BY <1>1, <2>1, <2>2, <2>3 DEF RequestOK
  <2>. QED BY <2>4 DEF after
<1>3. [asked EXCEPT !.pc = pc] = [asked EXCEPT !.pc = pc, !.graph = asked.graph] /\ asked.graph \in SUBSET Pairs
  BY <1>1 DEF RequestType
<1>. QED BY <1>2, <1>3

\* getAllPaths: the paths come from the cache or the graph, and either from pairs.
LEMMA LookupKeeps ==
  ASSUME RouterInv, NEW r \in RouteRequests,
         GetPaths(r) \/ MissPaths(r) \/ SearchPaths(r) \/ StorePaths(r)
  PROVE  RouterInv'
<1> DEFINE asked == request[r]
<1>1. RequestOK(asked) /\ asked.pairs \in SUBSET Pairs /\ asked.graph \in SUBSET Pairs
  BY DEF RouterInv, RequestOK, RequestType
<1>2. asked.pc # "idle" /\ DOMAIN asked.info = asked.pairs
  BY <1>1 DEF GetPaths, MissPaths, SearchPaths, StorePaths, AllRead, RequestOK
<1>3. graph \in SUBSET Pairs /\ graph' \in SUBSET Pairs
  BY <1>1 DEF RouterInv, GetPaths, MissPaths, SearchPaths, StorePaths, Instance
<1>4. /\ DOMAIN cached' \subseteq Routes
      /\ \A route \in DOMAIN cached' : cached'[route] \subseteq Pairs
  <2>1. CASE cached' = cached
    BY <2>1 DEF RouterInv
  <2>2. CASE StorePaths(r)
    <3>1. Route(r) \in Routes
      <4>1. asked.swap \in Swaps
        BY <1>1, <1>2 DEF RequestOK
      <4>. QED BY <4>1 DEF Route, Routes
    <3>2. cached' = [k \in DOMAIN cached \cup {Route(r)} |->
                       IF k = Route(r) THEN asked.graph ELSE cached[k]]
      BY <2>2 DEF StorePaths, With
    <3> HIDE DEF asked
    <3>. QED BY <1>1, <3>1, <3>2 DEF RouterInv
  <2>. QED BY <2>1, <2>2 DEF GetPaths, MissPaths, SearchPaths
<1>5. PICK pc \in {"search", "store", "compute"}, pairs \in SUBSET Pairs :
         \/ request' = [request EXCEPT ![r] = [asked EXCEPT !.pc = pc, !.graph = pairs]]
         \/ request' = [request EXCEPT ![r] = [asked EXCEPT !.pc = pc]]
  <2>1. CASE GetPaths(r)
    <3>1. cached[Route(r)] \in SUBSET Pairs
      BY <2>1 DEF GetPaths, RouterInv
    <3>. QED BY <2>1, <3>1 DEF GetPaths
  <2>2. CASE MissPaths(r)
    BY <2>2, <1>3 DEF MissPaths
  <2>3. CASE SearchPaths(r)
    BY <2>3, <1>3 DEF SearchPaths
  <2>4. CASE StorePaths(r)
    BY <2>4, <1>3 DEF StorePaths
  <2>. QED BY <2>1, <2>2, <2>3, <2>4
<1>6. RequestOK([asked EXCEPT !.pc = pc, !.graph = pairs]) /\ RequestOK([asked EXCEPT !.pc = pc])
  <2> HIDE DEF asked
  <2>. QED BY <1>1, <1>2, GoesOn
<1>7. /\ request' \in [RouteRequests -> RequestType]
      /\ \A q \in RouteRequests : RequestOK(request'[q])
  <2> DEFINE one == [asked EXCEPT !.pc = pc, !.graph = pairs]
             other == [asked EXCEPT !.pc = pc]
  <2>1. CASE request' = [request EXCEPT ![r] = one]
    <3>1. RequestOK(one)
      BY <1>6
    <3> HIDE DEF one
    <3>. QED BY <2>1, <3>1, OneRequest
  <2>2. CASE request' = [request EXCEPT ![r] = other]
    <3>1. RequestOK(other)
      BY <1>6
    <3> HIDE DEF other
    <3>. QED BY <2>2, <3>1, OneRequest
  <2>. QED BY <1>5, <2>1, <2>2
<1>8. UNCHANGED <<active, reserves, locked, changes, trades, errors>>
  BY DEF GetPaths, MissPaths, SearchPaths, StorePaths, chain, bounded
<1>. QED BY <1>3, <1>4, <1>7, <1>8 DEF RouterInv

\* multiSwap answers with one of the best paths.
LEMMA AnswerKeeps ==
  ASSUME RouterInv, NEW r \in RouteRequests, Answer(r)
  PROVE  RouterInv'
<1> DEFINE asked == request[r]
<1>1. RequestOK(asked) /\ asked \in RequestType /\ asked.pc = "compute" /\ asked.swap \in Swaps
  BY DEF RouterInv, RequestOK, Answer
<1>2. PICK path \in BestPaths(asked) :
         request' = [request EXCEPT ![r] = [asked EXCEPT !.pc = "answered", !.route = path]]
  BY DEF Answer
<1> DEFINE after == [asked EXCEPT !.pc = "answered", !.route = path]
<1>3. path \in Seq(RouteTokens)
  <2>1. path \in Paths(asked.graph, asked.swap.tokenIn, asked.swap.tokenOut) /\ asked.graph \in SUBSET Pairs
    BY <1>1, BestOfPaths DEF RequestType
  <2>2. path \in Seq(Nodes(asked.swap.tokenIn))
    <3> HIDE DEF asked
    <3>. QED BY <2>1, PathsOfRequest
  <2>3. Nodes(asked.swap.tokenIn) \subseteq RouteTokens
    <3> HIDE DEF asked
    <3>. QED BY <1>1 DEF Nodes, RouteTokens
  <2> HIDE DEF asked
  <2>. QED BY <2>2, <2>3
<1>4. RequestOK(after)
  <2> HIDE DEF asked
  <2>1. after \in RequestType
    BY <1>1, <1>3 DEF RequestType
  <2>2. /\ after.pc = "answered" /\ after.route = path /\ after.swap = asked.swap
        /\ after.pairs = asked.pairs /\ after.info = asked.info /\ after.graph = asked.graph
    BY <1>1 DEF RequestType
  <2> HIDE DEF after
  <2>3. BestPaths(after) = BestPaths(asked)
    BY <2>2, SameResults
  <2>4. DOMAIN asked.info = asked.pairs
    BY <1>1 DEF RequestOK
  <2>. QED BY <1>1, <1>2, <2>1, <2>2, <2>3, <2>4 DEF RequestOK
<1>5. request' = [request EXCEPT ![r] = after]
  BY <1>2
<1>6. /\ request' \in [RouteRequests -> RequestType]
      /\ \A q \in RouteRequests : RequestOK(request'[q])
  <2> HIDE DEF after
  <2>. QED BY <1>4, <1>5, OneRequest
<1>. QED BY <1>6 DEF RouterInv, Answer, chain, bounded

\* A request that ends with an error is forgotten.
LEMMA ErrorKeeps ==
  ASSUME RouterInv, NEW r \in RouteRequests, Refuse(r) \/ Fail(r)
  PROVE  RouterInv'
<1>1. RequestOK(Idle)
  BY IdleIsTyped DEF RequestOK, Idle
<1>2. request' = [request EXCEPT ![r] = Idle]
  BY DEF Refuse, Fail
<1>3. /\ request' \in [RouteRequests -> RequestType]
      /\ \A q \in RouteRequests : RequestOK(request'[q])
  BY <1>1, <1>2, OneRequest
<1>4. errors' \in 0..MaxErrors
  BY AutoRouterAssumption DEF RouterInv, Refuse, Fail, bounded
<1>5. UNCHANGED <<active, reserves, locked, graph, cached, changes, trades>>
  BY DEF Refuse, Fail, chain, bounded
<1>. QED BY <1>3, <1>4, <1>5 DEF RouterInv

\* Every step of the requests and of the contracts keeps the invariant.
THEOREM RouterStepOK == RouterInv /\ [RouterNext]_routerVars => RouterInv'
<1> SUFFICES ASSUME RouterInv, [RouterNext]_routerVars PROVE RouterInv'
  OBVIOUS
<1>1. ASSUME NEW p \in Pairs, ChangeState(p) PROVE RouterInv'
  BY <1>1, AutoRouterAssumption DEF RouterInv, ChangeState
<1>2. ASSUME NEW p \in Pairs, Trade(p) PROVE RouterInv'
  BY <1>2, AutoRouterAssumption DEF RouterInv, Trade
<1>3. ASSUME NEW p \in Pairs, Unlock(p) PROVE RouterInv'
  BY <1>3 DEF RouterInv, Unlock, bounded
<1>4. ASSUME NEW r \in RouteRequests, RequestStep(r) PROVE RouterInv'
  <2>1. ASSUME NEW p \in Pairs, ReadInfo(r, p) PROVE RouterInv'
    BY <2>1, ReadInfoKeeps
  <2>2. CASE GetPaths(r) \/ MissPaths(r) \/ SearchPaths(r) \/ StorePaths(r)
    BY <2>2, LookupKeeps
  <2>3. CASE Answer(r)
    BY <2>3, AnswerKeeps
  <2>4. CASE Refuse(r) \/ Fail(r)
    BY <2>4, ErrorKeeps
  <2>. QED BY <1>4, <2>1, <2>2, <2>3, <2>4 DEF RequestStep
<1>5. ASSUME NEW r \in RouteRequests, NEW swap \in Swaps, ReadStates(r, swap) PROVE RouterInv'
  BY <1>5, ReadStatesKeeps
<1>6. ASSUME NEW route \in Routes, Expire(route) PROVE RouterInv'
  BY <1>6 DEF RouterInv, Expire, chain, bounded
<1>7. CASE UNCHANGED routerVars
  BY <1>7 DEF RouterInv, routerVars
<1>. QED BY <1>1, <1>2, <1>3, <1>4, <1>5, <1>6, <1>7 DEF RouterNext

\* The invariant holds in every state of the auto-router.
THEOREM RouterInvariant == RouterSpec => []RouterInv
BY RouterInitOK, RouterStepOK, PTL DEF RouterSpec

\* An answer is one of the paths of the request's graph.
LEMMA AnswerIsPath ==
  ASSUME NEW asked, RequestOK(asked), asked.pc = "answered"
  PROVE  /\ asked.route \in Paths(asked.graph, asked.swap.tokenIn, asked.swap.tokenOut)
         /\ Result(asked, asked.route) # 0
         /\ asked.graph \in SUBSET Pairs /\ asked.swap \in Swaps
         /\ Priced(asked.pairs, asked.info) /\ DOMAIN asked.info = asked.pairs
         /\ asked.route \in Seq(Nodes(asked.swap.tokenIn)) /\ asked.route # <<>>
         /\ asked.route[1] = asked.swap.tokenIn /\ asked.route[Len(asked.route)] = asked.swap.tokenOut
<1>1. /\ asked.graph \in SUBSET Pairs /\ asked.swap \in Swaps
      /\ asked.route \in BestPaths(asked) /\ DOMAIN asked.info = asked.pairs
  BY DEF RequestOK, RequestType
<1>2. Priced(asked.pairs, asked.info)
  BY <1>1, RequestIsPriced
<1>3. /\ asked.route \in Paths(asked.graph, asked.swap.tokenIn, asked.swap.tokenOut)
      /\ Result(asked, asked.route) # 0
  BY <1>1, BestOfPaths
<1> DEFINE g == asked.graph from == asked.swap.tokenIn to == asked.swap.tokenOut path == asked.route
<1>4. /\ path \in Seq(Nodes(from)) /\ path # <<>>
      /\ path[1] = from /\ path[Len(path)] = to
  <2>1. path \in Paths(g, from, to) /\ g \in SUBSET Pairs
    BY <1>1, <1>3
  <2> HIDE DEF g, from, to, path
  <2>2. path \in Ways(g, Nodes(from), {}, from, to)
    BY <2>1, SearchFinds
  <2>. QED BY <2>2 DEF Ways
<1>. QED BY <1>1, <1>2, <1>3, <1>4

\* The state of the auto-router keeps its types; an answer starts and ends with the tokens
\* of its swap.
THEOREM RouterTypes == RouterSpec => []RouterTypeOK
<1>1. RouterInv => RouterTypeOK
  <2>1. SUFFICES ASSUME RouterInv PROVE RouterTypeOK
    OBVIOUS
  <2>2. ASSUME NEW r \in RouteRequests
        PROVE  /\ request[r].pc \in {"idle", "info", "search", "store", "compute", "answered"}
               /\ request[r].swap \in Swaps \cup {NoSwap}
               /\ request[r].graph \subseteq Pairs
               /\ DOMAIN request[r].info \subseteq request[r].pairs
               /\ request[r].pc = "answered" =>
                    /\ request[r].route \in Seq(Nodes(request[r].swap.tokenIn)) \ {<<>>}
                    /\ Head(request[r].route) = request[r].swap.tokenIn
                    /\ Last(request[r].route) = request[r].swap.tokenOut
    <3> DEFINE asked == request[r]
    <3>1. RequestOK(asked)
      BY <2>1 DEF RouterInv
    <3> HIDE DEF asked
    <3>2. /\ asked.pc \in {"idle", "info", "search", "store", "compute", "answered"}
          /\ asked.swap \in Swaps \cup {NoSwap}
          /\ asked.graph \subseteq Pairs /\ DOMAIN asked.info \subseteq asked.pairs
      BY <3>1 DEF RequestOK, RequestType
    <3>3. ASSUME asked.pc = "answered"
          PROVE  /\ asked.route \in Seq(Nodes(asked.swap.tokenIn)) \ {<<>>}
                 /\ Head(asked.route) = asked.swap.tokenIn
                 /\ Last(asked.route) = asked.swap.tokenOut
      <4> DEFINE path == asked.route
      <4>1. /\ path \in Seq(Nodes(asked.swap.tokenIn)) /\ path # <<>>
            /\ path[1] = asked.swap.tokenIn /\ path[Len(path)] = asked.swap.tokenOut
        BY <3>1, <3>3, AnswerIsPath
      <4> HIDE DEF path
      <4>2. Head(path) = path[1] /\ Last(path) = path[Len(path)]
        BY <4>1 DEF Last
      <4>. QED BY <4>1, <4>2 DEF path
    <3>. QED BY <3>2, <3>3 DEF asked
  <2>. QED BY <2>1, <2>2 DEF RouterInv, RouterTypeOK
<1>. QED BY <1>1, RouterInvariant, PTL

\* The depth first search of GraphService finds every way to swap, for every set of pairs.
THEOREM SearchesAreComplete == RouterSpec => []AllPathsFound
<1>1. RouterInv /\ RouterTypeOK => AllPathsFound
  <2>1. SUFFICES ASSUME RouterInv, RouterTypeOK PROVE AllPathsFound
    OBVIOUS
  <2>2. ASSUME NEW r \in RouteRequests
        PROVE  Paths(request[r].graph, request[r].swap.tokenIn, request[r].swap.tokenOut)
               = SimplePaths(request[r].graph, request[r].swap.tokenIn, request[r].swap.tokenOut)
    <3>1. request[r].graph \in SUBSET Pairs
      BY <2>1 DEF RouterTypeOK
    <3>. QED BY <3>1, SearchIsComplete
  <2>. QED BY <2>1, <2>2 DEF AllPathsFound
<1>. QED BY <1>1, RouterInvariant, RouterTypes, PTL

\* computeBestSwapRoute answers with the best of all ways to swap by the reserves the request
\* read, when its paths are those of the pairs it read.
THEOREM AnswersAreBest == RouterSpec => []BestOfAll
<1>1. RouterInv => BestOfAll
  <2>1. SUFFICES ASSUME RouterInv, NEW r \in RouteRequests, request[r].pc = "answered",
                        request[r].graph = request[r].pairs,
                        NEW path \in SimplePaths(request[r].pairs, request[r].swap.tokenIn,
                                                 request[r].swap.tokenOut)
                 PROVE  IF request[r].swap.type = "fixedInput"
                        THEN Result(request[r], path) <= Result(request[r], request[r].route)
                        ELSE \/ Result(request[r], path) = 0
                             \/ Result(request[r], path) >= Result(request[r], request[r].route)
    BY DEF BestOfAll
  <2> DEFINE asked == request[r]
             found == Paths(asked.graph, asked.swap.tokenIn, asked.swap.tokenOut)
  <2>2. RequestOK(asked) /\ asked.pc = "answered" /\ asked.graph = asked.pairs
    BY <2>1 DEF RouterInv
  <2>3. path \in SimplePaths(asked.graph, asked.swap.tokenIn, asked.swap.tokenOut)
    BY <2>1
  <2> HIDE DEF asked
  <2>4. /\ asked.graph \in SUBSET Pairs /\ asked.swap \in Swaps /\ DOMAIN asked.info = asked.pairs
        /\ asked.route \in Seq(Nodes(asked.swap.tokenIn)) /\ asked.route # <<>>
        /\ asked.route \in BestPaths(asked)
    BY <2>2, AnswerIsPath DEF RequestOK
  <2>5. path \in found
    BY <2>3, <2>4, SearchIsComplete
  <2>6. ~Better(asked.swap.type, Result(asked, path), Result(asked, asked.route))
        /\ Result(asked, asked.route) # 0
    BY <2>4, <2>5, BestOfPaths
  <2>7. path \in Seq(Nodes(asked.swap.tokenIn)) /\ path # <<>>
    <3>1. path \in Ways(asked.graph, Nodes(asked.swap.tokenIn), {}, asked.swap.tokenIn, asked.swap.tokenOut)
      BY <2>4, <2>5, SearchFinds
    <3>. QED BY <3>1 DEF Ways
  <2> DEFINE one == Result(asked, path) best == Result(asked, asked.route)
  <2>8. one \in Nat /\ best \in Nat
    BY <2>2, <2>4, <2>7, ResultIsNat
  <2>9. ~Better(asked.swap.type, one, best) /\ best # 0
    BY <2>6
  <2>10. IF asked.swap.type = "fixedInput" THEN one <= best ELSE one = 0 \/ one >= best
    <3> HIDE DEF one, best
    <3>. QED BY <2>8, <2>9 DEF Better
  <2>. QED BY <2>10 DEF asked
<1>. QED BY <1>1, RouterInvariant, PTL

\* getPairByTokens misses a hop of an answer only when the paths come from other pairs than
\* those the request read.
THEOREM SkipsAreOfStalePaths == RouterSpec => []SkipsOnlyWhenStale
<1>1. RouterInv => SkipsOnlyWhenStale
  <2>1. SUFFICES ASSUME RouterInv, NEW r \in RouteRequests, request[r].pc = "answered",
                        request[r].graph = request[r].pairs
                 PROVE  Len(AddressRoute(request[r].pairs, request[r].route))
                          = Len(request[r].route) - 1
    BY DEF SkipsOnlyWhenStale
  <2> DEFINE asked == request[r]
             path == asked.route
  <2>2. RequestOK(asked) /\ asked.pc = "answered" /\ asked.graph = asked.pairs
    BY <2>1 DEF RouterInv
  <2> HIDE DEF asked
  <2>3. /\ path \in Paths(asked.graph, asked.swap.tokenIn, asked.swap.tokenOut)
        /\ asked.graph \in SUBSET Pairs /\ Priced(asked.pairs, asked.info)
        /\ path \in Seq(Nodes(asked.swap.tokenIn)) /\ path # <<>>
    BY <2>2, AnswerIsPath
  <2> HIDE DEF path
  <2>4. \A i \in 1..(Len(path) - 1) : PairByTokens(asked.pairs, path[i], path[i + 1]) # {}
    BY <2>2, <2>3, PathsOfRequest
  <2>5. Len(Hops(asked.pairs, path)) = Len(path) - 1
    BY <2>3, <2>4, HopsAreTraded
  <2>6. Len(AddressRoute(asked.pairs, path)) = Len(Hops(asked.pairs, path))
    BY <2>3, HopsArePriced
  <2>. QED BY <2>5, <2>6 DEF asked, path
<1>. QED BY <1>1, RouterInvariant, PTL

\* At every hop of an answer with a fixed output, what getAmountIn quoted suffices for what the
\* next hop needs, for all reserves, fees and lengths of the route.
THEOREM RoutesSuffice == RouterSpec => []QuoteSuffices
<1>1. RouterInv => QuoteSuffices
  <2>1. SUFFICES ASSUME RouterInv, NEW r \in RouteRequests,
                        request[r].pc = "answered", request[r].swap.type = "fixedOutput"
                 PROVE  LET both == OrderedReserves(request[r].pairs, request[r].info, request[r].route)
                            amounts == AmountsFixedOutput(request[r].swap.amount, both) IN
                        \A i \in 1..Len(both) :
                          Suffices(amounts[i - 1], amounts[i], both[i][1], both[i][2])
    BY DEF QuoteSuffices
  <2> DEFINE asked == request[r]
             both == OrderedReserves(asked.pairs, asked.info, asked.route)
             amounts == AmountsFixedOutput(asked.swap.amount, both)
  <2>2. RequestOK(asked) /\ asked.pc = "answered" /\ asked.swap.type = "fixedOutput"
    BY <2>1 DEF RouterInv
  <2> HIDE DEF asked
  <2>3. /\ asked.swap \in Swaps /\ Priced(asked.pairs, asked.info) /\ Result(asked, asked.route) # 0
        /\ asked.route \in Seq(Nodes(asked.swap.tokenIn)) /\ asked.route # <<>>
    BY <2>2, AnswerIsPath
  <2>4. both \in Seq(Reserves)
    BY <2>3, HopsArePriced
  <2>5. amounts[0] # 0
    <3>1. Result(asked, asked.route) = amounts[0]
      BY <2>2 DEF Result
    <3>. QED BY <2>3, <3>1
  <2>6. asked.swap.amount \in Nat
    BY <2>3, AutoRouterAssumption
  <2>7. \A i \in 1..Len(both) : Suffices(amounts[i - 1], amounts[i], both[i][1], both[i][2])
    <3> DEFINE amount == asked.swap.amount
    <3>1. amounts = AmountsFixedOutput(amount, both) /\ amount \in Nat
      BY <2>6
    <3> HIDE DEF both, amounts, amount
    <3>. QED BY <2>4, <2>5, <3>1, EveryHopSuffices
  <2>. QED BY <2>7 DEF asked
<1>. QED BY <1>1, RouterInvariant, PTL

\* swap of AutoRouterService: whoever then pays the input that was answered along the same route is
\* quoted, while the reserves are those the request read, at least the output asked for.
QuotesAgree ==
    \A r \in RouteRequests :
        LET asked == request[r]
            both == OrderedReserves(asked.pairs, asked.info, asked.route)
            paid == AmountsFixedOutput(asked.swap.amount, both)[0] IN
        asked.pc = "answered" /\ asked.swap.type = "fixedOutput" =>
            asked.swap.amount <= AmountsFixedInput(paid, both)[Len(both)]

\* Every request that swap of AutoRouterService answers has quotes that agree in both directions.
THEOREM AnswersAgree == RouterSpec => []QuotesAgree
<1>1. RouterInv => QuotesAgree
  <2>1. SUFFICES ASSUME RouterInv, NEW r \in RouteRequests,
                        request[r].pc = "answered", request[r].swap.type = "fixedOutput"
                 PROVE  LET both == OrderedReserves(request[r].pairs, request[r].info, request[r].route)
                            paid == AmountsFixedOutput(request[r].swap.amount, both)[0] IN
                        request[r].swap.amount <= AmountsFixedInput(paid, both)[Len(both)]
    BY DEF QuotesAgree
  <2> DEFINE asked == request[r]
             both == OrderedReserves(asked.pairs, asked.info, asked.route)
             needed == AmountsFixedOutput(asked.swap.amount, both)
  <2>2. RequestOK(asked) /\ asked.pc = "answered" /\ asked.swap.type = "fixedOutput"
    BY <2>1 DEF RouterInv
  <2> HIDE DEF asked
  <2>3. /\ asked.swap \in Swaps /\ Priced(asked.pairs, asked.info) /\ Result(asked, asked.route) # 0
        /\ asked.route \in Seq(Nodes(asked.swap.tokenIn)) /\ asked.route # <<>>
    BY <2>2, AnswerIsPath
  <2>4. both \in Seq(Reserves) /\ Len(both) \in 0..Len(both)
    <3>1. both \in Seq(Reserves)
      BY <2>3, HopsArePriced
    <3>. QED BY <3>1
  <2>5. needed[0] # 0
    <3>1. Result(asked, asked.route) = needed[0]
      BY <2>2 DEF Result
    <3>. QED BY <2>3, <3>1
  <2>6. needed[Len(both)] <= AmountsFixedInput(needed[0], both)[Len(both)]
    <3> DEFINE amount == asked.swap.amount
    <3>1. needed = AmountsFixedOutput(amount, both) /\ amount \in Nat
      BY <2>3, AutoRouterAssumption
    <3> HIDE DEF both, needed, amount
    <3>. QED BY <2>4, <2>5, <3>1, RoundTripsKeep
  <2>7. needed[Len(both)] = asked.swap.amount
    <3> DEFINE amount == asked.swap.amount
    <3>1. needed = AmountsFixedOutput(amount, both) /\ amount \in Nat
      BY <2>3, AutoRouterAssumption
    <3> HIDE DEF both, needed, amount
    <3>2. needed[Len(both)] = amount
      BY <2>4, <3>1, AmountsOfOutput
    <3>. QED BY <3>2 DEF amount
  <2>. QED BY <2>6, <2>7 DEF asked
<1>. QED BY <1>1, RouterInvariant, PTL

--------------------------------------------------------------------------------
(* Rewards of a farm.                                                      *)

All == Keys \cup {"nonce"}

\* What a change leaves behind: entries stored after it hold what the contract has.
ReadAfterStir ==
    /\ DOMAIN cache = All
    /\ \A k \in All : cache[k] = [value |-> cache[k].value, stored |-> cache[k].stored]
    /\ \A k \in Keys : cache[k].stored > stirred => cache[k].value = contract[k]
    /\ \A k \in All : nonce - cache[k].stored <= Lives[k]

QuotesInv == QuotesTypeOK /\ ReadAfterStir

--------------------------------------------------------------------------------
(* Arithmetic of the rewards.                                              *)

\* A quotient of naturals is a natural, and so is a product.
LEMMA QuotientIsNat ==
    ASSUME NEW n \in Nat, NEW d \in Nat \ {0}
    PROVE  n \div d \in Nat
  OBVIOUS

LEMMA ProductIsNat ==
    ASSUME NEW a \in Nat, NEW b \in Nat
    PROVE  a * b \in Nat
  OBVIOUS

\* The share of the boosted rewards is a part of the rewards.
LEMMA BaseIsNat ==
    ASSUME NEW rewards \in Nat
    PROVE  BaseRewards(rewards) \in Nat
  <1> DEFINE q == (rewards * Boosted) \div MaxPercent
  <1>1. rewards * Boosted \in Nat /\ rewards * MaxPercent \in Nat
    BY RewardQuotesAssumption
  <1>2. rewards * Boosted <= rewards * MaxPercent
    BY RewardQuotesAssumption
  <1>3. q \in Nat
    BY <1>1, QuotientIsNat, RewardQuotesAssumption
  <1>4. MaxPercent * q <= rewards * Boosted
    BY <1>1, RewardQuotesAssumption
  <1>5. MaxPercent * q <= MaxPercent * rewards
    BY <1>1, <1>2, <1>3, <1>4, RewardQuotesAssumption
  <1>6. q <= rewards
    BY <1>3, <1>5, RewardQuotesAssumption
  <1> QED
    BY <1>3, <1>6 DEF BaseRewards

\* What type correctness says of the values of the contract, field by field.
LEMMA ContractFields ==
    ASSUME QuotesTypeOK
    PROVE  /\ contract.last \in 0..nonce /\ contract.last \in Nat /\ nonce \in Nat
           /\ contract.rewardPerShare \in Nat /\ position \in 0..contract.rewardPerShare
           /\ contract.supply \in Nat \ {0} /\ contract.perBlock \in Nat
           /\ contract.producing \in BOOLEAN
           /\ contract.accumulated \in Nat /\ contract.capacity \in Nat
           /\ kind = "staking" => contract.accumulated <= contract.capacity
  <1>1. /\ contract \in [last : 0..nonce, rewardPerShare : Nat, supply : Supplies,
                         perBlock : Rates, producing : BOOLEAN, accumulated : Nat,
                         capacity : Nat]
        /\ nonce \in Nat
    BY DEF QuotesTypeOK
  <1>2. /\ contract.last \in 0..nonce /\ contract.rewardPerShare \in Nat
        /\ contract.supply \in Supplies /\ contract.perBlock \in Rates
        /\ contract.producing \in BOOLEAN
        /\ contract.accumulated \in Nat /\ contract.capacity \in Nat
    BY <1>1
  <1>3. contract.last \in Nat
    BY <1>1, <1>2
  <1>4. contract.supply \in Nat \ {0} /\ contract.perBlock \in Nat
    BY <1>2, RewardQuotesAssumption
  <1>5. /\ position \in 0..contract.rewardPerShare
        /\ kind = "staking" => contract.accumulated <= contract.capacity
    BY DEF QuotesTypeOK
  <1> QED
    BY <1>1, <1>2, <1>3, <1>4, <1>5

\* Whatever a contract earns is a natural, and keeps a staking contract within its capacity.
LEMMA EarnedIsNat ==
    ASSUME QuotesTypeOK, NEW m \in 0..nonce
    PROVE  /\ Earned(m) \in Nat
           /\ kind = "staking" => contract.accumulated + Earned(m) <= contract.capacity
  <1> DEFINE d == m - contract.last
             whole == contract.perBlock * d
             byApr == (contract.supply * Apr * d) \div MaxPercent
  <1>1. /\ contract.last \in Nat /\ contract.perBlock \in Nat /\ contract.supply \in Nat
        /\ contract.accumulated \in Nat /\ contract.capacity \in Nat
        /\ contract.producing \in BOOLEAN /\ nonce \in Nat
        /\ kind = "staking" => contract.accumulated <= contract.capacity
    BY ContractFields
  <1>2. CASE ~contract.producing \/ m <= contract.last
    BY <1>1, <1>2 DEF Earned
  <1>3. CASE contract.producing /\ ~(m <= contract.last)
    <2>1. d \in Nat
      BY <1>1, <1>3
    <2>2. whole \in Nat
      BY <1>1, <2>1, ProductIsNat
    <2>3. contract.supply * Apr \in Nat
      BY <1>1, ProductIsNat, RewardQuotesAssumption
    <2>4. contract.supply * Apr * d \in Nat
      BY <2>1, <2>3, ProductIsNat
    <2>5. byApr \in Nat
      BY <2>4, QuotientIsNat, RewardQuotesAssumption
    <2>6. CASE kind = "farm"
      <3>1. Earned(m) = BaseRewards(whole)
        BY <1>3, <2>6 DEF Earned
      <3> QED
        BY <2>2, <2>6, <3>1, BaseIsNat
    <2>7. CASE kind # "farm"
      <3>1. Earned(m) = Smaller(Smaller(whole, byApr), contract.capacity - contract.accumulated)
        BY <1>3, <2>7 DEF Earned
      <3>2. kind = "staking"
        BY <2>7 DEF QuotesTypeOK, Kinds
      <3> HIDE DEF whole, byApr
      <3> QED
        BY <1>1, <2>2, <2>5, <3>1, <3>2 DEF Smaller
    <2> QED
      BY <2>6, <2>7
  <1> QED
    BY <1>2, <1>3

\* An increase of the reward per share is a natural, and nothing earned increases nothing.
LEMMA IncreaseIsNat ==
    ASSUME QuotesTypeOK, NEW extra \in Nat
    PROVE  Increase(contract, extra) \in Nat /\ Increase(contract, 0) = 0
  <1>1. contract.supply \in Nat \ {0} /\ Safety \in Nat
    BY RewardQuotesAssumption DEF QuotesTypeOK
  <1>2. extra * Safety \in Nat
    BY <1>1, ProductIsNat
  <1>3. 0 * Safety = 0
    BY <1>1
  <1>4. 0 \div contract.supply = 0
    BY <1>1
  <1> QED
    BY <1>1, <1>2, <1>3, <1>4, QuotientIsNat DEF Increase

\* A settlement keeps the types.
LEMMA SettledIsTyped ==
    ASSUME QuotesTypeOK
    PROVE  /\ Settled \in [last : 0..nonce, rewardPerShare : Nat, supply : Supplies,
                           perBlock : Rates, producing : BOOLEAN, accumulated : Nat,
                           capacity : Nat]
           /\ kind = "staking" => Settled.accumulated <= Settled.capacity
           /\ contract.rewardPerShare <= Settled.rewardPerShare
  <1>1. /\ Earned(nonce) \in Nat
        /\ kind = "staking" => contract.accumulated + Earned(nonce) <= contract.capacity
    BY EarnedIsNat DEF QuotesTypeOK
  <1>2. Increase(contract, Earned(nonce)) \in Nat
    BY <1>1, IncreaseIsNat
  <1>3. contract \in [last : 0..nonce, rewardPerShare : Nat, supply : Supplies, perBlock : Rates,
                      producing : BOOLEAN, accumulated : Nat, capacity : Nat] /\ nonce \in Nat
    BY DEF QuotesTypeOK
  <1> DEFINE earned == Earned(nonce)
             inc == Increase(contract, Earned(nonce))
  <1>4. Settled = [last |-> nonce, rewardPerShare |-> contract.rewardPerShare + inc,
                   supply |-> contract.supply, perBlock |-> contract.perBlock,
                   producing |-> contract.producing,
                   accumulated |-> contract.accumulated + earned, capacity |-> contract.capacity]
    <2>1. contract = [last |-> contract.last, rewardPerShare |-> contract.rewardPerShare,
                      supply |-> contract.supply, perBlock |-> contract.perBlock,
                      producing |-> contract.producing, accumulated |-> contract.accumulated,
                      capacity |-> contract.capacity]
      BY <1>3
    <2>2. Settled = [contract EXCEPT !.last = nonce, !.accumulated = @ + earned,
                                     !.rewardPerShare = @ + inc]
      BY DEF Settled
    <2> HIDE DEF earned, inc
    <2> QED
      BY <2>1, <2>2
  <1> HIDE DEF earned, inc
  <1>5. /\ contract.rewardPerShare + inc \in Nat /\ contract.accumulated + earned \in Nat
        /\ contract.rewardPerShare <= contract.rewardPerShare + inc
        /\ nonce \in 0..nonce
    BY <1>1, <1>2, <1>3, ContractFields DEF earned, inc
  <1>6. kind = "staking" => contract.accumulated + earned <= contract.capacity
    BY <1>1 DEF earned
  <1>7. /\ contract.supply \in Supplies /\ contract.perBlock \in Rates
        /\ contract.producing \in BOOLEAN /\ contract.capacity \in Nat
    BY <1>3
  <1> QED
    BY <1>4, <1>5, <1>6, <1>7

--------------------------------------------------------------------------------
(* Quotes from the values of the contract.                                 *)

\* Computed from the values the contract has, a quote is what it would pay.
LEMMA ExactFromContract ==
    ASSUME QuotesTypeOK, NEW m \in 0..nonce
    PROVE  Rewards(contract, m) = Owed(m)
  <1> DEFINE inc == Increase(contract, Earned(m))
  <1>1. /\ contract.rewardPerShare \in Nat /\ position \in 0..contract.rewardPerShare
        /\ Liquidity \in Nat
    BY RewardQuotesAssumption DEF QuotesTypeOK
  <1>2. /\ Earned(m) \in Nat
        /\ kind = "staking" => contract.accumulated + Earned(m) <= contract.capacity
    BY EarnedIsNat
  <1>3. inc \in Nat /\ Increase(contract, 0) = 0
    BY <1>2, IncreaseIsNat
  <1>4. Owed(m) = Liquidity * (contract.rewardPerShare + inc - position)
    BY DEF Owed
  <1>5. CASE kind = "farm"
    <2>1. BaseRewards(0) = 0
      BY RewardQuotesAssumption DEF BaseRewards
    <2>2. BaseRewards(Minted(contract, m)) = Earned(m)
      BY <1>5, <2>1 DEF Minted, Earned, QuotesTypeOK
    <2>3. FutureFarm(contract, m) = contract.rewardPerShare + inc
      BY <2>2 DEF FutureFarm
    <2>4. Rewards(contract, m) = FarmRewards(contract, m, position)
      BY <1>5 DEF Rewards
    <2> HIDE DEF inc
    <2>5. CASE contract.rewardPerShare + inc > position
      <3>1. FutureFarm(contract, m) > position
        BY <2>3, <2>5
      <3>2. FarmRewards(contract, m, position)
              = Liquidity * (FutureFarm(contract, m) - position)
        BY <3>1 DEF FarmRewards
      <3>3. FutureFarm(contract, m) - position = contract.rewardPerShare + inc - position
        BY <1>1, <1>3, <2>3
      <3> QED
        BY <1>4, <2>4, <3>2, <3>3, Zenon
    <2>6. CASE ~(contract.rewardPerShare + inc > position)
      <3>1. contract.rewardPerShare + inc - position = 0
        BY <1>1, <1>3, <2>6
      <3>2. Liquidity * 0 = 0
        BY <1>1
      <3> QED
        BY <1>4, <2>3, <2>4, <2>6, <3>1, <3>2 DEF FarmRewards
    <2> QED
      BY <2>5, <2>6
  <1>6. CASE kind = "staking"
    <2>1. /\ contract.accumulated \in Nat /\ contract.capacity \in Nat
          /\ contract.accumulated <= contract.capacity
      BY <1>6 DEF QuotesTypeOK
    <2>2. FutureStaking(contract, m) = contract.rewardPerShare + inc
      <3> DEFINE extra == ExtraRewards(contract, m)
      <3>1. CASE ~contract.producing \/ m <= contract.last
        <4>1. extra = 0 /\ Earned(m) = 0
          BY <3>1 DEF ExtraRewards, Earned, QuotesTypeOK
        <4> QED
          BY <1>1, <1>3, <4>1 DEF FutureStaking
      <3>2. CASE contract.producing /\ ~(m <= contract.last)
        <4>1. Earned(m) = Smaller(extra, contract.capacity - contract.accumulated)
          BY <1>6, <3>2 DEF Earned, ExtraRewards, QuotesTypeOK
        <4>2. extra \in Int
          <5> DEFINE d == m - contract.last
          <5>1. /\ contract.perBlock \in Nat /\ contract.supply \in Nat /\ Apr \in Nat
                /\ MaxPercent \in Nat \ {0}
            BY RewardQuotesAssumption DEF QuotesTypeOK
          <5>2. d \in Nat
            BY <3>2 DEF QuotesTypeOK
          <5>3. contract.perBlock * d \in Nat
            BY <5>1, <5>2, ProductIsNat
          <5>4. contract.supply * Apr \in Nat
            BY <5>1, ProductIsNat
          <5>5. contract.supply * Apr * d \in Nat
            BY <5>2, <5>4, ProductIsNat
          <5>6. (contract.supply * Apr * d) \div MaxPercent \in Nat
            BY <5>1, <5>5, QuotientIsNat
          <5>7. extra = Smaller(contract.perBlock * d, (contract.supply * Apr * d) \div MaxPercent)
            BY <3>2 DEF ExtraRewards, QuotesTypeOK
          <5> QED
            BY <5>3, <5>6, <5>7 DEF Smaller
        <4> HIDE DEF extra
        <4>3. extra >= 0
          BY <1>2, <2>1, <4>1, <4>2 DEF Smaller
        <4>4. WithinCapacity(contract, extra) = Earned(m)
          BY <2>1, <4>1, <4>2 DEF WithinCapacity, Smaller
        <4>5. CASE extra > 0
          BY <4>4, <4>5 DEF FutureStaking, extra
        <4>6. CASE ~(extra > 0)
          <5>1. Earned(m) = 0
            BY <2>1, <4>1, <4>2, <4>3, <4>6 DEF Smaller
          <5>2. FutureStaking(contract, m) = contract.rewardPerShare
            BY <4>6 DEF FutureStaking, extra
          <5> QED
            BY <1>1, <1>3, <5>1, <5>2
        <4> QED
          BY <4>5, <4>6
      <3> QED
        BY <3>1, <3>2 DEF QuotesTypeOK
    <2>3. Rewards(contract, m) = StakingRewards(contract, m, position)
      BY <1>6 DEF Rewards
    <2>4. StakingRewards(contract, m, position)
            = Liquidity * (FutureStaking(contract, m) - position)
      BY DEF StakingRewards
    <2> HIDE DEF inc
    <2>5. FutureStaking(contract, m) - position = contract.rewardPerShare + inc - position
      BY <1>1, <1>3, <2>2
    <2> QED
      BY <1>4, <2>3, <2>4, <2>5, Zenon
  <1> QED
    BY <1>5, <1>6 DEF QuotesTypeOK, Kinds
--------------------------------------------------------------------------------
(* The invariant.                                                          *)

\* A service that has just read everything satisfies the invariant.
THEOREM QuotesInitOK == QuotesInit => QuotesInv
  <1> SUFFICES ASSUME QuotesInit PROVE QuotesInv
    OBVIOUS
  <1>1. /\ kind \in Kinds /\ nonce = 0 /\ stirred = 0 /\ position = 0
        /\ contract \in [last : {0}, rewardPerShare : {0}, supply : Supplies, perBlock : Rates,
                         producing : {TRUE}, accumulated : {0}, capacity : Capacities]
        /\ cache = [k \in All |-> [value |-> IF k = "nonce" THEN 0 ELSE contract[k], stored |-> 0]]
    BY DEF QuotesInit, All
  <1>2. /\ contract.last = 0 /\ contract.rewardPerShare = 0 /\ contract.accumulated = 0
        /\ contract.supply \in Supplies /\ contract.perBlock \in Rates
        /\ contract.producing \in BOOLEAN /\ contract.capacity \in Capacities
    BY <1>1
  <1>3. contract.capacity \in Nat
    BY <1>2, RewardQuotesAssumption
  <1>4. contract \in [last : 0..nonce, rewardPerShare : Nat, supply : Supplies, perBlock : Rates,
                      producing : BOOLEAN, accumulated : Nat, capacity : Nat]
    <2>1. contract = [last |-> contract.last, rewardPerShare |-> contract.rewardPerShare,
                      supply |-> contract.supply, perBlock |-> contract.perBlock,
                      producing |-> contract.producing, accumulated |-> contract.accumulated,
                      capacity |-> contract.capacity]
      BY <1>1
    <2>2. nonce = 0
      BY <1>1
    <2>3. /\ contract.last \in 0..nonce /\ contract.rewardPerShare \in Nat
          /\ contract.accumulated \in Nat /\ contract.producing \in BOOLEAN
      BY <1>2, <2>2
    <2> QED
      BY <1>2, <1>3, <2>1, <2>3
  <1>5. \A k \in All : cache[k] = [value |-> cache[k].value, stored |-> 0] /\ cache[k].stored = 0
    BY <1>1
  <1>6. cache["nonce"].value = 0 /\ \A k \in Keys : cache[k].value = contract[k]
    BY <1>1 DEF All, Keys
  <1>7. QuotesTypeOK
    BY <1>1, <1>2, <1>3, <1>4, <1>5, <1>6 DEF QuotesTypeOK, All
  <1>8. ReadAfterStir
    <2>1. DOMAIN cache = All
      BY <1>1
    <2>2. \A k \in All : Lives[k] \in Nat
      BY RewardQuotesAssumption DEF All
    <2>3. \A k \in All : nonce - cache[k].stored <= Lives[k]
      BY <1>1, <1>5, <2>2
    <2> QED
      BY <1>5, <1>6, <2>1, <2>3 DEF ReadAfterStir
  <1> QED
    BY <1>1, <1>7, <1>8 DEF QuotesInv

\* The record types of the contract, at a block.
Values(n) == [last : 0..n, rewardPerShare : Nat, supply : Supplies, perBlock : Rates,
              producing : BOOLEAN, accumulated : Nat, capacity : Nat]

\* Whoever uses the contract: what was stored before no longer counts as read after it.
LEMMA ChangeKeeps ==
    ASSUME QuotesInv,
           kind' = kind, nonce' = nonce, cache' = cache, stirred' = nonce,
           contract' \in Values(nonce), position' \in 0..contract'.rewardPerShare,
           kind = "staking" => contract'.accumulated <= contract'.capacity
    PROVE  QuotesInv'
  <1>1. /\ nonce \in Nat /\ \A k \in All : cache[k].stored \in 0..nonce
    BY DEF QuotesInv, QuotesTypeOK, All
  <1>2. QuotesTypeOK'
    BY <1>1 DEF QuotesInv, QuotesTypeOK, Values
  <1>3. \A k \in All : ~(cache[k].stored > nonce)
    BY <1>1
  <1>4. ReadAfterStir'
    BY <1>3 DEF QuotesInv, ReadAfterStir, All
  <1> QED
    BY <1>2, <1>4 DEF QuotesInv

\* An entry stored now is in time; it holds what the contract has, or a handler has stirred.
LEMMA StoreKeeps ==
    ASSUME QuotesInv, NEW k \in All, NEW w,
           cache' = [cache EXCEPT ![k] = [value |-> w, stored |-> nonce]],
           kind' = kind, nonce' = nonce, contract' = contract, position' = position,
           k = "nonce" => w \in 0..nonce,
           stirred' = nonce \/ (stirred' = stirred /\ (k \in Keys => w = contract[k]))
    PROVE  QuotesInv'
  <1>1. /\ nonce \in Nat /\ stirred \in 0..nonce /\ cache["nonce"].value \in 0..nonce
        /\ \A j \in All : cache[j].stored \in 0..nonce
    BY DEF QuotesInv, QuotesTypeOK, All
  <1>2. DOMAIN cache = All
    BY DEF QuotesInv, ReadAfterStir
  <1>3. /\ DOMAIN cache' = All
        /\ cache'[k] = [value |-> w, stored |-> nonce]
        /\ \A j \in All : j # k => cache'[j] = cache[j]
    BY <1>2
  <1>4. /\ cache'[k].value = w /\ cache'[k].stored = nonce
    BY <1>3
  <1>5. \A j \in All : cache'[j].stored \in 0..nonce
    BY <1>1, <1>3, <1>4
  <1>6. "nonce" \in All /\ cache'["nonce"].value \in 0..nonce
    BY <1>1, <1>3, <1>4 DEF All
  <1>7. stirred' \in 0..nonce
    BY <1>1
  <1>8. QuotesTypeOK'
    BY <1>5, <1>6, <1>7 DEF QuotesInv, QuotesTypeOK, All
  <1>9. \A j \in Keys : cache'[j].stored > stirred' => cache'[j].value = contract[j]
    <2> SUFFICES ASSUME NEW j \in Keys, cache'[j].stored > stirred'
                 PROVE  cache'[j].value = contract[j]
      OBVIOUS
    <2>1. j \in All /\ stirred' = stirred
      BY <1>1, <1>5 DEF All
    <2>2. CASE j = k
      <3>1. w = contract[k]
        BY <1>1, <1>4, <2>2
      <3> QED
        BY <1>4, <2>2, <3>1
    <2>3. CASE j # k
      BY <1>3, <2>1, <2>3 DEF QuotesInv, ReadAfterStir
    <2> QED
      BY <2>2, <2>3
  <1>10. \A j \in All : nonce - cache'[j].stored <= Lives[j]
    <2>1. Lives[k] \in Nat /\ nonce - nonce = 0
      BY <1>1, RewardQuotesAssumption DEF All
    <2> QED
      BY <1>3, <1>4, <2>1 DEF QuotesInv, ReadAfterStir
  <1>11. \A j \in All : cache'[j] = [value |-> cache'[j].value, stored |-> cache'[j].stored]
    BY <1>3, <1>4 DEF QuotesInv, ReadAfterStir
  <1>12. ReadAfterStir'
    BY <1>3, <1>9, <1>10, <1>11 DEF ReadAfterStir
  <1> QED
    BY <1>8, <1>12 DEF QuotesInv

\* Every use of the contract, every event, every refresh and every block keeps the invariant.
THEOREM QuotesStepOK == QuotesInv /\ [QuotesNext]_quotesVars => QuotesInv'
  <1> SUFFICES ASSUME QuotesInv, [QuotesNext]_quotesVars PROVE QuotesInv'
    OBVIOUS
  <1> DEFINE v == Settled
  <1>1. /\ v \in Values(nonce) /\ contract.rewardPerShare <= v.rewardPerShare
        /\ kind = "staking" => v.accumulated <= v.capacity
    BY SettledIsTyped DEF QuotesInv, Values
  <1>2. /\ v = [last |-> v.last, rewardPerShare |-> v.rewardPerShare, supply |-> v.supply,
                perBlock |-> v.perBlock, producing |-> v.producing,
                accumulated |-> v.accumulated, capacity |-> v.capacity]
        /\ v.last \in 0..nonce /\ v.rewardPerShare \in Nat /\ v.supply \in Supplies
        /\ v.perBlock \in Rates /\ v.producing \in BOOLEAN
        /\ v.accumulated \in Nat /\ v.capacity \in Nat
    <2> HIDE DEF v
    <2> QED
      BY <1>1 DEF Values
  <1>3. nonce \in Nat /\ position \in 0..contract.rewardPerShare /\ contract.rewardPerShare \in Nat
    BY ContractFields DEF QuotesInv
  <1>4. position \in 0..v.rewardPerShare
    BY <1>1, <1>2, <1>3
  <1>5. ASSUME NEW s \in Supplies, ChangeSupply(s) PROVE QuotesInv'
    <2>1. contract' = [v EXCEPT !.supply = s]
      BY <1>5 DEF ChangeSupply
    <2> HIDE DEF v
    <2>2. /\ contract' \in Values(nonce) /\ contract'.rewardPerShare = v.rewardPerShare
          /\ contract'.accumulated = v.accumulated /\ contract'.capacity = v.capacity
      BY <1>1, <2>1 DEF Values
    <2> QED
      BY <1>1, <1>4, <1>5, <2>2, ChangeKeeps DEF ChangeSupply
  <1>6. ASSUME Claim PROVE QuotesInv'
    <2>1. contract' = v /\ position' = v.rewardPerShare
      BY <1>6 DEF Claim
    <2> HIDE DEF v
    <2>2. position' \in 0..contract'.rewardPerShare
      BY <1>2, <2>1
    <2> QED
      BY <1>1, <1>6, <2>1, <2>2, ChangeKeeps DEF Claim
  <1>7. ASSUME NEW rate \in Rates, NEW produce \in BOOLEAN, Administer(rate, produce) PROVE QuotesInv'
    <2>1. contract' = [v EXCEPT !.perBlock = rate, !.producing = produce]
      BY <1>7 DEF Administer
    <2> HIDE DEF v
    <2>2. /\ contract' \in Values(nonce) /\ contract'.rewardPerShare = v.rewardPerShare
          /\ contract'.accumulated = v.accumulated /\ contract'.capacity = v.capacity
      BY <1>1, <2>1 DEF Values
    <2> QED
      BY <1>1, <1>4, <1>7, <2>2, ChangeKeeps DEF Administer
  <1>8. ASSUME NEW c \in Capacities, SetCapacity(c) PROVE QuotesInv'
    <2>1. contract' = [v EXCEPT !.capacity = c] /\ c >= v.accumulated
      BY <1>8 DEF SetCapacity
    <2>2. c \in Nat
      BY RewardQuotesAssumption
    <2> HIDE DEF v
    <2>3. /\ contract' \in Values(nonce) /\ contract'.rewardPerShare = v.rewardPerShare
          /\ contract'.accumulated = v.accumulated /\ contract'.capacity = c
      BY <1>1, <2>1, <2>2 DEF Values
    <2>4. contract'.accumulated <= contract'.capacity
      BY <1>2, <2>1, <2>2, <2>3
    <2> QED
      BY <1>4, <1>8, <2>3, <2>4, ChangeKeeps DEF SetCapacity
  <1>9. ASSUME Block PROVE QuotesInv'
    <2>1. /\ nonce' = nonce + 1 /\ kind' = kind /\ contract' = contract /\ cache' = cache
          /\ position' = position /\ stirred' = stirred
          /\ \A k \in All : nonce + 1 - cache[k].stored <= Lives[k]
      BY <1>9 DEF Block, All
    <2>2. /\ stirred \in 0..nonce /\ cache["nonce"].value \in 0..nonce
          /\ \A k \in All : cache[k].stored \in 0..nonce
      BY DEF QuotesInv, QuotesTypeOK, All
    <2>3. /\ nonce' \in Nat /\ stirred' \in 0..nonce' /\ cache["nonce"].value \in 0..nonce'
          /\ \A k \in All : cache[k].stored \in 0..nonce'
      BY <1>3, <2>1, <2>2
    <2>4. contract \in Values(nonce')
      <3>1. contract \in Values(nonce) /\ 0..nonce \subseteq 0..nonce'
        BY <1>3, <2>1 DEF QuotesInv, QuotesTypeOK, Values
      <3> QED
        BY <3>1 DEF Values
    <2>5. QuotesTypeOK'
      BY <2>1, <2>3, <2>4 DEF QuotesInv, QuotesTypeOK, Values, All
    <2>6. \A k \in All : nonce' - cache'[k].stored <= Lives[k]
      BY <1>3, <2>1, <2>2
    <2>7. ReadAfterStir'
      <3>1. cache' = cache /\ contract' = contract /\ stirred' = stirred
        BY <2>1
      <3>2. /\ DOMAIN cache = All
            /\ \A k \in All : cache[k] = [value |-> cache[k].value, stored |-> cache[k].stored]
            /\ \A k \in Keys : cache[k].stored > stirred => cache[k].value = contract[k]
        BY DEF QuotesInv, ReadAfterStir
      <3> QED
        BY <2>6, <3>1, <3>2, Zenon DEF ReadAfterStir
    <2> QED
      BY <2>5, <2>7 DEF QuotesInv
  <1>10. ASSUME NEW k \in All, Refresh(k) PROVE QuotesInv'
    <2>1. k = "nonce" => Entry(k) \in 0..nonce
      BY <1>3 DEF Entry
    <2>2. k \in Keys => Entry(k) = contract[k]
      BY DEF Entry, Keys
    <2> QED
      BY <1>10, <2>1, <2>2, StoreKeeps DEF Refresh
  <1>11. ASSUME HandleEvent PROVE QuotesInv'
    <2>1. /\ stirred' = nonce /\ kind' = kind /\ nonce' = nonce /\ contract' = contract
          /\ position' = position
      BY <1>11 DEF HandleEvent
    <2>2. "supply" \in All /\ "rewardPerShare" \in All
      BY DEF All, Keys
    <2>3. CASE cache' = [cache EXCEPT !["supply"] =
                            [value |-> Head(events).supply, stored |-> nonce]]
      <3> DEFINE w == Head(events).supply
      <3> HIDE DEF w
      <3>1. cache' = [cache EXCEPT !["supply"] = [value |-> w, stored |-> nonce]]
        BY <2>3 DEF w
      <3> QED
        BY <2>1, <2>2, <3>1, StoreKeeps
    <2>4. CASE cache' = [cache EXCEPT !["rewardPerShare"].stored = nonce]
      <3> DEFINE w == cache["rewardPerShare"].value
      <3>1. cache["rewardPerShare"] = [value |-> w, stored |-> cache["rewardPerShare"].stored]
        BY <2>2 DEF QuotesInv, ReadAfterStir
      <3>2. [cache["rewardPerShare"] EXCEPT !.stored = nonce] = [value |-> w, stored |-> nonce]
        BY <3>1
      <3>3. cache' = [cache EXCEPT !["rewardPerShare"] = [value |-> w, stored |-> nonce]]
        BY <2>4, <3>2
      <3> HIDE DEF w
      <3> QED
        BY <2>1, <2>2, <3>3, StoreKeeps
    <2> QED
      BY <1>11, <2>3, <2>4 DEF HandleEvent
  <1>12. CASE UNCHANGED quotesVars
    BY <1>12 DEF quotesVars, QuotesInv, QuotesTypeOK, ReadAfterStir
  <1> QED
    BY <1>5, <1>6, <1>7, <1>8, <1>9, <1>10, <1>11, <1>12 DEF QuotesNext, Use, All

--------------------------------------------------------------------------------
(* What a quote is worth.                                                  *)

\* When it is quiet the cached values are those of the contract.
LEMMA QuietCacheIsContract ==
    ASSUME QuotesInv, nonce - stirred > MaxLife
    PROVE  Cached = contract
  <1>1. \A k \in Keys : cache[k].value = contract[k]
    <2> SUFFICES ASSUME NEW k \in Keys PROVE cache[k].value = contract[k]
      OBVIOUS
    <2>1. /\ nonce \in Nat /\ stirred \in 0..nonce /\ cache[k].stored \in 0..nonce
      BY DEF QuotesInv, QuotesTypeOK
    <2>2. Lives[k] \in Nat /\ MaxLife \in Nat /\ Lives[k] <= MaxLife
      BY RewardQuotesAssumption
    <2>3. nonce - cache[k].stored <= Lives[k]
      BY DEF QuotesInv, ReadAfterStir, All
    <2>4. cache[k].stored > stirred
      BY <2>1, <2>2, <2>3
    <2> QED
      BY <2>4 DEF QuotesInv, ReadAfterStir
  <1>2. contract \in Values(nonce)
    BY DEF QuotesInv, QuotesTypeOK, Values
  <1>3. contract = [k \in Keys |-> contract[k]]
    BY <1>2 DEF Values, Keys
  <1> QED
    BY <1>1, <1>3 DEF Cached

\* Whatever the contract, the keys and their times to live: a quote computed from entries of
\* seven different ages is exact once everything has been quiet for the longest of them.
THEOREM QuotesExact == QuotesSpec => []QuietQuotesAreExact
  <1>1. QuotesInv => QuietQuotesAreExact
    <2> SUFFICES ASSUME QuotesInv, nonce - stirred > MaxLife
                 PROVE  Quote = Owed(cache["nonce"].value)
      BY DEF QuotesInv, QuietQuotesAreExact
    <2>1. Cached = contract
      BY QuietCacheIsContract
    <2>2. cache["nonce"].value \in 0..nonce
      BY DEF QuotesInv, QuotesTypeOK
    <2>3. Rewards(contract, cache["nonce"].value) = Owed(cache["nonce"].value)
      BY <2>2, ExactFromContract DEF QuotesInv
    <2> QED
      BY <2>1, <2>3 DEF Quote
  <1>2. QuotesInit => QuotesInv
    BY QuotesInitOK
  <1>3. QuotesInv /\ [QuotesNext]_quotesVars => QuotesInv'
    BY QuotesStepOK
  <1> QED
    BY <1>1, <1>2, <1>3, PTL DEF QuotesSpec

--------------------------------------------------------------------------------
(* Quotes of a later block.                                                *)

\* Products, and quotients, of larger numbers are not smaller.
LEMMA ProductGrows ==
    ASSUME NEW a \in Nat, NEW b \in Nat, a <= b, NEW c \in Nat
    PROVE  c * a <= c * b
  <1> DEFINE d == b - a
  <1>1. d \in Nat /\ b = a + d
    OBVIOUS
  <1>2. c * d \in Nat
    BY <1>1, ProductIsNat
  <1>3. c * (a + d) = c * a + c * d
    BY <1>1
  <1> QED
    BY <1>1, <1>2, <1>3

LEMMA QuotientGrows ==
    ASSUME NEW a \in Nat, NEW b \in Nat, a <= b, NEW d \in Nat \ {0}
    PROVE  a \div d <= b \div d
  <1> DEFINE qa == a \div d
             qb == b \div d
  <1>1. qa \in Nat /\ qa * d <= a
    BY Quotient
  <1>2. qb \in Nat /\ b < qb * d + d
    BY Quotient
  <1> HIDE DEF qa, qb
  <1>3. qa * d < (qb + 1) * d
    BY <1>1, <1>2
  <1>4. CASE qb + 1 <= qa
    <2>1. d * (qb + 1) <= d * qa
      BY <1>1, <1>2, <1>4, ProductGrows
    <2> QED
      BY <1>1, <1>2, <1>3, <2>1
  <1> QED
    BY <1>1, <1>2, <1>4 DEF qa, qb

\* What is left to the positions grows with the rewards: the boosted share never grows faster.
LEMMA BaseGrows ==
    ASSUME NEW r \in Nat, NEW s \in Nat, r <= s
    PROVE  BaseRewards(r) <= BaseRewards(s)
  <1> DEFINE d == s - r
             rb == r * Boosted
             sb == s * Boosted
             qr == rb \div MaxPercent
             qs == sb \div MaxPercent
  <1>1. Boosted \in Nat /\ MaxPercent \in Nat \ {0} /\ Boosted <= MaxPercent
    BY RewardQuotesAssumption
  <1>2. d \in Nat /\ s = r + d
    OBVIOUS
  <1>3. rb \in Nat /\ sb \in Nat /\ sb = rb + d * Boosted
    BY <1>1, <1>2, ProductIsNat
  <1>4. d * Boosted <= d * MaxPercent
    BY <1>1, <1>2, ProductGrows
  <1> HIDE DEF d, rb, sb
  <1>5. qr \in Nat /\ rb < qr * MaxPercent + MaxPercent
    BY <1>1, <1>3, Quotient
  <1>6. qs \in Nat /\ qs * MaxPercent <= sb
    BY <1>1, <1>3, Quotient
  <1> HIDE DEF qr, qs
  <1>7. qs * MaxPercent < qr * MaxPercent + MaxPercent + d * MaxPercent
    <2>1. qs * MaxPercent \in Nat /\ qr * MaxPercent \in Nat /\ d * MaxPercent \in Nat /\ d * Boosted \in Nat
      BY <1>1, <1>2, <1>5, <1>6, ProductIsNat
    <2> QED
      BY <1>1, <1>3, <1>4, <1>5, <1>6, <2>1
  <1>8. qr * MaxPercent + MaxPercent + d * MaxPercent = MaxPercent * (qr + 1 + d)
    BY <1>1, <1>2, <1>5
  <1>9. qs <= qr + d
    <2>1. CASE qr + 1 + d <= qs
      <3>1. MaxPercent * (qr + 1 + d) <= MaxPercent * qs
        BY <1>1, <1>2, <1>5, <1>6, <2>1, ProductGrows
      <3>2. MaxPercent * qs = qs * MaxPercent /\ MaxPercent * qs \in Nat
        BY <1>1, <1>6, ProductIsNat
      <3>3. MaxPercent * (qr + 1 + d) \in Nat
        BY <1>1, <1>2, <1>5, ProductIsNat
      <3> QED
        BY <1>7, <1>8, <3>1, <3>2, <3>3
    <2> QED
      BY <1>2, <1>5, <1>6, <2>1
  <1>10. BaseRewards(r) = r - qr /\ BaseRewards(s) = s - qs
    BY DEF BaseRewards, qr, qs, rb, sb
  <1> QED
    BY <1>2, <1>5, <1>6, <1>9, <1>10

\* The types of the values of a contract, by key.
Ranges == [last |-> Nat, rewardPerShare |-> Nat, supply |-> Supplies, perBlock |-> Rates,
           producing |-> BOOLEAN, accumulated |-> Nat, capacity |-> Nat]

\* An increase of the reward per share grows with what it is computed from.
LEMMA IncreaseGrows ==
    ASSUME NEW v, v.supply \in Nat \ {0}, NEW a \in Nat, NEW b \in Nat, a <= b
    PROVE  /\ Increase(v, a) \in Nat /\ Increase(v, b) \in Nat
           /\ Increase(v, a) <= Increase(v, b)
  <1> DEFINE s == v.supply
             x == a * Safety
             y == b * Safety
  <1>1. Safety \in Nat /\ s \in Nat \ {0}
    BY RewardQuotesAssumption
  <1>2. x \in Nat /\ y \in Nat /\ x <= y
    <2>1. Safety * a <= Safety * b
      BY <1>1, ProductGrows
    <2> QED
      BY <1>1, <2>1, ProductIsNat
  <1>3. Increase(v, a) = x \div s /\ Increase(v, b) = y \div s
    BY DEF Increase
  <1> HIDE DEF s, x, y
  <1> QED
    BY <1>1, <1>2, <1>3, QuotientIsNat, QuotientGrows

\* From values that are typed, and where no more is given out than the capacity, a later block is
\* never quoted less, by a farm or by a staking contract.
LEMMA LaterIsMore ==
    ASSUME NEW v, v.last \in Nat, v.rewardPerShare \in Nat, v.supply \in Nat \ {0}, v.perBlock \in Nat,
           v.accumulated \in Nat, v.capacity \in Nat, v.accumulated <= v.capacity,
           NEW m \in Nat, NEW n \in Nat, m <= n, NEW entered \in Nat
    PROVE  /\ FarmRewards(v, m, entered) \in Int /\ FarmRewards(v, n, entered) \in Int
           /\ FarmRewards(v, m, entered) <= FarmRewards(v, n, entered)
           /\ StakingRewards(v, m, entered) \in Int /\ StakingRewards(v, n, entered) \in Int
           /\ StakingRewards(v, m, entered) <= StakingRewards(v, n, entered)
  <1> DEFINE i == m - v.last
             j == n - v.last
             wm == v.perBlock * i
             wn == v.perBlock * j
             sa == v.supply * Apr
             am == (sa * i) \div MaxPercent
             an == (sa * j) \div MaxPercent
  <1>1. /\ Apr \in Nat /\ MaxPercent \in Nat \ {0} /\ Liquidity \in Nat /\ sa \in Nat
    BY RewardQuotesAssumption, ProductIsNat
  <1>2. m > v.last => /\ i \in Nat /\ j \in Nat /\ i <= j
                      /\ wm \in Nat /\ wm <= wn /\ am \in Nat /\ am <= an
    <2> SUFFICES ASSUME m > v.last
                 PROVE  /\ i \in Nat /\ j \in Nat /\ i <= j
                        /\ wm \in Nat /\ wm <= wn /\ am \in Nat /\ am <= an
      OBVIOUS
    <2>1. i \in Nat /\ j \in Nat /\ i <= j
      OBVIOUS
    <2> HIDE DEF i, j, sa
    <2>2. wm \in Nat /\ wm <= wn
      BY <2>1, ProductIsNat, ProductGrows
    <2> DEFINE x == sa * i
               y == sa * j
    <2>3. x \in Nat /\ y \in Nat /\ x <= y
      BY <1>1, <2>1, ProductIsNat, ProductGrows
    <2> HIDE DEF x, y
    <2>4. am = x \div MaxPercent /\ an = y \div MaxPercent
      BY DEF x, y
    <2>5. am \in Nat /\ am <= an
      BY <1>1, <2>3, <2>4, QuotientIsNat, QuotientGrows
    <2> QED
      BY <2>1, <2>2, <2>5
  <1>3. n > v.last => wn \in Nat /\ an \in Nat
    <2> SUFFICES ASSUME n > v.last PROVE wn \in Nat /\ an \in Nat
      OBVIOUS
    <2>1. j \in Nat
      OBVIOUS
    <2> HIDE DEF j, sa
    <2> DEFINE y == sa * j
    <2>2. wn \in Nat /\ y \in Nat
      BY <1>1, <2>1, ProductIsNat
    <2> HIDE DEF y
    <2>3. an = y \div MaxPercent
      BY DEF y
    <2> QED
      BY <1>1, <2>2, <2>3, QuotientIsNat
  <1>4. /\ Minted(v, m) = IF m > v.last /\ v.producing THEN wm ELSE 0
        /\ Minted(v, n) = IF n > v.last /\ v.producing THEN wn ELSE 0
        /\ ExtraRewards(v, m) = IF m > v.last /\ v.producing THEN Smaller(wm, am) ELSE 0
        /\ ExtraRewards(v, n) = IF n > v.last /\ v.producing THEN Smaller(wn, an) ELSE 0
    BY DEF Minted, ExtraRewards
  <1> HIDE DEF i, j, wm, wn, am, an, sa
  <1>5. Minted(v, m) \in Nat /\ Minted(v, n) \in Nat /\ Minted(v, m) <= Minted(v, n)
    <2>1. CASE m > v.last /\ v.producing
      <3>1. n > v.last
        BY <2>1
      <3> QED
        BY <1>2, <1>3, <1>4, <2>1, <3>1
    <2>2. CASE ~(m > v.last /\ v.producing)
      <3>1. Minted(v, m) = 0
        BY <1>4, <2>2
      <3>2. Minted(v, n) \in Nat
        BY <1>3, <1>4
      <3> QED
        BY <3>1, <3>2
    <2> QED
      BY <2>1, <2>2
  <1>6. /\ ExtraRewards(v, m) \in Nat /\ ExtraRewards(v, n) \in Nat
        /\ ExtraRewards(v, m) <= ExtraRewards(v, n)
    <2>1. CASE m > v.last /\ v.producing
      <3>1. n > v.last
        BY <2>1
      <3>2. Smaller(wm, am) \in Nat /\ Smaller(wn, an) \in Nat /\ Smaller(wm, am) <= Smaller(wn, an)
        BY <1>2, <1>3, <2>1, <3>1 DEF Smaller
      <3> QED
        BY <1>4, <2>1, <3>1, <3>2
    <2>2. CASE ~(m > v.last /\ v.producing)
      <3>1. ExtraRewards(v, m) = 0
        BY <1>4, <2>2
      <3>2. ExtraRewards(v, n) \in Nat
        <4>1. CASE n > v.last /\ v.producing
          BY <1>3, <1>4, <4>1 DEF Smaller
        <4> QED
          BY <1>4, <4>1
      <3> QED
        BY <3>1, <3>2
    <2> QED
      BY <2>1, <2>2
  <1>7. /\ FutureFarm(v, m) \in Nat /\ FutureFarm(v, n) \in Nat /\ FutureFarm(v, m) <= FutureFarm(v, n)
    <2> DEFINE b == BaseRewards(Minted(v, m))
               c == BaseRewards(Minted(v, n))
    <2>1. b \in Nat /\ c \in Nat /\ b <= c
      BY <1>5, BaseIsNat, BaseGrows
    <2>2. FutureFarm(v, m) = v.rewardPerShare + Increase(v, b) /\ FutureFarm(v, n) = v.rewardPerShare + Increase(v, c)
      BY DEF FutureFarm
    <2> HIDE DEF b, c
    <2>3. Increase(v, b) \in Nat /\ Increase(v, c) \in Nat /\ Increase(v, b) <= Increase(v, c)
      BY <2>1, IncreaseGrows
    <2> QED
      BY <2>2, <2>3
  <1>8. /\ FutureStaking(v, m) \in Nat /\ FutureStaking(v, n) \in Nat
        /\ FutureStaking(v, m) <= FutureStaking(v, n)
    <2> DEFINE e == ExtraRewards(v, m)
               f == ExtraRewards(v, n)
               b == WithinCapacity(v, e)
               c == WithinCapacity(v, f)
    <2>1. /\ FutureStaking(v, m) = IF e > 0 THEN v.rewardPerShare + Increase(v, b) ELSE v.rewardPerShare
          /\ FutureStaking(v, n) = IF f > 0 THEN v.rewardPerShare + Increase(v, c) ELSE v.rewardPerShare
      BY DEF FutureStaking
    <2>2. e \in Nat /\ f \in Nat /\ e <= f
      BY <1>6
    <2> HIDE DEF e, f
    <2>3. b \in Nat /\ c \in Nat /\ b <= c
      BY <2>2 DEF WithinCapacity
    <2> HIDE DEF b, c
    <2>4. Increase(v, b) \in Nat /\ Increase(v, c) \in Nat /\ Increase(v, b) <= Increase(v, c)
      BY <2>3, IncreaseGrows
    <2> QED
      BY <2>1, <2>2, <2>4
  <1>9. \A x, y \in Int : x <= y => /\ Liquidity * x \in Int /\ Liquidity * y \in Int
                                    /\ Liquidity * x <= Liquidity * y
    <2> SUFFICES ASSUME NEW x \in Int, NEW y \in Int, x <= y
                 PROVE  /\ Liquidity * x \in Int /\ Liquidity * y \in Int
                        /\ Liquidity * x <= Liquidity * y
      OBVIOUS
    <2> DEFINE d == y - x
    <2>1. d \in Nat /\ y = x + d
      OBVIOUS
    <2>2. Liquidity * d \in Nat
      BY <1>1, <2>1, ProductIsNat
    <2>3. Liquidity * (x + d) = Liquidity * x + Liquidity * d
      BY <1>1, <2>1
    <2>4. Liquidity * x \in Int
      BY <1>1
    <2> QED
      BY <2>1, <2>2, <2>3, <2>4
  <1>10. /\ StakingRewards(v, m, entered) \in Int /\ StakingRewards(v, n, entered) \in Int
         /\ StakingRewards(v, m, entered) <= StakingRewards(v, n, entered)
    <2> DEFINE x == FutureStaking(v, m) - entered
               y == FutureStaking(v, n) - entered
    <2>1. x \in Int /\ y \in Int /\ x <= y
      BY <1>8
    <2>2. StakingRewards(v, m, entered) = Liquidity * x /\ StakingRewards(v, n, entered) = Liquidity * y
      BY DEF StakingRewards
    <2> HIDE DEF x, y
    <2> QED
      BY <1>9, <2>1, <2>2
  <1>11. /\ FarmRewards(v, m, entered) \in Int /\ FarmRewards(v, n, entered) \in Int
         /\ FarmRewards(v, m, entered) <= FarmRewards(v, n, entered)
    <2> DEFINE x == FutureFarm(v, m) - entered
               y == FutureFarm(v, n) - entered
    <2>1. x \in Int /\ y \in Int /\ x <= y
      BY <1>7
    <2>2. /\ FarmRewards(v, m, entered) = IF FutureFarm(v, m) > entered THEN Liquidity * x ELSE 0
          /\ FarmRewards(v, n, entered) = IF FutureFarm(v, n) > entered THEN Liquidity * y ELSE 0
      BY DEF FarmRewards
    <2>3. (FutureFarm(v, m) > entered <=> x > 0) /\ (FutureFarm(v, n) > entered <=> y > 0)
      BY <1>7
    <2> HIDE DEF x, y
    <2>4. Liquidity * 0 = 0
      BY <1>1
    <2>5. y > 0 => Liquidity * y >= 0 /\ Liquidity * y \in Int
      BY <1>9, <2>1, <2>4
    <2>6. x > 0 => Liquidity * x \in Int /\ Liquidity * x <= Liquidity * y /\ y > 0
      BY <1>9, <2>1
    <2> QED
      BY <2>2, <2>3, <2>5, <2>6
  <1> QED
    BY <1>10, <1>11

\* What is stored, and what a handler is going to store, has the type of its key.
StoredInv ==
    /\ events \in Seq([name : {"supply", "claim"}, supply : Supplies])
    /\ \A k \in Keys : cache[k].value \in Ranges[k]

\* The values of a contract have the types of their keys.
LEMMA ContractRanges ==
    ASSUME QuotesTypeOK, NEW k \in Keys
    PROVE  contract[k] \in Ranges[k]
  <1>1. /\ contract.last \in Nat /\ contract.rewardPerShare \in Nat
        /\ contract.producing \in BOOLEAN /\ contract.accumulated \in Nat /\ contract.capacity \in Nat
    BY ContractFields
  <1>2. contract.supply \in Supplies /\ contract.perBlock \in Rates
    <2>1. contract \in [last : 0..nonce, rewardPerShare : Nat, supply : Supplies, perBlock : Rates,
                        producing : BOOLEAN, accumulated : Nat, capacity : Nat]
      BY DEF QuotesTypeOK
    <2> QED
      BY <2>1
  <1>3. /\ k = "last" => contract[k] \in Ranges[k]
        /\ k = "rewardPerShare" => contract[k] \in Ranges[k]
        /\ k = "supply" => contract[k] \in Ranges[k]
        /\ k = "perBlock" => contract[k] \in Ranges[k]
        /\ k = "producing" => contract[k] \in Ranges[k]
        /\ k = "accumulated" => contract[k] \in Ranges[k]
        /\ k = "capacity" => contract[k] \in Ranges[k]
    BY <1>1, <1>2 DEF Ranges
  <1> QED
    BY <1>3 DEF Keys

\* Every step keeps those types, and the cached block only grows.
LEMMA StoredStep ==
    ASSUME QuotesInv, StoredInv, [QuotesNext]_quotesVars
    PROVE  StoredInv' /\ kind' = kind /\ cache["nonce"].value <= cache'["nonce"].value
  <1> DEFINE Event == [name : {"supply", "claim"}, supply : Supplies]
  <1>1. /\ events \in Seq(Event) /\ DOMAIN cache = All /\ nonce \in Nat
        /\ cache["nonce"].value \in 0..nonce /\ cache["nonce"].value \in Nat
        /\ contract.supply \in Supplies
    <2>1. contract.supply \in Supplies
      BY ContractRanges DEF QuotesInv, Keys, Ranges
    <2> QED
      BY <2>1 DEF StoredInv, QuotesInv, QuotesTypeOK, ReadAfterStir
  <1>2. ASSUME UNCHANGED <<kind, cache>>, events' \in Seq(Event)
        PROVE  StoredInv' /\ kind' = kind /\ cache["nonce"].value <= cache'["nonce"].value
    BY <1>1, <1>2 DEF StoredInv
  <1>3. ASSUME NEW s \in Supplies, ChangeSupply(s) \/ Claim
        PROVE  UNCHANGED <<kind, cache>> /\ events' \in Seq(Event)
    <2>1. [name |-> "supply", supply |-> s] \in Event /\ [name |-> "claim", supply |-> contract.supply] \in Event
      BY <1>1
    <2> HIDE DEF Event
    <2>2. \A e \in Event : Append(events, e) \in Seq(Event)
      BY <1>1
    <2> QED
      BY <1>1, <1>3, <2>1, <2>2 DEF ChangeSupply, Claim
  <1>4. ASSUME NEW rate \in Rates, NEW produce \in BOOLEAN, Administer(rate, produce)
        PROVE  UNCHANGED <<kind, cache>> /\ events' \in Seq(Event)
    BY <1>1, <1>4 DEF Administer
  <1>5. ASSUME NEW c \in Capacities, SetCapacity(c)
        PROVE  UNCHANGED <<kind, cache>> /\ events' \in Seq(Event)
    BY <1>1, <1>5 DEF SetCapacity
  <1>6. CASE Block \/ UNCHANGED quotesVars
    <2>1. UNCHANGED <<kind, cache, events>>
      BY <1>6 DEF Block, quotesVars
    <2> QED
      BY <1>1, <1>2, <2>1
  <1>7. ASSUME NEW k \in All, Refresh(k)
        PROVE  StoredInv' /\ kind' = kind /\ cache["nonce"].value <= cache'["nonce"].value
    <2> DEFINE w == Entry(k)
    <2>1. cache' = [cache EXCEPT ![k] = [value |-> w, stored |-> nonce]] /\ UNCHANGED <<kind, events>>
      BY <1>7 DEF Refresh
    <2>2. (k = "nonce" => w = nonce) /\ (k \in Keys => w \in Ranges[k])
      BY ContractRanges DEF Entry, QuotesInv, Keys
    <2> HIDE DEF w
    <2>3. cache'[k].value = w /\ \A j \in All : j # k => cache'[j] = cache[j]
      BY <1>1, <2>1
    <2>4. \A j \in Keys : cache'[j].value \in Ranges[j]
      <3> SUFFICES ASSUME NEW j \in Keys PROVE cache'[j].value \in Ranges[j]
        OBVIOUS
      <3>1. j \in All
        BY DEF All
      <3> QED
        BY <2>2, <2>3, <3>1 DEF StoredInv
    <2>5. cache["nonce"].value <= cache'["nonce"].value
      <3>1. "nonce" \in All
        BY DEF All
      <3> QED
        BY <1>1, <2>2, <2>3, <3>1
    <2> QED
      BY <1>1, <2>1, <2>4, <2>5 DEF StoredInv
  <1>8. ASSUME HandleEvent
        PROVE  StoredInv' /\ kind' = kind /\ cache["nonce"].value <= cache'["nonce"].value
    <2>1. events # <<>> /\ events' = Tail(events) /\ kind' = kind
      BY <1>8 DEF HandleEvent
    <2>2. Head(events) \in Event /\ Tail(events) \in Seq(Event)
      <3> HIDE DEF Event
      <3> QED
        BY <1>1, <2>1
    <2>3. Head(events).supply \in Supplies
      BY <2>2
    <2> DEFINE w == Head(events).supply
    <2> HIDE DEF w
    <2>4. /\ cache'["supply"].value = cache["supply"].value \/ cache'["supply"].value = w
          /\ \A j \in All : j # "supply" => cache'[j].value = cache[j].value
      <3>1. "supply" \in All /\ "rewardPerShare" \in All
        BY DEF All, Keys
      <3>2. CASE cache' = [cache EXCEPT !["supply"] = [value |-> Head(events).supply, stored |-> nonce]]
        BY <1>1, <3>1, <3>2 DEF w
      <3>3. CASE cache' = [cache EXCEPT !["rewardPerShare"].stored = nonce]
        <4> DEFINE old == cache["rewardPerShare"]
                   new == [old EXCEPT !.stored = nonce]
        <4>1. old = [value |-> old.value, stored |-> old.stored]
          BY <3>1 DEF QuotesInv, ReadAfterStir
        <4>2. new.value = old.value
          BY <4>1
        <4>3. cache' = [cache EXCEPT !["rewardPerShare"] = new]
          BY <3>3
        <4> HIDE DEF new
        <4> QED
          BY <1>1, <3>1, <4>2, <4>3
      <3> QED
        BY <1>8, <3>2, <3>3 DEF HandleEvent
    <2>5. \A j \in Keys : cache'[j].value \in Ranges[j]
      <3> SUFFICES ASSUME NEW j \in Keys PROVE cache'[j].value \in Ranges[j]
        OBVIOUS
      <3>1. j \in All /\ cache[j].value \in Ranges[j]
        BY DEF All, StoredInv
      <3>2. w \in Ranges["supply"]
        BY <2>3 DEF w, Ranges
      <3> QED
        BY <2>4, <3>1, <3>2
    <2>6. cache'["nonce"].value = cache["nonce"].value
      BY <2>4 DEF All
    <2> QED
      BY <1>1, <2>1, <2>2, <2>5, <2>6 DEF StoredInv
  <1> HIDE DEF Event
  <1> QED
    <2>1. CASE Use
      BY <1>1, <1>2, <1>3, <1>4, <1>5, <2>1 DEF Use
    <2> QED
      BY <1>6, <1>7, <1>8, <2>1 DEF QuotesNext, All

\* Time alone makes no quote smaller: WaitingNeverCosts.  It takes another value than the block that
\* was read again, or cached rewards beyond the cached capacity.
THEOREM WaitingIsFree == QuotesSpec => WaitingNeverCosts
  <1>1. QuotesInit => QuotesInv /\ StoredInv
    <2> SUFFICES ASSUME QuotesInit PROVE QuotesInv /\ StoredInv
      OBVIOUS
    <2>1. QuotesInv
      BY QuotesInitOK
    <2>2. \A k \in Keys : cache[k].value = contract[k]
      BY DEF QuotesInit, Keys
    <2>3. \A k \in Keys : contract[k] \in Ranges[k]
      BY <2>1, ContractRanges DEF QuotesInv
    <2>4. events \in Seq([name : {"supply", "claim"}, supply : Supplies])
      BY DEF QuotesInit
    <2> QED
      BY <2>1, <2>2, <2>3, <2>4 DEF StoredInv
  <1>2. QuotesInv /\ StoredInv /\ [QuotesNext]_quotesVars => (QuotesInv /\ StoredInv)'
    BY QuotesStepOK, StoredStep
  <1>3. ASSUME QuotesInv, StoredInv, [QuotesNext]_quotesVars
        PROVE  Quote' < Quote =>
                 \/ Cached' # Cached \/ position' # position
                 \/ Cached.accumulated > Cached.capacity
    <2> SUFFICES ASSUME Cached' = Cached, position' = position, ~(Cached.accumulated > Cached.capacity)
                 PROVE  ~(Quote' < Quote)
      OBVIOUS
    <2> DEFINE v == Cached
               m == cache["nonce"].value
               n == cache'["nonce"].value
    <2>1. kind' = kind /\ m <= n
      BY <1>3, StoredStep
    <2>2. m \in Nat /\ n \in Nat
      <3>1. cache["nonce"].value \in 0..nonce /\ cache'["nonce"].value \in 0..nonce' /\ nonce \in Nat /\ nonce' \in Nat
        BY <1>2, <1>3 DEF QuotesInv, QuotesTypeOK
      <3> QED
        BY <3>1
    <2>3. /\ v.last \in Nat /\ v.rewardPerShare \in Nat /\ v.supply \in Supplies /\ v.perBlock \in Rates
          /\ v.accumulated \in Nat /\ v.capacity \in Nat
      BY <1>3 DEF StoredInv, Cached, Keys, Ranges
    <2>4. v.supply \in Nat \ {0} /\ v.perBlock \in Nat
      BY <2>3, RewardQuotesAssumption
    <2>5. position \in Nat
      BY <1>3, ContractFields DEF QuotesInv
    <2>6. Quote = IF kind = "farm" THEN FarmRewards(v, m, position) ELSE StakingRewards(v, m, position)
      BY DEF Quote, Rewards
    <2>7. Quote' = IF kind = "farm" THEN FarmRewards(v, n, position) ELSE StakingRewards(v, n, position)
      BY <2>1 DEF Quote, Rewards
    <2> HIDE DEF v, m, n
    <2>8. v.accumulated <= v.capacity
      BY <2>3 DEF v
    <2>9. /\ FarmRewards(v, m, position) \in Int /\ FarmRewards(v, n, position) \in Int
          /\ FarmRewards(v, m, position) <= FarmRewards(v, n, position)
          /\ StakingRewards(v, m, position) \in Int /\ StakingRewards(v, n, position) \in Int
          /\ StakingRewards(v, m, position) <= StakingRewards(v, n, position)
      BY <2>1, <2>2, <2>3, <2>4, <2>5, <2>8, LaterIsMore
    <2> QED
      BY <2>6, <2>7, <2>9
  <1> QED
    BY <1>1, <1>2, <1>3, PTL DEF QuotesSpec, WaitingNeverCosts

--------------------------------------------------------------------------------
(* Responses for guests: the inductive invariant.                          *)

\* An idle request stays at some process and query.
ReqProcesses == Processes \cup {CHOOSE p \in Processes : TRUE}
ReqQueries == Queries \cup {CHOOSE q \in Queries : TRUE}

RequestRecords ==
    [pc : RequestPCs, p : ReqProcesses, q : ReqQueries, minute : 0..1, first : BOOLEAN, wait : 0..MaxLatency]
JobRecords == [pc : JobPCs, minute : 0..1, hot : BOOLEAN, age : 0..MaxLatency, wait : 0..MaxLatency]
Responses == [age : Nat, left : 0..ResponseTtl]

TypeInv ==
    /\ phase \in 0..(TicksPerMinute - 1)
    /\ hits \in [Ages -> [Queries -> 0..MaxHits]]
    /\ counter \in [Processes -> [Ages -> [Queries -> 0..BatchSize]]]
    /\ started \in [Processes -> BOOLEAN]
    /\ metric \in [Ages -> [Queries -> Nat]]
    /\ score \in [SetAges -> [Queries -> Nat]]
    /\ expires \in [SetAges -> {"missing", "never", "later"}]
    /\ body \in [Queries -> BOOLEAN]
    /\ response \in [Queries -> Responses]
    /\ req \in [Requests -> RequestRecords]
    /\ job \in [Warmers -> [Queries -> JobRecords]]
    /\ wasHot \in [Queries -> BOOLEAN]
    /\ failures \in 0..MaxFailures

\* What began in the previous minute has been waiting since.
RequestsInv ==
    \A r \in Requests :
        /\ req[r].pc # "idle" => req[r].p \in Processes /\ req[r].q \in Queries
        /\ req[r].pc = "idle" => req[r].minute = 0
        /\ req[r].pc \in {"create", "ttl"} => req[r].first
        /\ req[r].minute = 1 => req[r].wait > phase

\* A response in hand is not older than the job.
JobsInv ==
    \A w \in Warmers : \A q \in Queries :
        /\ job[w][q].pc = "idle" => job[w][q].minute = 0
        /\ job[w][q].minute = 1 => job[w][q].wait > phase
        /\ job[w][q].age <= job[w][q].wait

\* The requests of every process since its last full batch, as a set of pairs.
Rest(n) == IF n < BatchSize THEN n ELSE 0
Rests(a, q) == [p \in Processes |-> Rest(counter[p][a][q])]
Area(f) == {u \in Processes \X (1..BatchSize) : u[2] <= f[u[1]]}

\* The requests that will still add a batch.
ToScore == {"body", "increment"}
ToMetric == {"body", "increment", "metric"}
Pending(pcs, a, q) == {r \in Requests : req[r].pc \in pcs /\ req[r].minute = a /\ req[r].q = q}

\* What is counted, the batches to come and the requests since stand for different requests.
Balances ==
    {b \in [counted : Nat, pending : SUBSET Requests, rest : [Processes -> 0..BatchSize], made : Nat] :
        /\ IsFiniteSet(b.pending) /\ IsFiniteSet(Area(b.rest))
        /\ b.counted + BatchSize * Cardinality(b.pending) + Cardinality(Area(b.rest)) <= b.made}

Balance(n, P, f, h) == [counted |-> n, pending |-> P, rest |-> f, made |-> h]

ScoreBalance(a, q) == Balance(score[a][q], Pending(ToScore, a, q), Rests(a, q), hits[a][q])
MetricBalance(a, q) == Balance(metric[a][q], Pending(ToMetric, a, q), Rests(a, q), hits[a][q])

CountsInv ==
    \A a \in Ages : \A q \in Queries : ScoreBalance(a, q) \in Balances /\ MetricBalance(a, q) \in Balances

HotInv ==
    /\ \A a \in Ages : \A q \in Queries : hits[a][q] >= Threshold => wasHot[q]
    /\ \A a \in SetAges : \A q \in Queries : score[a][q] >= Threshold => wasHot[q]
    /\ \A w \in Warmers : \A q \in Queries :
         job[w][q].hot \/ job[w][q].pc \in {"body", "post", "store"} => wasHot[q]
    /\ \A q \in Queries :
         response[q].left > 0 => wasHot[q] /\ response[q].age + response[q].left <= ResponseTtl + MaxLatency

\* The first request of a process in a minute is on its way, and will set the time to live.
Owned(a) == \E r \in Requests : req[r].pc # "idle" /\ req[r].first /\ req[r].minute = a

Touched(a) ==
    \/ expires[a] = "never"
    \/ a = 0 /\ \E p \in Processes : started[p]
    \/ \E r \in Requests : req[r].pc # "idle" /\ req[r].minute = a

ExpiryInv ==
    failures = 0 =>
        /\ expires[2] # "never"
        /\ \A a \in Ages : Touched(a) => expires[a] = "later" \/ Owned(a)

GuestInv == TypeInv /\ RequestsInv /\ JobsInv /\ CountsInv /\ HotInv /\ ExpiryInv

--------------------------------------------------------------------------------
(* Balances.                                                               *)

\* The constants as numbers.
LEMMA Constants ==
    /\ BatchSize \in Nat \ {0} /\ Threshold \in Nat \ {0} /\ ResponseTtl \in Nat \ {0}
    /\ TicksPerMinute \in Nat \ {0} /\ MaxLatency \in Nat /\ MaxHits \in Nat /\ MaxFailures \in Nat
    /\ MaxLatency < TicksPerMinute /\ Ages = {0, 1} /\ SetAges = {0, 1, 2}
  <1>1. Ages = {0, 1} /\ SetAges = {0, 1, 2}
    BY DEF Ages, SetAges
  <1> QED
    BY <1>1, GuestCacheAssumption

\* Every request makes the rest larger by one, or makes it a batch.
LEMMA CountMoves ==
    ASSUME NEW c \in 0..BatchSize
    PROVE  /\ Rest(c) \in 0..BatchSize /\ Count(c) \in 0..BatchSize
           /\ Count(c) < BatchSize => Rest(Count(c)) = Rest(c) + 1
           /\ Count(c) >= BatchSize => Rest(Count(c)) = 0 /\ Rest(c) = BatchSize - 1
  BY Constants DEF Rest, Count

\* The pairs of a rest that grows by one.
LEMMA AreaGrows ==
    ASSUME NEW f \in [Processes -> 0..BatchSize], NEW g \in [Processes -> 0..BatchSize], NEW p \in Processes,
           g = [f EXCEPT ![p] = f[p] + 1], IsFiniteSet(Area(f))
    PROVE  IsFiniteSet(Area(g)) /\ Cardinality(Area(g)) = Cardinality(Area(f)) + 1
  <1> DEFINE n == f[p] + 1
  <1>1. n \in 1..BatchSize /\ g[p] = n /\ \A x \in Processes : x # p => g[x] = f[x]
    <2>1. f[p] \in 0..BatchSize /\ g[p] \in 0..BatchSize /\ g[p] = n
      OBVIOUS
    <2> QED
      BY <2>1, Constants
  <1>2. f[p] \in Nat /\ f[p] < n /\ \A k \in 1..BatchSize : k <= n <=> (k <= f[p] \/ k = n)
    BY <1>1, Constants
  <1>3. <<p, n>> \notin Area(f)
    BY <1>2 DEF Area
  <1> HIDE DEF n
  <1>4. \A x \in Processes : \A k \in 1..BatchSize :
            <<x, k>> \in Area(g) <=> <<x, k>> \in Area(f) \/ <<x, k>> = <<p, n>>
    <2> SUFFICES ASSUME NEW x \in Processes, NEW k \in 1..BatchSize
                 PROVE  k <= g[x] <=> k <= f[x] \/ (x = p /\ k = n)
      BY DEF Area
    <2> QED
      BY <1>1, <1>2
  <1>5. Area(g) = Area(f) \cup {<<p, n>>}
    <2>1. ASSUME NEW u \in Area(g) \cup Area(f) \cup {<<p, n>>}
          PROVE  u \in Area(g) <=> u \in Area(f) \/ u = <<p, n>>
      <3>1. PICK x \in Processes, k \in 1..BatchSize : u = <<x, k>>
        BY <1>1, <2>1 DEF Area
      <3> QED
        BY <1>4, <3>1, Zenon
    <2> QED
      BY <2>1
  <1>6. <<p, n>> \notin Area(f) /\ IsFiniteSet(Area(f))
    BY <1>3
  <1> DEFINE e == <<p, n>>
  <1> HIDE DEF e
  <1>7. e \notin Area(f) /\ Area(g) = Area(f) \cup {e}
    BY <1>5, <1>6 DEF e
  <1>8. IsFiniteSet(Area(f) \cup {e}) /\ Cardinality(Area(f) \cup {e}) = Cardinality(Area(f)) + 1
    BY <1>6, <1>7, FS_AddElement
  <1> QED
    BY <1>7, <1>8

\* The pairs of a rest that starts again.
LEMMA AreaFalls ==
    ASSUME NEW f \in [Processes -> 0..BatchSize], NEW g \in [Processes -> 0..BatchSize], NEW p \in Processes,
           g = [f EXCEPT ![p] = 0], IsFiniteSet(Area(f))
    PROVE  IsFiniteSet(Area(g)) /\ Cardinality(Area(g)) = Cardinality(Area(f)) - f[p]
  <1> DEFINE n == f[p]
             C == {p} \X (1..n)
  <1>1. n \in Nat /\ n <= BatchSize /\ g[p] = 0 /\ \A x \in Processes : x # p => g[x] = f[x]
    <2>1. n \in 0..BatchSize
      OBVIOUS
    <2> QED
      BY <2>1, Constants
  <1>2. IsFiniteSet(C) /\ Cardinality(C) = n
    <2>1. IsFiniteSet({p}) /\ Cardinality({p}) = 1
      BY FS_Singleton
    <2>2. IsFiniteSet(1..n) /\ Cardinality(1..n) = n
      <3>1. IsFiniteSet(1..n) /\ Cardinality(1..n) = (IF 1 > n THEN 0 ELSE n - 1 + 1)
        BY <1>1, FS_Interval
      <3> QED
        BY <1>1, <3>1
    <2>3. IsFiniteSet(C) /\ Cardinality(C) = 1 * Cardinality(1..n)
      BY <2>1, <2>2, FS_Product
    <2> QED
      BY <1>1, <2>2, <2>3
  <1>3. Area(f) \cap C = C
    <2>1. C \subseteq Area(f)
      BY <1>1, Constants DEF Area
    <2> QED
      BY <2>1
  <1>4. Area(g) = Area(f) \ C
    <2>1. \A x \in Processes : \A k \in 1..BatchSize :
              <<x, k>> \in Area(g) <=> <<x, k>> \in Area(f) /\ <<x, k>> \notin C
      <3> SUFFICES ASSUME NEW x \in Processes, NEW k \in 1..BatchSize
                   PROVE  k <= g[x] <=> k <= f[x] /\ ~(x = p /\ k \in 1..n)
        BY DEF Area
      <3>1. CASE x = p
        BY <1>1, <3>1, Constants
      <3>2. CASE x # p
        BY <1>1, <3>2
      <3> QED
        BY <3>1, <3>2
    <2>2. ASSUME NEW u \in Area(g) \cup Area(f)
          PROVE  u \in Area(g) <=> u \in Area(f) /\ u \notin C
      <3>1. PICK x \in Processes, k \in 1..BatchSize : u = <<x, k>>
        BY <2>2 DEF Area
      <3> QED
        BY <2>1, <3>1, Zenon
    <2> QED
      BY <2>2
  <1> HIDE DEF C, n
  <1>5. /\ IsFiniteSet(Area(f) \ C)
        /\ Cardinality(Area(f) \ C) = Cardinality(Area(f)) - Cardinality(Area(f) \cap C)
    BY FS_Difference
  <1> QED
    BY <1>2, <1>3, <1>4, <1>5 DEF n

\* The parts of a balance.
LEMMA BalanceFields ==
    ASSUME NEW n, NEW P, NEW f, NEW h
    PROVE  Balance(n, P, f, h) \in Balances <=>
               /\ n \in Nat /\ P \in SUBSET Requests /\ f \in [Processes -> 0..BatchSize] /\ h \in Nat
               /\ IsFiniteSet(P) /\ IsFiniteSet(Area(f))
               /\ n + BatchSize * Cardinality(P) + Cardinality(Area(f)) <= h
  BY DEF Balance, Balances

\* A request is counted by its process.
LEMMA BalanceRest ==
    ASSUME NEW n, NEW P, NEW f, NEW h, Balance(n, P, f, h) \in Balances, NEW p \in Processes,
           NEW g \in [Processes -> 0..BatchSize], g = [f EXCEPT ![p] = f[p] + 1]
    PROVE  Balance(n, P, g, h + 1) \in Balances
  <1>1. /\ n \in Nat /\ P \in SUBSET Requests /\ f \in [Processes -> 0..BatchSize] /\ h \in Nat
        /\ IsFiniteSet(P) /\ IsFiniteSet(Area(f))
        /\ n + BatchSize * Cardinality(P) + Cardinality(Area(f)) <= h
    BY BalanceFields
  <1>2. IsFiniteSet(Area(g)) /\ Cardinality(Area(g)) = Cardinality(Area(f)) + 1
    BY <1>1, AreaGrows
  <1> DEFINE b == BatchSize * Cardinality(P)
             c == Cardinality(Area(f))
  <1>3. b \in Nat /\ c \in Nat
    <2>1. Cardinality(P) \in Nat /\ c \in Nat
      BY <1>1, FS_CardinalityType
    <2> QED
      BY <2>1, Constants
  <1>4. n + b + c <= h
    BY <1>1
  <1> HIDE DEF b, c
  <1>5. n + b + (c + 1) <= h + 1
    BY <1>1, <1>3, <1>4
  <1>6. n + BatchSize * Cardinality(P) + Cardinality(Area(g)) <= h + 1
    BY <1>2, <1>5 DEF b, c
  <1>7. h + 1 \in Nat
    BY <1>1
  <1> QED
    BY <1>1, <1>2, <1>6, <1>7, BalanceFields, Zenon

\* A request makes a batch full, and will add it.
LEMMA BalanceBatch ==
    ASSUME NEW n, NEW P, NEW f, NEW h, Balance(n, P, f, h) \in Balances, NEW p \in Processes,
           f[p] = BatchSize - 1, NEW g \in [Processes -> 0..BatchSize], g = [f EXCEPT ![p] = 0],
           NEW r \in Requests, r \notin P
    PROVE  Balance(n, P \cup {r}, g, h + 1) \in Balances
  <1>1. /\ n \in Nat /\ P \in SUBSET Requests /\ f \in [Processes -> 0..BatchSize] /\ h \in Nat
        /\ IsFiniteSet(P) /\ IsFiniteSet(Area(f))
        /\ n + BatchSize * Cardinality(P) + Cardinality(Area(f)) <= h
    BY BalanceFields
  <1>2. IsFiniteSet(Area(g)) /\ Cardinality(Area(g)) = Cardinality(Area(f)) - (BatchSize - 1)
    <2>1. IsFiniteSet(Area(g)) /\ Cardinality(Area(g)) = Cardinality(Area(f)) - f[p]
      BY <1>1, AreaFalls
    <2> QED
      BY <2>1, Zenon
  <1>3. IsFiniteSet(P \cup {r}) /\ Cardinality(P \cup {r}) = Cardinality(P) + 1
    BY <1>1, FS_AddElement
  <1> DEFINE d == Cardinality(P)
             b == BatchSize * d
             c == Cardinality(Area(f))
  <1>4. d \in Nat /\ c \in Nat
    BY <1>1, FS_CardinalityType
  <1>5. b \in Nat /\ BatchSize * (d + 1) = b + BatchSize
    <2> HIDE DEF d
    <2>1. \A x, y \in Nat : x * y \in Nat /\ x * (y + 1) = x * y + x
      OBVIOUS
    <2> QED
      BY <1>4, <2>1, Constants
  <1>6. n + b + c <= h
    BY <1>1
  <1> HIDE DEF b, c
  <1>7. n + (b + BatchSize) + (c - (BatchSize - 1)) <= h + 1
    BY <1>1, <1>4, <1>5, <1>6, Constants
  <1>8. n + BatchSize * Cardinality(P \cup {r}) + Cardinality(Area(g)) <= h + 1
    BY <1>2, <1>3, <1>5, <1>7 DEF c
  <1> QED
    <2>1. h + 1 \in Nat /\ P \cup {r} \in SUBSET Requests
      BY <1>1
    <2> QED
      BY <1>1, <1>2, <1>3, <1>8, <2>1, BalanceFields, Zenon

\* A request adds what its process has counted.
LEMMA BalanceAdd ==
    ASSUME NEW n, NEW P, NEW f, NEW h, Balance(n, P, f, h) \in Balances, NEW r \in P,
           NEW k \in 0..BatchSize
    PROVE  Balance(n + k, P \ {r}, f, h) \in Balances
  <1>1. /\ n \in Nat /\ P \in SUBSET Requests /\ f \in [Processes -> 0..BatchSize] /\ h \in Nat
        /\ IsFiniteSet(P) /\ IsFiniteSet(Area(f))
        /\ n + BatchSize * Cardinality(P) + Cardinality(Area(f)) <= h
    BY BalanceFields
  <1>2. IsFiniteSet(P \ {r}) /\ Cardinality(P \ {r}) = Cardinality(P) - 1
    BY <1>1, FS_RemoveElement
  <1> DEFINE d == Cardinality(P \ {r})
             b == BatchSize * d
             c == Cardinality(Area(f))
  <1>3. d \in Nat /\ c \in Nat /\ Cardinality(P) = d + 1
    <2>1. d \in Nat /\ c \in Nat /\ Cardinality(P) \in Nat
      BY <1>1, <1>2, FS_CardinalityType
    <2> QED
      BY <1>2, <2>1
  <1>4. b \in Nat /\ BatchSize * (d + 1) = b + BatchSize
    <2> HIDE DEF d
    <2>1. \A x, y \in Nat : x * y \in Nat /\ x * (y + 1) = x * y + x
      OBVIOUS
    <2> QED
      BY <1>3, <2>1, Constants
  <1>5. n + (b + BatchSize) + c <= h
    BY <1>1, <1>3, <1>4
  <1> HIDE DEF b, c, d
  <1>6. n + k \in Nat /\ (n + k) + b + c <= h
    BY <1>1, <1>3, <1>4, <1>5, Constants
  <1>7. (n + k) + BatchSize * Cardinality(P \ {r}) + Cardinality(Area(f)) <= h
    BY <1>6 DEF b, c, d
  <1> QED
    BY <1>1, <1>2, <1>6, <1>7, BalanceFields

\* Requests that fail, and processes that crash, take what they would have added with them.
LEMMA BalanceLess ==
    ASSUME NEW n, NEW P, NEW f, NEW h, Balance(n, P, f, h) \in Balances, NEW Q \in SUBSET P,
           NEW g \in [Processes -> 0..BatchSize], \A p \in Processes : g[p] <= f[p]
    PROVE  Balance(n, Q, g, h) \in Balances
  <1>1. /\ n \in Nat /\ P \in SUBSET Requests /\ f \in [Processes -> 0..BatchSize] /\ h \in Nat
        /\ IsFiniteSet(P) /\ IsFiniteSet(Area(f))
        /\ n + BatchSize * Cardinality(P) + Cardinality(Area(f)) <= h
    BY BalanceFields
  <1>2. Area(g) \subseteq Area(f)
    <2> SUFFICES ASSUME NEW x \in Processes, NEW k \in 1..BatchSize, k <= g[x]
                 PROVE  k <= f[x]
      BY DEF Area
    <2>1. g[x] \in 0..BatchSize /\ f[x] \in 0..BatchSize
      BY <1>1
    <2> QED
      BY <2>1, Constants
  <1>3. /\ IsFiniteSet(Q) /\ Cardinality(Q) <= Cardinality(P)
        /\ IsFiniteSet(Area(g)) /\ Cardinality(Area(g)) <= Cardinality(Area(f))
    BY <1>1, <1>2, FS_Subset
  <1>4. /\ Cardinality(P) \in Nat /\ Cardinality(Q) \in Nat
        /\ Cardinality(Area(f)) \in Nat /\ Cardinality(Area(g)) \in Nat
    BY <1>1, <1>3, FS_CardinalityType
  <1> DEFINE b == BatchSize * Cardinality(P)
             c == BatchSize * Cardinality(Q)
  <1>5. b \in Nat /\ c \in Nat /\ c <= b
    <2>1. \A x, y, z \in Nat : x * y \in Nat /\ (z <= y => x * z <= x * y)
      OBVIOUS
    <2> QED
      BY <1>3, <1>4, <2>1, Constants
  <1>6. n + b + Cardinality(Area(f)) <= h
    BY <1>1
  <1> HIDE DEF b, c
  <1>7. n + c + Cardinality(Area(g)) <= h
    BY <1>1, <1>3, <1>4, <1>5, <1>6
  <1>8. n + BatchSize * Cardinality(Q) + Cardinality(Area(g)) <= h
    BY <1>7 DEF c
  <1> QED
    BY <1>1, <1>3, <1>8, BalanceFields

\* A minute begins with nothing.
LEMMA BalanceZero ==
    ASSUME NEW f \in [Processes -> 0..BatchSize], \A p \in Processes : f[p] = 0
    PROVE  Balance(0, {}, f, 0) \in Balances
  <1>1. Area(f) = {}
    BY DEF Area
  <1>2. IsFiniteSet({}) /\ Cardinality({}) = 0
    BY FS_EmptySet
  <1>3. 0 + BatchSize * 0 + 0 <= 0
    BY Constants
  <1>4. 0 + BatchSize * Cardinality({}) + Cardinality(Area(f)) <= 0
    BY <1>1, <1>2, <1>3
  <1>5. 0 \in Nat /\ {} \in SUBSET Requests /\ IsFiniteSet({}) /\ IsFiniteSet(Area(f))
    BY <1>1, <1>2
  <1> QED
    BY <1>4, <1>5, BalanceFields, Zenon

\* What is counted was made.
LEMMA BalanceBound ==
    ASSUME NEW n, NEW P, NEW f, NEW h, Balance(n, P, f, h) \in Balances
    PROVE  n \in Nat /\ h \in Nat /\ n <= h
  <1>1. /\ n \in Nat /\ h \in Nat /\ IsFiniteSet(P) /\ IsFiniteSet(Area(f))
        /\ n + BatchSize * Cardinality(P) + Cardinality(Area(f)) <= h
    BY BalanceFields
  <1>2. Cardinality(P) \in Nat /\ Cardinality(Area(f)) \in Nat
    BY <1>1, FS_CardinalityType
  <1>3. BatchSize * Cardinality(P) \in Nat
    <2>1. \A x, y \in Nat : x * y \in Nat
      OBVIOUS
    <2> QED
      BY <1>2, <2>1, Constants
  <1> DEFINE b == BatchSize * Cardinality(P)
  <1> HIDE DEF b
  <1>4. n + b + Cardinality(Area(f)) <= h /\ b \in Nat
    BY <1>1, <1>3 DEF b
  <1> QED
    BY <1>1, <1>2, <1>4

--------------------------------------------------------------------------------
(* Requests.                                                               *)

\* Tables of two levels.
LEMMA Except2 ==
    ASSUME NEW A, NEW B, NEW C, NEW F \in [A -> [B -> C]], NEW a \in A, NEW b \in B, NEW c \in C,
           NEW G, G = [F EXCEPT ![a][b] = c]
    PROVE  /\ G \in [A -> [B -> C]] /\ G[a][b] = c
           /\ \A x \in A : \A y \in B : x # a \/ y # b => G[x][y] = F[x][y]
  <1> DEFINE H == [F[a] EXCEPT ![b] = c]
  <1>1. H \in [B -> C] /\ H[b] = c /\ \A y \in B : y # b => H[y] = F[a][y]
    OBVIOUS
  <1>2. G = [F EXCEPT ![a] = H]
    OBVIOUS
  <1> HIDE DEF H
  <1>3. G \in [A -> [B -> C]] /\ G[a] = H /\ \A x \in A : x # a => G[x] = F[x]
    BY <1>1, <1>2
  <1> QED
    BY <1>1, <1>3

\* The table of counters has three.
LEMMA Except3 ==
    ASSUME NEW A, NEW B, NEW C, NEW D, NEW F \in [A -> [B -> [C -> D]]],
           NEW a \in A, NEW b \in B, NEW c \in C, NEW d \in D, NEW G, G = [F EXCEPT ![a][b][c] = d]
    PROVE  /\ G \in [A -> [B -> [C -> D]]] /\ G[a][b][c] = d
           /\ \A x \in A : \A y \in B : \A z \in C : x # a \/ y # b \/ z # c => G[x][y][z] = F[x][y][z]
  <1> DEFINE H == [F[a] EXCEPT ![b][c] = d]
  <1>1. F[a] \in [B -> [C -> D]]
    OBVIOUS
  <1>2. /\ H \in [B -> [C -> D]] /\ H[b][c] = d
        /\ \A y \in B : \A z \in C : y # b \/ z # c => H[y][z] = F[a][y][z]
    <2> DEFINE K == F[a]
    <2>1. K \in [B -> [C -> D]] /\ H = [K EXCEPT ![b][c] = d]
      BY <1>1
    <2> HIDE DEF K, H
    <2>2. /\ H \in [B -> [C -> D]] /\ H[b][c] = d
          /\ \A y \in B : \A z \in C : y # b \/ z # c => H[y][z] = K[y][z]
      BY <2>1, Except2
    <2> QED
      BY <2>2 DEF K
  <1>3. G = [F EXCEPT ![a] = H]
    OBVIOUS
  <1> HIDE DEF H
  <1>4. G \in [A -> [B -> [C -> D]]] /\ G[a] = H /\ \A x \in A : x # a => G[x] = F[x]
    BY <1>2, <1>3
  <1> QED
    BY <1>2, <1>4

\* The record of no request.
LEMMA NoRequestFacts ==
    /\ NoRequest \in RequestRecords /\ NoRequest.pc = "idle" /\ NoRequest.minute = 0 /\ ~NoRequest.first
    /\ NoRequest.wait = 0
  BY Constants DEF NoRequest, RequestRecords, RequestPCs, ReqProcesses, ReqQueries

\* The fields of a request.
LEMMA RequestFields ==
    ASSUME TypeInv, NEW r \in Requests
    PROVE  /\ req[r] \in RequestRecords /\ req[r].pc \in RequestPCs /\ req[r].minute \in {0, 1}
           /\ req[r].wait \in 0..MaxLatency /\ req[r].first \in BOOLEAN
  <1>1. req[r] \in RequestRecords
    BY DEF TypeInv
  <1>2. 0..1 = {0, 1}
    OBVIOUS
  <1> QED
    BY <1>1, <1>2 DEF RequestRecords

\* A request that is in progress moves on, or is done.
LEMMA RequestMoves ==
    ASSUME TypeInv, RequestsInv, NEW r \in Requests, NEW pc \in RequestPCs,
           req[r].pc # "idle", pc \in {"create", "ttl"} => req[r].first,
           req' = [req EXCEPT ![r] = Moved(req[r], pc)], phase' = phase
    PROVE  /\ req' \in [Requests -> RequestRecords] /\ RequestsInv'
           /\ req'[r].pc = pc
           /\ pc # "idle" => /\ req'[r].p = req[r].p /\ req'[r].q = req[r].q
                             /\ req'[r].minute = req[r].minute /\ req'[r].first = req[r].first
           /\ \A x \in Requests : x # r => req'[x] = req[x]
  <1> DEFINE new == Moved(req[r], pc)
  <1>1. req[r] \in RequestRecords
    BY RequestFields
  <1>2. /\ new \in RequestRecords /\ new.pc = pc
        /\ pc = "idle" => new.minute = 0
        /\ pc # "idle" => /\ new.p = req[r].p /\ new.q = req[r].q /\ new.minute = req[r].minute
                          /\ new.first = req[r].first /\ new.wait = req[r].wait
    <2>1. CASE pc = "idle"
      BY <2>1, NoRequestFacts DEF Moved
    <2>2. CASE pc # "idle"
      <3>1. new = [req[r] EXCEPT !.pc = pc]
        BY <2>2 DEF Moved
      <3> QED
        BY <1>1, <2>2, <3>1 DEF RequestRecords
    <2> QED
      BY <2>1, <2>2
  <1>3. req \in [Requests -> RequestRecords] /\ req' = [req EXCEPT ![r] = new]
    BY DEF TypeInv
  <1> HIDE DEF new
  <1>4. /\ req' \in [Requests -> RequestRecords] /\ req'[r] = new
        /\ \A x \in Requests : x # r => req'[x] = req[x]
    BY <1>2, <1>3
  <1>5. RequestsInv'
    <2> SUFFICES ASSUME NEW x \in Requests
                 PROVE  /\ req'[x].pc # "idle" => req'[x].p \in Processes /\ req'[x].q \in Queries
                        /\ req'[x].pc = "idle" => req'[x].minute = 0
                        /\ req'[x].pc \in {"create", "ttl"} => req'[x].first
                        /\ req'[x].minute = 1 => req'[x].wait > phase'
      BY DEF RequestsInv
    <2>1. CASE x = r
      BY <1>2, <1>4, <2>1 DEF RequestsInv
    <2>2. CASE x # r
      BY <1>4, <2>2 DEF RequestsInv
    <2> QED
      BY <2>1, <2>2
  <1> QED
    BY <1>2, <1>4, <1>5

\* Who has to add a batch.
LEMMA PcSets ==
    /\ "idle" \notin ToScore /\ "metric" \notin ToScore /\ "create" \notin ToScore /\ "ttl" \notin ToScore
    /\ "idle" \notin ToMetric /\ "create" \notin ToMetric /\ "ttl" \notin ToMetric
    /\ {"body", "increment"} \subseteq ToScore /\ ToScore \cup {"metric"} \subseteq ToMetric
  BY DEF ToScore, ToMetric

\* What is pending after a request has moved.
LEMMA PendingMoves ==
    ASSUME NEW r \in Requests, NEW pc, req'[r].pc = pc,
           pc # "idle" => req'[r].q = req[r].q /\ req'[r].minute = req[r].minute,
           \A x \in Requests : x # r => req'[x] = req[x],
           NEW pcs, "idle" \notin pcs, NEW a, NEW q
    PROVE  /\ (pc \in pcs <=> req[r].pc \in pcs) => Pending(pcs, a, q)' = Pending(pcs, a, q)
           /\ pc \notin pcs => Pending(pcs, a, q)' = Pending(pcs, a, q) \ {r}
           /\ ~(req[r].minute = a /\ req[r].q = q) => Pending(pcs, a, q)' = Pending(pcs, a, q)
  BY DEF Pending

\* What is counted after a step, entry by entry.
LEMMA CountsNext ==
    ASSUME \A a \in Ages : \A q \in Queries :
             /\ Balance(score'[a][q], Pending(ToScore, a, q)', Rests(a, q)', hits'[a][q]) \in Balances
             /\ Balance(metric'[a][q], Pending(ToMetric, a, q)', Rests(a, q)', hits'[a][q]) \in Balances
    PROVE  CountsInv'
  <1> SUFFICES ASSUME NEW a \in Ages, NEW q \in Queries
               PROVE  ScoreBalance(a, q)' \in Balances /\ MetricBalance(a, q)' \in Balances
    BY DEF CountsInv
  <1>1. ScoreBalance(a, q)' = Balance(score'[a][q], Pending(ToScore, a, q)', Rests(a, q)', hits'[a][q])
    BY DEF ScoreBalance, Balance
  <1>2. MetricBalance(a, q)' = Balance(metric'[a][q], Pending(ToMetric, a, q)', Rests(a, q)', hits'[a][q])
    BY DEF MetricBalance, Balance
  <1> QED
    BY <1>1, <1>2

\* Before the step.
LEMMA CountsNow ==
    ASSUME CountsInv, NEW a \in Ages, NEW q \in Queries
    PROVE  /\ Balance(score[a][q], Pending(ToScore, a, q), Rests(a, q), hits[a][q]) \in Balances
           /\ Balance(metric[a][q], Pending(ToMetric, a, q), Rests(a, q), hits[a][q]) \in Balances
  BY DEF CountsInv, ScoreBalance, MetricBalance

\* A set keeps an owner, or its time to live, when a request moves on.
LEMMA ExpiryMoves ==
    ASSUME ExpiryInv, NEW r \in Requests, NEW pc, req[r].pc # "idle", req'[r].pc = pc,
           pc # "idle" => req'[r].minute = req[r].minute /\ req'[r].first = req[r].first,
           \A x \in Requests : x # r => req'[x] = req[x],
           UNCHANGED <<started, failures>>, expires'[2] = expires[2],
           \A a \in Ages : /\ expires[a] = "later" => expires'[a] = "later"
                           /\ expires'[a] = "never" => expires[a] = "never" \/ a = req[r].minute,
           req[r].first => pc # "idle" \/ expires'[req[r].minute] = "later"
    PROVE  ExpiryInv'
  <1> SUFFICES ASSUME failures = 0
               PROVE  /\ expires'[2] # "never"
                      /\ \A a \in Ages : Touched(a)' => expires'[a] = "later" \/ Owned(a)'
    BY DEF ExpiryInv
  <1>1. expires'[2] # "never"
    BY DEF ExpiryInv
  <1>2. ASSUME NEW a \in Ages, Touched(a)', expires'[a] # "later"
        PROVE  Owned(a)'
    <2>1. Touched(a)
      BY <1>2 DEF Touched
    <2>2. PICK o \in Requests : req[o].pc # "idle" /\ req[o].first /\ req[o].minute = a
      BY <1>2, <2>1 DEF ExpiryInv, Owned
    <2>3. req'[o].pc # "idle" /\ req'[o].first /\ req'[o].minute = a
      BY <1>2, <2>2
    <2> QED
      BY <2>3 DEF Owned
  <1> QED
    BY <1>1, <1>2

\* The process counts are zero in a minute that begins.
LEMMA RestZero == Rest(0) = 0
  BY Constants DEF Rest

\* Rests are numbers below the size of a batch.
LEMMA RestsType ==
    ASSUME TypeInv, NEW a \in Ages, NEW q \in Queries
    PROVE  /\ Rests(a, q) \in [Processes -> 0..BatchSize]
           /\ \A p \in Processes : counter[p][a][q] \in 0..BatchSize /\ Rests(a, q)[p] = Rest(counter[p][a][q])
  <1>1. \A p \in Processes : counter[p][a][q] \in 0..BatchSize
    <2> SUFFICES ASSUME NEW p \in Processes PROVE counter[p][a][q] \in 0..BatchSize
      OBVIOUS
    <2>1. counter[p] \in [Ages -> [Queries -> 0..BatchSize]]
      BY DEF TypeInv
    <2>2. counter[p][a] \in [Queries -> 0..BatchSize]
      BY <2>1
    <2> QED
      BY <2>2
  <1>2. \A p \in Processes : Rest(counter[p][a][q]) \in 0..BatchSize
    BY <1>1, CountMoves
  <1> QED
    BY <1>1, <1>2 DEF Rests

\* Initially nobody has asked.
LEMMA GuestInitInv == ASSUME Init PROVE GuestInv
  <1>1. TypeInv
    <2>1. /\ phase = 0 /\ failures = 0 /\ 0 \in 0..(TicksPerMinute - 1) /\ 0 \in 0..MaxHits
          /\ 0 \in 0..BatchSize /\ 0 \in 0..MaxFailures
      BY Constants DEF Init
    <2>2. NoHits \in [Queries -> 0..MaxHits] /\ NoHits \in [Queries -> 0..BatchSize] /\ NoHits \in [Queries -> Nat]
      BY <2>1 DEF NoHits
    <2>3. /\ hits \in [Ages -> [Queries -> 0..MaxHits]] /\ metric \in [Ages -> [Queries -> Nat]]
          /\ score \in [SetAges -> [Queries -> Nat]] /\ Zero \in [Ages -> [Queries -> 0..BatchSize]]
      BY <2>2 DEF Init, Zero
    <2>4. counter \in [Processes -> [Ages -> [Queries -> 0..BatchSize]]]
      BY <2>3 DEF Init
    <2>5. NoJob \in JobRecords
      BY Constants DEF NoJob, JobRecords, JobPCs
    <2>6. response \in [Queries -> Responses]
      BY Constants DEF Init, NoResponse, Responses
    <2>7. req \in [Requests -> RequestRecords] /\ job \in [Warmers -> [Queries -> JobRecords]]
      BY <2>5, NoRequestFacts DEF Init
    <2> QED
      BY <2>1, <2>3, <2>4, <2>6, <2>7 DEF TypeInv, Init
  <1>2. RequestsInv
    BY NoRequestFacts DEF RequestsInv, Init
  <1>3. JobsInv
    BY DEF JobsInv, Init, NoJob
  <1>4. \A a \in Ages : \A q \in Queries :
            hits[a][q] = 0 /\ metric[a][q] = 0 /\ score[a][q] = 0 /\ \A p \in Processes : counter[p][a][q] = 0
    BY Constants DEF Init, Zero, NoHits
  <1>5. CountsInv
    <2> SUFFICES ASSUME NEW a \in Ages, NEW q \in Queries
                 PROVE  ScoreBalance(a, q) \in Balances /\ MetricBalance(a, q) \in Balances
      BY DEF CountsInv
    <2>1. Pending(ToScore, a, q) = {} /\ Pending(ToMetric, a, q) = {}
      BY NoRequestFacts DEF Pending, ToScore, ToMetric, Init
    <2>2. Rests(a, q) \in [Processes -> 0..BatchSize] /\ \A p \in Processes : Rests(a, q)[p] = 0
      BY <1>1, <1>4, RestsType, RestZero
    <2>3. Balance(0, {}, Rests(a, q), 0) \in Balances
      BY <2>2, BalanceZero
    <2> QED
      BY <1>4, <2>1, <2>3 DEF ScoreBalance, MetricBalance
  <1>6. HotInv
    <2>1. \A a \in SetAges : \A q \in Queries : score[a][q] = 0
      BY DEF Init, NoHits
    <2>2. \A w \in Warmers : \A q \in Queries : ~job[w][q].hot /\ job[w][q].pc = "idle"
      BY DEF Init, NoJob
    <2>3. \A q \in Queries : response[q].left = 0
      BY DEF Init, NoResponse
    <2> QED
      BY <1>4, <2>1, <2>2, <2>3, Constants DEF HotInv
  <1>7. ExpiryInv
    BY Constants, NoRequestFacts DEF ExpiryInv, Touched, Init
  <1> QED
    BY <1>1, <1>2, <1>3, <1>5, <1>6, <1>7 DEF GuestInv

\* A full batch is stored, added and counted; the first request of the minute gives the set its life.
LEMMA StoreBodyStep == ASSUME GuestInv, NEW r \in Requests, StoreBody(r) PROVE GuestInv'
  <1> USE DEF GuestInv
  <1>1. /\ req[r].pc = "body" /\ body' = [body EXCEPT ![req[r].q] = TRUE]
        /\ req' = [req EXCEPT ![r] = Moved(req[r], "increment")]
        /\ UNCHANGED <<phase, hits, counter, started, score, expires, metric, response, job, wasHot, failures>>
    BY DEF StoreBody, Step
  <1>2. /\ req' \in [Requests -> RequestRecords] /\ RequestsInv' /\ req'[r].pc = "increment"
        /\ req'[r].q = req[r].q /\ req'[r].minute = req[r].minute /\ req'[r].first = req[r].first
        /\ \A x \in Requests : x # r => req'[x] = req[x]
    BY <1>1, RequestMoves DEF RequestPCs
  <1>3. TypeInv'
    <2>1. body' \in [Queries -> BOOLEAN]
      BY <1>1 DEF TypeInv
    <2> QED
      BY <1>1, <1>2, <2>1 DEF TypeInv
  <1>4. CountsInv'
    <2>1. \A a \in Ages : \A q \in Queries :
              /\ Pending(ToScore, a, q)' = Pending(ToScore, a, q)
              /\ Pending(ToMetric, a, q)' = Pending(ToMetric, a, q)
              /\ Rests(a, q)' = Rests(a, q)
      BY <1>1, <1>2, PcSets, PendingMoves DEF Rests
    <2> QED
      BY <1>1, <2>1, CountsNow, CountsNext
  <1>5. JobsInv' /\ HotInv'
    BY <1>1 DEF JobsInv, HotInv
  <1>6. ExpiryInv'
    BY <1>1, <1>2, ExpiryMoves
  <1> QED
    BY <1>2, <1>3, <1>4, <1>5, <1>6

\* A batch is added to the sorted set: at most what the request stands for.
LEMMA IncrementStep == ASSUME GuestInv, NEW r \in Requests, Increment(r) PROVE GuestInv'
  <1> USE DEF GuestInv
  <1> DEFINE m == req[r].minute
             k == req[r].q
             n == counter[req[r].p][m][k]
  <1>1. /\ req[r].pc = "increment" /\ score' = [score EXCEPT ![m][k] = score[m][k] + n]
        /\ expires' = [expires EXCEPT ![m] = IF expires[m] = "missing" THEN "never" ELSE expires[m]]
        /\ req' = [req EXCEPT ![r] = Moved(req[r], "metric")]
        /\ UNCHANGED <<phase, hits, counter, started, metric, body, response, job, wasHot, failures>>
    BY DEF Increment, Step, Exists
  <1>2. /\ req' \in [Requests -> RequestRecords] /\ RequestsInv' /\ req'[r].pc = "metric"
        /\ req'[r].q = req[r].q /\ req'[r].minute = req[r].minute /\ req'[r].first = req[r].first
        /\ \A x \in Requests : x # r => req'[x] = req[x]
    BY <1>1, RequestMoves DEF RequestPCs
  <1>3. m \in Ages /\ m \in SetAges /\ k \in Queries /\ req[r].p \in Processes
    BY <1>1, RequestFields, Constants DEF RequestsInv
  <1>4. n \in 0..BatchSize
    BY <1>3, RestsType
  <1> HIDE DEF n, m, k
  <1>5. score \in [SetAges -> [Queries -> Nat]]
    BY DEF TypeInv
  <1>6. score[m][k] \in Nat /\ score[m][k] + n \in Nat
    <2>1. score[m] \in [Queries -> Nat]
      BY <1>3, <1>5
    <2>2. score[m][k] \in Nat
      BY <1>3, <2>1
    <2> QED
      BY <1>4, <2>2, Constants
  <1>7. /\ score' \in [SetAges -> [Queries -> Nat]] /\ score'[m][k] = score[m][k] + n
        /\ \A a \in SetAges : \A q \in Queries : a # m \/ q # k => score'[a][q] = score[a][q]
    BY <1>1, <1>3, <1>5, <1>6, Except2
  <1>8. /\ expires' \in [SetAges -> {"missing", "never", "later"}] /\ expires'[2] = expires[2]
        /\ \A a \in Ages : /\ expires[a] = "later" => expires'[a] = "later"
                           /\ expires'[a] = "never" => expires[a] = "never" \/ a = m
    BY <1>1, <1>3, Constants DEF TypeInv
  <1>9. TypeInv'
    BY <1>1, <1>2, <1>7, <1>8 DEF TypeInv
  <1>10. CountsInv'
    <2>1. ASSUME NEW a \in Ages, NEW q \in Queries
          PROVE  /\ Balance(score'[a][q], Pending(ToScore, a, q)', Rests(a, q)', hits'[a][q]) \in Balances
                 /\ Balance(metric'[a][q], Pending(ToMetric, a, q)', Rests(a, q)', hits'[a][q]) \in Balances
      <3>1. /\ Pending(ToMetric, a, q)' = Pending(ToMetric, a, q) /\ Rests(a, q)' = Rests(a, q)
            /\ metric'[a][q] = metric[a][q] /\ hits'[a][q] = hits[a][q] /\ a \in SetAges
        BY <1>1, <1>2, PcSets, PendingMoves, Constants DEF Rests
      <3>2. /\ Balance(score[a][q], Pending(ToScore, a, q), Rests(a, q), hits[a][q]) \in Balances
            /\ Balance(metric[a][q], Pending(ToMetric, a, q), Rests(a, q), hits[a][q]) \in Balances
        BY CountsNow
      <3>3. CASE a = m /\ q = k
        <4>1. r \in Pending(ToScore, a, q)
          BY <1>1, <3>3 DEF Pending, ToScore, m, k
        <4>2. Balance(score[a][q] + n, Pending(ToScore, a, q) \ {r}, Rests(a, q), hits[a][q]) \in Balances
          BY <1>4, <3>2, <4>1, BalanceAdd
        <4>3. Pending(ToScore, a, q)' = Pending(ToScore, a, q) \ {r}
          BY <1>2, PcSets, PendingMoves
        <4>4. score'[a][q] = score[a][q] + n
          BY <1>7, <3>3
        <4> QED
          BY <3>1, <3>2, <4>2, <4>3, <4>4
      <3>4. CASE ~(a = m /\ q = k)
        <4>1. Pending(ToScore, a, q)' = Pending(ToScore, a, q)
          BY <1>2, <3>4, PcSets, PendingMoves DEF m, k
        <4>2. score'[a][q] = score[a][q]
          BY <1>7, <3>1, <3>4
        <4> QED
          BY <3>1, <3>2, <4>1, <4>2
      <3> QED
        BY <3>3, <3>4
    <2> QED
      BY <2>1, CountsNext
  <1>11. JobsInv'
    BY <1>1 DEF JobsInv
  <1>12. HotInv'
    <2>1. ASSUME NEW a \in SetAges, NEW q \in Queries, score'[a][q] >= Threshold PROVE wasHot[q]
      <3>1. CASE a = m /\ q = k
        <4>1. a \in Ages /\ Balance(score'[a][q], Pending(ToScore, a, q)', Rests(a, q)', hits'[a][q]) \in Balances
          <5>1. a \in Ages
            BY <1>3, <3>1
          <5>2. ScoreBalance(a, q)' \in Balances
            BY <1>10, <5>1 DEF CountsInv
          <5> QED
            BY <5>1, <5>2 DEF ScoreBalance, Balance
        <4>2. score'[a][q] <= hits[a][q] /\ score'[a][q] \in Nat /\ hits[a][q] \in Nat
          BY <1>1, <4>1, BalanceBound
        <4>3. hits[a][q] >= Threshold
          BY <2>1, <4>2, Constants
        <4> QED
          BY <4>1, <4>3 DEF HotInv
      <3>2. CASE ~(a = m /\ q = k)
        BY <1>7, <2>1, <3>2 DEF HotInv
      <3> QED
        BY <3>1, <3>2
    <2> QED
      BY <1>1, <2>1 DEF HotInv
  <1>13. ExpiryInv'
    BY <1>1, <1>2, <1>8, ExpiryMoves DEF m
  <1> QED
    BY <1>2, <1>9, <1>10, <1>11, <1>12, <1>13

\* The batch is counted in the metric.
LEMMA CountQueriesStep == ASSUME GuestInv, NEW r \in Requests, CountQueries(r) PROVE GuestInv'
  <1> USE DEF GuestInv
  <1> DEFINE m == req[r].minute
             k == req[r].q
             n == counter[req[r].p][m][k]
             pc == IF req[r].first THEN "create" ELSE "idle"
  <1>1. /\ req[r].pc = "metric" /\ metric' = [metric EXCEPT ![m][k] = metric[m][k] + n]
        /\ req' = [req EXCEPT ![r] = Moved(req[r], pc)]
        /\ UNCHANGED <<phase, hits, counter, started, score, expires, body, response, job, wasHot, failures>>
    BY DEF CountQueries, Step, AfterCount
  <1>2. m \in Ages /\ k \in Queries /\ req[r].p \in Processes
    BY <1>1, RequestFields, Constants DEF RequestsInv
  <1>3. n \in 0..BatchSize
    BY <1>2, RestsType
  <1>4. pc \in {"create", "idle"} /\ pc \in RequestPCs /\ (pc = "create" <=> req[r].first)
    BY RequestFields DEF RequestPCs
  <1> HIDE DEF n, m, k, pc
  <1>5. /\ req' \in [Requests -> RequestRecords] /\ RequestsInv' /\ req'[r].pc = pc
        /\ pc # "idle" => /\ req'[r].q = req[r].q
                          /\ req'[r].minute = req[r].minute /\ req'[r].first = req[r].first
        /\ \A x \in Requests : x # r => req'[x] = req[x]
    BY <1>1, <1>4, RequestMoves
  <1>6. metric \in [Ages -> [Queries -> Nat]]
    BY DEF TypeInv
  <1>7. metric[m][k] + n \in Nat
    <2>1. metric[m] \in [Queries -> Nat]
      BY <1>2, <1>6
    <2>2. metric[m][k] \in Nat
      BY <1>2, <2>1
    <2> QED
      BY <1>3, <2>2, Constants
  <1>8. /\ metric' \in [Ages -> [Queries -> Nat]] /\ metric'[m][k] = metric[m][k] + n
        /\ \A a \in Ages : \A q \in Queries : a # m \/ q # k => metric'[a][q] = metric[a][q]
    BY <1>1, <1>2, <1>6, <1>7, Except2
  <1>9. TypeInv'
    BY <1>1, <1>5, <1>8 DEF TypeInv
  <1>10. CountsInv'
    <2>1. ASSUME NEW a \in Ages, NEW q \in Queries
          PROVE  /\ Balance(score'[a][q], Pending(ToScore, a, q)', Rests(a, q)', hits'[a][q]) \in Balances
                 /\ Balance(metric'[a][q], Pending(ToMetric, a, q)', Rests(a, q)', hits'[a][q]) \in Balances
      <3>1. /\ Pending(ToScore, a, q)' = Pending(ToScore, a, q) /\ Rests(a, q)' = Rests(a, q)
            /\ score'[a][q] = score[a][q] /\ hits'[a][q] = hits[a][q]
        BY <1>1, <1>4, <1>5, PcSets, PendingMoves DEF Rests
      <3>2. /\ Balance(score[a][q], Pending(ToScore, a, q), Rests(a, q), hits[a][q]) \in Balances
            /\ Balance(metric[a][q], Pending(ToMetric, a, q), Rests(a, q), hits[a][q]) \in Balances
        BY CountsNow
      <3>3. CASE a = m /\ q = k
        <4>1. r \in Pending(ToMetric, a, q)
          BY <1>1, <3>3 DEF Pending, ToMetric, m, k
        <4>2. Balance(metric[a][q] + n, Pending(ToMetric, a, q) \ {r}, Rests(a, q), hits[a][q]) \in Balances
          BY <1>3, <3>2, <4>1, BalanceAdd
        <4>3. Pending(ToMetric, a, q)' = Pending(ToMetric, a, q) \ {r}
          BY <1>4, <1>5, PcSets, PendingMoves
        <4>4. metric'[a][q] = metric[a][q] + n
          BY <1>8, <3>3
        <4> QED
          BY <3>1, <3>2, <4>2, <4>3, <4>4
      <3>4. CASE ~(a = m /\ q = k)
        <4>1. Pending(ToMetric, a, q)' = Pending(ToMetric, a, q)
          BY <1>5, <3>4, PcSets, PendingMoves DEF m, k
        <4>2. metric'[a][q] = metric[a][q]
          BY <1>8, <3>4
        <4> QED
          BY <3>1, <3>2, <4>1, <4>2
      <3> QED
        BY <3>3, <3>4
    <2> QED
      BY <2>1, CountsNext
  <1>11. JobsInv' /\ HotInv'
    BY <1>1 DEF JobsInv, HotInv
  <1>12. ExpiryInv'
    BY <1>1, <1>4, <1>5, ExpiryMoves
  <1> QED
    BY <1>5, <1>9, <1>10, <1>11, <1>12

\* The set is created, and then gets its time to live.
LEMMA ExpirySteps == ASSUME GuestInv, NEW r \in Requests, CreateCounter(r) \/ SetTtl(r) PROVE GuestInv'
  <1> USE DEF GuestInv
  <1> DEFINE m == req[r].minute
             pc == IF req[r].pc = "create" THEN "ttl" ELSE "idle"
  <1>1. /\ req[r].pc \in {"create", "ttl"}
        /\ req' = [req EXCEPT ![r] = Moved(req[r], pc)]
        /\ UNCHANGED <<phase, hits, counter, started, score, metric, body, response, job, wasHot, failures>>
    BY DEF CreateCounter, SetTtl, Step
  <1>2. \/ pc = "ttl" /\ expires' = [expires EXCEPT ![m] = IF expires[m] = "missing" THEN "never" ELSE expires[m]]
        \/ pc = "idle" /\ expires' = [expires EXCEPT ![m] = "later"]
    BY DEF CreateCounter, SetTtl, Exists
  <1>3. req[r].first /\ m \in Ages /\ m \in SetAges /\ pc \in RequestPCs
    BY <1>1, RequestFields, Constants DEF RequestsInv, RequestPCs
  <1> HIDE DEF m, pc
  <1>4. /\ req' \in [Requests -> RequestRecords] /\ RequestsInv' /\ req'[r].pc = pc
        /\ pc # "idle" => /\ req'[r].q = req[r].q
                          /\ req'[r].minute = req[r].minute /\ req'[r].first = req[r].first
        /\ \A x \in Requests : x # r => req'[x] = req[x]
    BY <1>1, <1>3, RequestMoves
  <1>5. /\ expires' \in [SetAges -> {"missing", "never", "later"}] /\ expires'[2] = expires[2]
        /\ \A a \in Ages : /\ expires[a] = "later" => expires'[a] = "later"
                           /\ expires'[a] = "never" => expires[a] = "never" \/ a = m
        /\ pc # "idle" \/ expires'[m] = "later"
    BY <1>2, <1>3, Constants DEF TypeInv
  <1>6. TypeInv'
    BY <1>1, <1>4, <1>5 DEF TypeInv
  <1>7. CountsInv'
    <2>1. \A a \in Ages : \A q \in Queries :
              /\ Pending(ToScore, a, q)' = Pending(ToScore, a, q)
              /\ Pending(ToMetric, a, q)' = Pending(ToMetric, a, q)
              /\ Rests(a, q)' = Rests(a, q)
      BY <1>1, <1>2, <1>4, PcSets, PendingMoves DEF Rests
    <2> QED
      BY <1>1, <2>1, CountsNow, CountsNext
  <1>8. JobsInv' /\ HotInv'
    BY <1>1 DEF JobsInv, HotInv
  <1>9. ExpiryInv'
    BY <1>1, <1>4, <1>5, ExpiryMoves DEF m
  <1> QED
    BY <1>4, <1>6, <1>7, <1>8, <1>9

\* Requests that fail or whose process crashes are gone.
LEMMA GoneSteps ==
    ASSUME GuestInv, (\E r \in Requests : RequestFails(r)) \/ (\E p \in Processes : Crash(p))
    PROVE  GuestInv'
  <1> USE DEF GuestInv
  <1>1. /\ failures < MaxFailures /\ failures' = failures + 1
        /\ UNCHANGED <<phase, hits, score, expires, metric, body, response, job, wasHot>>
    BY DEF RequestFails, Crash
  <1>2. req' \in [Requests -> RequestRecords] /\ \A x \in Requests : req'[x] \in {req[x], NoRequest}
    <2>1. req \in [Requests -> RequestRecords]
      BY DEF TypeInv
    <2>2. CASE \E r \in Requests : RequestFails(r)
      BY <2>1, <2>2, NoRequestFacts DEF RequestFails
    <2>3. CASE \E p \in Processes : Crash(p)
      BY <2>1, <2>3, NoRequestFacts DEF Crash
    <2> QED
      BY <2>2, <2>3
  <1>3. /\ counter' \in [Processes -> [Ages -> [Queries -> 0..BatchSize]]]
        /\ started' \in [Processes -> BOOLEAN]
        /\ \A p \in Processes : counter'[p] \in {counter[p], Zero}
    <2>1. /\ counter \in [Processes -> [Ages -> [Queries -> 0..BatchSize]]]
          /\ started \in [Processes -> BOOLEAN]
      BY DEF TypeInv
    <2>2. Zero \in [Ages -> [Queries -> 0..BatchSize]]
      BY Constants DEF Zero, NoHits
    <2>3. CASE \E r \in Requests : RequestFails(r)
      BY <2>1, <2>3 DEF RequestFails
    <2>4. CASE \E p \in Processes : Crash(p)
      BY <2>1, <2>2, <2>4 DEF Crash
    <2> QED
      BY <2>3, <2>4
  <1>4. failures' \in 0..MaxFailures /\ failures' # 0
    BY <1>1, Constants DEF TypeInv
  <1>5. TypeInv'
    BY <1>1, <1>2, <1>3, <1>4 DEF TypeInv
  <1>6. RequestsInv'
    BY <1>1, <1>2, NoRequestFacts DEF RequestsInv
  <1>7. CountsInv'
    <2>1. ASSUME NEW a \in Ages, NEW q \in Queries
          PROVE  /\ Balance(score'[a][q], Pending(ToScore, a, q)', Rests(a, q)', hits'[a][q]) \in Balances
                 /\ Balance(metric'[a][q], Pending(ToMetric, a, q)', Rests(a, q)', hits'[a][q]) \in Balances
      <3>1. /\ Pending(ToScore, a, q)' \in SUBSET Pending(ToScore, a, q)
            /\ Pending(ToMetric, a, q)' \in SUBSET Pending(ToMetric, a, q)
        BY <1>2, NoRequestFacts DEF Pending, ToScore, ToMetric
      <3>2. /\ Rests(a, q) \in [Processes -> 0..BatchSize]
            /\ \A p \in Processes : counter[p][a][q] \in 0..BatchSize /\ Rests(a, q)[p] = Rest(counter[p][a][q])
        BY RestsType
      <3>3. Rests(a, q)' = [p \in Processes |-> Rest(counter'[p][a][q])]
        BY DEF Rests, Rest
      <3>4. \A p \in Processes : counter'[p][a][q] = counter[p][a][q] \/ counter'[p][a][q] = 0
        BY <1>3 DEF Zero, NoHits
      <3>5. \A p \in Processes : Rest(counter'[p][a][q]) \in {Rests(a, q)[p], 0}
        BY <3>2, <3>4, RestZero
      <3>6. 0 \in 0..BatchSize /\ \A p \in Processes : Rests(a, q)[p] \in 0..BatchSize
        <4>1. 0 \in 0..BatchSize
          BY Constants
        <4>2. \A p \in Processes : Rests(a, q)[p] \in 0..BatchSize
          BY <3>2, CountMoves, Zenon
        <4> QED
          BY <4>1, <4>2
      <3>7. Rests(a, q)' \in [Processes -> 0..BatchSize]
        BY <3>3, <3>5, <3>6
      <3>8. \A p \in Processes : Rests(a, q)'[p] <= Rests(a, q)[p]
        BY <3>3, <3>5, <3>6, Constants
      <3>9. score'[a][q] = score[a][q] /\ metric'[a][q] = metric[a][q] /\ hits'[a][q] = hits[a][q]
        BY <1>1
      <3> QED
        BY <3>1, <3>7, <3>8, <3>9, CountsNow, BalanceLess
    <2> QED
      BY <2>1, CountsNext
  <1>8. JobsInv' /\ HotInv'
    BY <1>1 DEF JobsInv, HotInv
  <1>9. ExpiryInv'
    BY <1>4 DEF ExpiryInv
  <1> QED
    BY <1>5, <1>6, <1>7, <1>8, <1>9

\* A stored query expires.
LEMMA BodyExpiresStep == ASSUME GuestInv, NEW q \in Queries, BodyExpires(q) PROVE GuestInv'
  <1> USE DEF GuestInv
  <1>1. /\ body' = [body EXCEPT ![q] = FALSE]
        /\ UNCHANGED <<phase, hits, counter, started, score, expires, metric, response, req,
                       job, wasHot, failures>>
    BY DEF BodyExpires
  <1>2. TypeInv'
    BY <1>1 DEF TypeInv
  <1>3. RequestsInv' /\ JobsInv' /\ HotInv'
    BY <1>1 DEF RequestsInv, JobsInv, HotInv
  <1>4. CountsInv'
    <2>1. \A a \in Ages : \A k \in Queries :
              /\ Pending(ToScore, a, k)' = Pending(ToScore, a, k)
              /\ Pending(ToMetric, a, k)' = Pending(ToMetric, a, k)
              /\ Rests(a, k)' = Rests(a, k)
      BY <1>1 DEF Rests, Pending
    <2> QED
      BY <1>1, <2>1, CountsNow, CountsNext
  <1>5. ExpiryInv'
    BY <1>1 DEF ExpiryInv, Touched, Owned
  <1> QED
    BY <1>2, <1>3, <1>4, <1>5

\* A guest asks: the request is counted once, in the rest of its process or with a full batch.
LEMMA ArriveStep ==
    ASSUME GuestInv, NEW r \in Requests, NEW p \in Processes, NEW q \in Queries, Arrive(r, p, q)
    PROVE  GuestInv'
  <1> USE DEF GuestInv
  <1> DEFINE n == Count(counter[p][0][q])
             h == hits[0][q]
             first == ~started[p]
             pc == IF n >= BatchSize THEN "body" ELSE IF first THEN "create" ELSE "idle"
             new == [NoRequest EXCEPT !.p = p, !.q = q, !.first = first]
  <1>1. /\ req[r].pc = "idle" /\ h < MaxHits
        /\ hits' = [hits EXCEPT ![0][q] = h + 1]
        /\ wasHot' = [wasHot EXCEPT ![q] = wasHot[q] \/ h + 1 >= Threshold]
        /\ started' = [started EXCEPT ![p] = TRUE]
        /\ counter' = [counter EXCEPT ![p][0][q] = n]
        /\ UNCHANGED <<phase, score, expires, metric, body, response, job, failures>>
    BY DEF Arrive
  <1>2. /\ new \in RequestRecords /\ new.p = p /\ new.q = q /\ new.minute = 0 /\ new.wait = 0
        /\ new.first = first
    <2>1. p \in ReqProcesses /\ q \in ReqQueries /\ first \in BOOLEAN
      BY DEF ReqProcesses, ReqQueries
    <2> HIDE DEF first
    <2> QED
      BY <2>1, NoRequestFacts DEF RequestRecords
  <1>3. req' = [req EXCEPT ![r] = Moved(new, pc)]
    <2> HIDE DEF n
    <2>1. req' = [req EXCEPT ![r] = Moved(new, IF n >= BatchSize THEN "body" ELSE AfterCount(p, new))]
      BY DEF Arrive, n
    <2> HIDE DEF new, first
    <2>2. AfterCount(p, new) = IF first THEN "create" ELSE "idle"
      BY <1>2 DEF AfterCount
    <2> QED
      BY <2>1, <2>2
  <1>4. 0 \in Ages /\ 0 \in SetAges
    BY Constants
  <1>5. counter[p][0][q] \in 0..BatchSize /\ n \in 0..BatchSize
    <2>1. counter[p][0][q] \in 0..BatchSize
      BY <1>4, RestsType
    <2> QED
      BY <2>1, CountMoves
  <1>6. h \in Nat /\ h + 1 \in 0..MaxHits
    <2>1. hits[0] \in [Queries -> 0..MaxHits]
      BY <1>4 DEF TypeInv
    <2>2. h \in 0..MaxHits
      BY <2>1
    <2> QED
      BY <1>1, <2>2, Constants
  <1>7. first \in BOOLEAN /\ (first <=> ~started[p])
    OBVIOUS
  <1>8. pc \in {"body", "create", "idle"} /\ (pc = "body" <=> n >= BatchSize) /\ (first => pc # "idle")
        /\ (pc = "create" => first)
    OBVIOUS
  <1>9. /\ Moved(new, pc) \in RequestRecords /\ Moved(new, pc).pc = pc /\ Moved(new, pc).minute = 0
        /\ pc # "idle" => /\ Moved(new, pc).p = p /\ Moved(new, pc).q = q
                          /\ Moved(new, pc).first = first
    <2>1. CASE pc = "idle"
      BY <2>1, NoRequestFacts DEF Moved
    <2>2. CASE pc # "idle"
      <3> HIDE DEF first, pc, new
      <3>1. Moved(new, pc) = [new EXCEPT !.pc = pc] /\ pc \in RequestPCs
        BY <1>8, <2>2 DEF Moved, RequestPCs
      <3> QED
        BY <1>2, <2>2, <3>1 DEF RequestRecords
    <2> QED
      BY <2>1, <2>2
  <1> DEFINE moved == Moved(new, pc)
  <1> HIDE DEF n, h, first, pc, new, moved
  <1>10. /\ req' = [req EXCEPT ![r] = moved] /\ moved \in RequestRecords /\ moved.pc = pc /\ moved.minute = 0
         /\ pc # "idle" => moved.p = p /\ moved.q = q /\ moved.first = first
    BY <1>3, <1>9 DEF moved
  <1>11. /\ req' \in [Requests -> RequestRecords] /\ req'[r] = moved
         /\ \A x \in Requests : x # r => req'[x] = req[x]
    BY <1>10 DEF TypeInv
  <1>12. /\ hits' \in [Ages -> [Queries -> 0..MaxHits]] /\ hits'[0][q] = h + 1
         /\ \A a \in Ages : \A k \in Queries : a # 0 \/ k # q => hits'[a][k] = hits[a][k]
    <2>1. hits \in [Ages -> [Queries -> 0..MaxHits]]
      BY DEF TypeInv
    <2> QED
      BY <1>1, <1>4, <1>6, <2>1, Except2
  <1>13. /\ counter' \in [Processes -> [Ages -> [Queries -> 0..BatchSize]]] /\ counter'[p][0][q] = n
         /\ \A x \in Processes : \A a \in Ages : \A k \in Queries :
               x # p \/ a # 0 \/ k # q => counter'[x][a][k] = counter[x][a][k]
    <2>1. counter \in [Processes -> [Ages -> [Queries -> 0..BatchSize]]]
      BY DEF TypeInv
    <2> QED
      BY <1>1, <1>4, <1>5, <2>1, Except3
  <1>14. /\ wasHot' \in [Queries -> BOOLEAN] /\ (wasHot'[q] <=> wasHot[q] \/ h + 1 >= Threshold)
         /\ \A k \in Queries : wasHot[k] => wasHot'[k]
    <2> DEFINE w == wasHot[q] \/ h + 1 >= Threshold
    <2>1. w \in BOOLEAN /\ wasHot \in [Queries -> BOOLEAN] /\ wasHot' = [wasHot EXCEPT ![q] = w]
      BY <1>1 DEF TypeInv
    <2>2. wasHot[q] => w
      OBVIOUS
    <2>3. w <=> wasHot[q] \/ h + 1 >= Threshold
      OBVIOUS
    <2> HIDE DEF w
    <2>4. wasHot' \in [Queries -> BOOLEAN] /\ wasHot'[q] = w /\ \A k \in Queries : k # q => wasHot'[k] = wasHot[k]
      BY <2>1
    <2>5. \A k \in Queries : wasHot[k] => wasHot'[k]
      BY <2>2, <2>4, Zenon
    <2> QED
      BY <2>3, <2>4, <2>5, Zenon
  <1>15. started' \in [Processes -> BOOLEAN]
    BY <1>1 DEF TypeInv
  <1>16. TypeInv'
    BY <1>1, <1>11, <1>12, <1>13, <1>14, <1>15 DEF TypeInv
  <1>17. RequestsInv'
    <2> SUFFICES ASSUME NEW x \in Requests
                 PROVE  /\ req'[x].pc # "idle" => req'[x].p \in Processes /\ req'[x].q \in Queries
                        /\ req'[x].pc = "idle" => req'[x].minute = 0
                        /\ req'[x].pc \in {"create", "ttl"} => req'[x].first
                        /\ req'[x].minute = 1 => req'[x].wait > phase'
      BY DEF RequestsInv
    <2>1. CASE x = r
      BY <1>8, <1>10, <1>11, <2>1
    <2>2. CASE x # r
      BY <1>1, <1>11, <2>2 DEF RequestsInv
    <2> QED
      BY <2>1, <2>2
  <1>18. CountsInv'
    <2>1. ASSUME NEW a \in Ages, NEW k \in Queries
          PROVE  /\ Balance(score'[a][k], Pending(ToScore, a, k)', Rests(a, k)', hits'[a][k]) \in Balances
                 /\ Balance(metric'[a][k], Pending(ToMetric, a, k)', Rests(a, k)', hits'[a][k]) \in Balances
      <3>1. score'[a][k] = score[a][k] /\ metric'[a][k] = metric[a][k]
        BY <1>1
      <3>2. /\ Balance(score[a][k], Pending(ToScore, a, k), Rests(a, k), hits[a][k]) \in Balances
            /\ Balance(metric[a][k], Pending(ToMetric, a, k), Rests(a, k), hits[a][k]) \in Balances
        BY CountsNow
      <3>3. /\ Rests(a, k) \in [Processes -> 0..BatchSize]
            /\ \A x \in Processes : Rests(a, k)[x] = Rest(counter[x][a][k])
        BY RestsType
      <3>4. Rests(a, k)' = [x \in Processes |-> Rest(counter'[x][a][k])]
        BY DEF Rests, Rest
      <3>5. r \notin Pending(ToScore, a, k) /\ r \notin Pending(ToMetric, a, k)
        BY <1>1, PcSets DEF Pending
      <3>6. CASE a = 0 /\ k = q /\ n >= BatchSize
        <4>1. Rest(n) = 0 /\ Rests(a, k)[p] = BatchSize - 1 /\ 0 \in 0..BatchSize
          BY <1>5, <3>3, <3>6, CountMoves, Constants DEF n
        <4>2. Rests(a, k)' = [Rests(a, k) EXCEPT ![p] = 0]
          <5>1. \A x \in Processes : Rest(counter'[x][a][k]) = IF x = p THEN 0 ELSE Rests(a, k)[x]
            BY <1>13, <3>3, <3>6, <4>1
          <5> QED
            BY <3>3, <3>4, <5>1
        <4>3. Rests(a, k)' \in [Processes -> 0..BatchSize]
          BY <3>3, <4>1, <4>2
        <4>4. /\ Pending(ToScore, a, k)' = Pending(ToScore, a, k) \cup {r}
              /\ Pending(ToMetric, a, k)' = Pending(ToMetric, a, k) \cup {r}
          <5>1. pc = "body" /\ req'[r].q = k /\ req'[r].minute = a /\ req'[r].pc = pc
            BY <1>8, <1>10, <1>11, <3>6
          <5> QED
            BY <1>11, <5>1, PcSets DEF Pending
        <4>5. hits'[a][k] = hits[a][k] + 1
          BY <1>12, <3>6 DEF h
        <4> QED
          <5> DEFINE f == Rests(a, k)
                     g == Rests(a, k)'
          <5>1. f[p] = BatchSize - 1 /\ g \in [Processes -> 0..BatchSize] /\ g = [f EXCEPT ![p] = 0]
            BY <4>1, <4>2, <4>3
          <5> HIDE DEF f, g
          <5>2. /\ Balance(score[a][k], Pending(ToScore, a, k) \cup {r}, g, hits[a][k] + 1) \in Balances
                /\ Balance(metric[a][k], Pending(ToMetric, a, k) \cup {r}, g, hits[a][k] + 1) \in Balances
            <6>1. /\ Balance(score[a][k], Pending(ToScore, a, k), f, hits[a][k]) \in Balances
                  /\ Balance(metric[a][k], Pending(ToMetric, a, k), f, hits[a][k]) \in Balances
              BY <3>2 DEF f
            <6> QED
              BY <3>5, <5>1, <6>1, BalanceBatch
          <5> QED
            BY <3>1, <4>4, <4>5, <5>2 DEF g
      <3>7. CASE ~(a = 0 /\ k = q /\ n >= BatchSize)
        <4>1. /\ Pending(ToScore, a, k)' = Pending(ToScore, a, k)
              /\ Pending(ToMetric, a, k)' = Pending(ToMetric, a, k)
          <5>1. \A pcs \in {ToScore, ToMetric} :
                    req'[r].pc \in pcs => ~(req'[r].minute = a /\ req'[r].q = k)
            BY <1>8, <1>10, <1>11, <3>7, PcSets
          <5>2. req[r].pc \notin ToScore /\ req[r].pc \notin ToMetric
            BY <1>1, PcSets
          <5> QED
            BY <1>11, <5>1, <5>2 DEF Pending
        <4>2. CASE a = 0 /\ k = q
          <5>1. n < BatchSize
            BY <1>5, <3>7, <4>2, Constants
          <5>2. Rest(n) = Rests(a, k)[p] + 1 /\ Rest(n) \in 0..BatchSize
            BY <1>5, <3>3, <4>2, <5>1, CountMoves DEF n
          <5>3. Rests(a, k)' = [Rests(a, k) EXCEPT ![p] = Rests(a, k)[p] + 1]
            <6>1. \A x \in Processes : Rest(counter'[x][a][k]) = IF x = p THEN Rests(a, k)[p] + 1 ELSE Rests(a, k)[x]
              BY <1>13, <3>3, <4>2, <5>2
            <6> QED
              BY <3>3, <3>4, <6>1
          <5>4. Rests(a, k)' \in [Processes -> 0..BatchSize]
            BY <3>3, <5>2, <5>3
          <5>5. hits'[a][k] = hits[a][k] + 1
            BY <1>12, <4>2 DEF h
          <5> QED
            <6> DEFINE f == Rests(a, k)
                       g == Rests(a, k)'
            <6>1. g \in [Processes -> 0..BatchSize] /\ g = [f EXCEPT ![p] = f[p] + 1]
              BY <5>3, <5>4
            <6>2. /\ Balance(score[a][k], Pending(ToScore, a, k), f, hits[a][k]) \in Balances
                  /\ Balance(metric[a][k], Pending(ToMetric, a, k), f, hits[a][k]) \in Balances
              BY <3>2
            <6> HIDE DEF f, g
            <6>3. /\ Balance(score[a][k], Pending(ToScore, a, k), g, hits[a][k] + 1) \in Balances
                  /\ Balance(metric[a][k], Pending(ToMetric, a, k), g, hits[a][k] + 1) \in Balances
              BY <6>1, <6>2, BalanceRest
            <6> QED
              BY <3>1, <4>1, <5>5, <6>3 DEF g
        <4>3. CASE ~(a = 0 /\ k = q)
          <5>1. Rests(a, k)' = Rests(a, k)
            BY <1>13, <3>4, <4>3 DEF Rests
          <5>2. hits'[a][k] = hits[a][k]
            BY <1>12, <4>3
          <5> QED
            BY <3>1, <3>2, <4>1, <5>1, <5>2
        <4> QED
          BY <4>2, <4>3
      <3> QED
        BY <3>6, <3>7
    <2> QED
      BY <2>1, CountsNext
  <1>19. JobsInv'
    BY <1>1 DEF JobsInv
  <1>20. HotInv'
    <2>1. ASSUME NEW a \in Ages, NEW k \in Queries, hits'[a][k] >= Threshold PROVE wasHot'[k]
      <3>1. CASE a = 0 /\ k = q
        BY <1>12, <1>14, <2>1, <3>1
      <3>2. CASE ~(a = 0 /\ k = q)
        BY <1>12, <1>14, <2>1, <3>2 DEF HotInv
      <3> QED
        BY <3>1, <3>2
    <2> QED
      BY <1>1, <1>14, <2>1 DEF HotInv
  <1>21. ExpiryInv'
    <2> SUFFICES ASSUME failures = 0, NEW a \in Ages, Touched(a)', expires'[a] # "later"
                 PROVE  Owned(a)'
      BY <1>1 DEF ExpiryInv
    <2>1. ASSUME Touched(a) PROVE Owned(a)'
      <3>1. PICK o \in Requests : req[o].pc # "idle" /\ req[o].first /\ req[o].minute = a
        BY <1>1, <2>1 DEF ExpiryInv, Owned
      <3>2. o # r
        BY <1>1, <3>1
      <3> QED
        BY <1>11, <3>1, <3>2 DEF Owned
    <2>2. CASE a = 0 /\ first
      <3>1. req'[r].pc # "idle" /\ req'[r].first /\ req'[r].minute = a
        BY <1>8, <1>10, <1>11, <2>2
      <3> QED
        BY <3>1 DEF Owned
    <2>3. CASE a = 0 /\ ~first
      <3>1. Touched(a)
        BY <1>7, <2>3 DEF Touched
      <3> QED
        BY <2>1, <3>1
    <2>4. CASE a # 0
      <3>1. Touched(a)
        BY <1>1, <1>10, <1>11, <2>4 DEF Touched
      <3> QED
        BY <2>1, <3>1
    <2> QED
      BY <2>2, <2>3, <2>4
  <1> QED
    BY <1>16, <1>17, <1>18, <1>19, <1>20, <1>21

--------------------------------------------------------------------------------
(* The cron.                                                               *)

\* The fields of a job.
LEMMA JobFields ==
    ASSUME TypeInv, NEW w \in Warmers, NEW q \in Queries
    PROVE  /\ job[w][q] \in JobRecords /\ job[w][q].pc \in JobPCs /\ job[w][q].minute \in {0, 1}
           /\ job[w][q].wait \in 0..MaxLatency /\ job[w][q].age \in 0..MaxLatency
           /\ job[w][q].hot \in BOOLEAN
  <1>1. job[w][q] \in JobRecords
    <2>1. job[w] \in [Queries -> JobRecords]
      BY DEF TypeInv
    <2> QED
      BY <2>1
  <1>2. 0..1 = {0, 1}
    OBVIOUS
  <1> QED
    BY <1>1, <1>2 DEF JobRecords

\* The record of no job.
LEMMA NoJobFacts ==
    /\ NoJob \in JobRecords /\ NoJob.pc = "idle" /\ NoJob.minute = 0 /\ ~NoJob.hot
    /\ NoJob.wait = 0 /\ NoJob.age = 0
  BY Constants DEF NoJob, JobRecords, JobPCs

\* A job that moves on keeps the invariant if its new record does.
LEMMA JobMoves ==
    ASSUME GuestInv, NEW w \in Warmers, NEW q \in Queries, NEW new \in JobRecords, JobStep(w, q, new),
           new.pc = "idle" => new.minute = 0, new.minute = 1 => new.wait > phase, new.age <= new.wait,
           new.hot \/ new.pc \in {"body", "post", "store"} => wasHot[q],
           response' \in [Queries -> Responses],
           \A k \in Queries : response'[k].left > 0 =>
               wasHot[k] /\ response'[k].age + response'[k].left <= ResponseTtl + MaxLatency,
           failures' \in 0..MaxFailures, failures' # failures => failures' # 0
    PROVE  GuestInv'
  <1> USE DEF GuestInv
  <1>1. /\ job' = [job EXCEPT ![w][q] = new]
        /\ UNCHANGED <<phase, hits, counter, started, score, expires, metric, body, req, wasHot>>
    BY DEF JobStep
  <1>2. /\ job' \in [Warmers -> [Queries -> JobRecords]] /\ job'[w][q] = new
        /\ \A x \in Warmers : \A k \in Queries : x # w \/ k # q => job'[x][k] = job[x][k]
    <2>1. job \in [Warmers -> [Queries -> JobRecords]]
      BY DEF TypeInv
    <2> QED
      BY <1>1, <2>1, Except2
  <1>3. TypeInv'
    BY <1>1, <1>2 DEF TypeInv
  <1>4. RequestsInv'
    BY <1>1 DEF RequestsInv
  <1>5. JobsInv'
    <2> SUFFICES ASSUME NEW x \in Warmers, NEW k \in Queries
                 PROVE  /\ job'[x][k].pc = "idle" => job'[x][k].minute = 0
                        /\ job'[x][k].minute = 1 => job'[x][k].wait > phase'
                        /\ job'[x][k].age <= job'[x][k].wait
      BY DEF JobsInv
    <2>1. CASE x = w /\ k = q
      BY <1>1, <1>2, <2>1
    <2>2. CASE ~(x = w /\ k = q)
      BY <1>1, <1>2, <2>2 DEF JobsInv
    <2> QED
      BY <2>1, <2>2
  <1>6. CountsInv'
    <2>1. \A a \in Ages : \A k \in Queries :
              /\ Pending(ToScore, a, k)' = Pending(ToScore, a, k)
              /\ Pending(ToMetric, a, k)' = Pending(ToMetric, a, k)
              /\ Rests(a, k)' = Rests(a, k)
      BY <1>1 DEF Rests, Pending
    <2> QED
      BY <1>1, <2>1, CountsNow, CountsNext
  <1>7. HotInv'
    <2>1. ASSUME NEW x \in Warmers, NEW k \in Queries,
                 job'[x][k].hot \/ job'[x][k].pc \in {"body", "post", "store"}
          PROVE  wasHot[k]
      <3>1. CASE x = w /\ k = q
        BY <1>2, <2>1, <3>1
      <3>2. CASE ~(x = w /\ k = q)
        BY <1>2, <2>1, <3>2 DEF HotInv
      <3> QED
        BY <3>1, <3>2
    <2> QED
      BY <1>1, <2>1 DEF HotInv
  <1>8. ExpiryInv'
    BY <1>1 DEF ExpiryInv, Touched, Owned
  <1> QED
    BY <1>3, <1>4, <1>5, <1>6, <1>7, <1>8

\* The cron looks at the sets, asks for the query again and stores the response, or fails.
LEMMA JobSteps ==
    ASSUME GuestInv, NEW w \in Warmers, NEW q \in Queries,
           \/ ReadCurrent(w, q) \/ ReadPrevious(w, q) \/ GetBody(w, q)
           \/ Post(w, q) \/ Store(w, q) \/ JobFails(w, q)
    PROVE  GuestInv'
  <1> USE DEF GuestInv
  <1> DEFINE j == job[w][q]
  <1>1. /\ j \in JobRecords /\ j.pc \in JobPCs /\ j.minute \in {0, 1} /\ j.wait \in 0..MaxLatency
        /\ j.age \in 0..MaxLatency /\ j.hot \in BOOLEAN
    BY JobFields
  <1>2. /\ j.pc = "idle" => j.minute = 0
        /\ j.minute = 1 => j.wait > phase
        /\ j.age <= j.wait
        /\ j.hot \/ j.pc \in {"body", "post", "store"} => wasHot[q]
    BY DEF JobsInv, HotInv
  <1>3. /\ response \in [Queries -> Responses] /\ failures \in 0..MaxFailures
        /\ \A k \in Queries : response[k].left > 0 =>
              wasHot[k] /\ response[k].age + response[k].left <= ResponseTtl + MaxLatency
    BY DEF TypeInv, HotInv
  <1>4. \A a \in SetAges : score[a][q] >= Threshold => wasHot[q]
    BY DEF HotInv
  <1>5. phase \in Nat
    BY Constants DEF TypeInv
  <1>6. ASSUME JobStep(w, q, NoJob), UNCHANGED response, failures' \in {failures, failures + 1}, failures' \in 0..MaxFailures
        PROVE  GuestInv'
    <2>1. NoJob.minute = 0 /\ NoJob.age <= NoJob.wait /\ failures' # failures => failures' # 0
      BY <1>3, <1>6, NoJobFacts, Constants
    <2>2. ~(NoJob.hot \/ NoJob.pc \in {"body", "post", "store"}) /\ NoJob.minute # 1
      BY NoJobFacts
    <2>3. response' = response
      BY <1>6
    <2> QED
      BY <1>3, <1>6, <2>1, <2>2, <2>3, NoJobFacts, JobMoves
  <1>7. ASSUME NEW pc \in JobPCs, pc # "idle", pc \in {"body", "post", "store"} => wasHot[q],
               JobStep(w, q, [j EXCEPT !.pc = pc]) \/ JobStep(w, q, [j EXCEPT !.pc = pc, !.age = 0]),
               UNCHANGED <<response, failures>>
        PROVE  GuestInv'
    <2>1. PICK new : /\ JobStep(w, q, new)
                     /\ new = [j EXCEPT !.pc = pc] \/ new = [j EXCEPT !.pc = pc, !.age = 0]
      BY <1>7
    <2> HIDE DEF j
    <2>2. /\ new \in JobRecords /\ new.pc = pc /\ new.hot = j.hot /\ new.minute = j.minute /\ new.wait = j.wait
          /\ new.age \in {j.age, 0}
      <3>1. CASE new = [j EXCEPT !.pc = pc]
        BY <1>1, <1>7, <3>1 DEF JobRecords
      <3>2. CASE new = [j EXCEPT !.pc = pc, !.age = 0]
        <4>1. 0 \in 0..MaxLatency
          BY Constants
        <4> QED
          BY <1>1, <1>7, <3>2, <4>1 DEF JobRecords
      <3> QED
        BY <2>1, <3>1, <3>2
    <2>3. new.age <= new.wait
      BY <1>1, <1>2, <2>2, Constants
    <2>4. response' = response /\ failures' = failures
      BY <1>7
    <2> QED
      BY <1>2, <1>3, <1>7, <2>1, <2>2, <2>3, <2>4, JobMoves
  <1>8. CASE ReadCurrent(w, q)
    <2> DEFINE hot == score[0][q] >= Threshold
               new == [NoJob EXCEPT !.pc = "previous", !.hot = hot]
    <2>1. hot \in BOOLEAN /\ (hot => wasHot[q])
      BY <1>4, Constants
    <2>2. JobStep(w, q, new) /\ UNCHANGED <<response, failures>>
      BY <1>8 DEF ReadCurrent
    <2> HIDE DEF hot
    <2>3. /\ new \in JobRecords /\ new.pc = "previous" /\ new.hot = hot /\ new.minute = 0 /\ new.wait = 0 /\ new.age = 0
      BY <2>1, NoJobFacts DEF JobRecords, JobPCs
    <2> HIDE DEF new
    <2>4. new.age <= new.wait /\ new.minute # 1 /\ new.pc \notin {"body", "post", "store"} /\ new.pc # "idle"
      BY <2>3
    <2>5. response' = response /\ failures' = failures
      BY <2>2
    <2> QED
      BY <1>3, <2>1, <2>2, <2>3, <2>4, <2>5, JobMoves
  <1>9. CASE ReadPrevious(w, q)
    <2>1. UNCHANGED <<response, failures>>
      BY <1>9 DEF ReadPrevious
    <2>2. CASE j.hot \/ (j.minute + 1 \in SetAges /\ score[j.minute + 1][q] >= Threshold)
      <3>1. wasHot[q]
        BY <1>2, <1>4, <2>2
      <3>2. JobStep(w, q, [j EXCEPT !.pc = "body"])
        BY <1>9, <2>2 DEF ReadPrevious
      <3>3. "body" \in JobPCs
        BY DEF JobPCs
      <3> QED
        BY <1>7, <2>1, <3>1, <3>2, <3>3
    <2>3. CASE ~(j.hot \/ (j.minute + 1 \in SetAges /\ score[j.minute + 1][q] >= Threshold))
      <3>1. JobStep(w, q, NoJob)
        BY <1>9, <2>3 DEF ReadPrevious
      <3> QED
        BY <1>3, <1>6, <2>1, <3>1
    <2> QED
      BY <2>2, <2>3
  <1>10. CASE GetBody(w, q)
    <2>1. UNCHANGED <<response, failures>> /\ j.pc = "body"
      BY <1>10 DEF GetBody
    <2>2. CASE body[q]
      <3>1. JobStep(w, q, [j EXCEPT !.pc = "post"]) /\ "post" \in JobPCs
        BY <1>10, <2>2 DEF GetBody, JobPCs
      <3> QED
        BY <1>2, <1>7, <2>1, <3>1
    <2>3. CASE ~body[q]
      <3>1. JobStep(w, q, NoJob)
        BY <1>10, <2>3 DEF GetBody
      <3> QED
        BY <1>3, <1>6, <2>1, <3>1
    <2> QED
      BY <2>2, <2>3
  <1>11. CASE Post(w, q)
    <2>1. /\ UNCHANGED <<response, failures>> /\ j.pc = "post" /\ "store" \in JobPCs
          /\ JobStep(w, q, [j EXCEPT !.pc = "store", !.age = 0])
      BY <1>11 DEF Post, JobPCs
    <2> QED
      BY <1>2, <1>7, <2>1
  <1>12. CASE Store(w, q)
    <2> DEFINE new == [age |-> j.age, left |-> ResponseTtl]
    <2>1. /\ j.pc = "store" /\ response' = [response EXCEPT ![q] = new] /\ JobStep(w, q, NoJob)
          /\ failures' = failures
      BY <1>12 DEF Store
    <2>2. new \in Responses /\ new.age + new.left <= ResponseTtl + MaxLatency
      BY <1>1, Constants DEF Responses
    <2> HIDE DEF new
    <2>3. response' \in [Queries -> Responses] /\ response'[q] = new /\ \A k \in Queries : k # q => response'[k] = response[k]
      BY <1>3, <2>1, <2>2
    <2>4. \A k \in Queries : response'[k].left > 0 =>
              wasHot[k] /\ response'[k].age + response'[k].left <= ResponseTtl + MaxLatency
      <3> SUFFICES ASSUME NEW k \in Queries, response'[k].left > 0
                   PROVE  wasHot[k] /\ response'[k].age + response'[k].left <= ResponseTtl + MaxLatency
        OBVIOUS
      <3>1. CASE k = q
        BY <1>2, <2>1, <2>2, <2>3, <3>1
      <3>2. CASE k # q
        BY <1>3, <2>3, <3>2
      <3> QED
        BY <3>1, <3>2
    <2>5. /\ NoJob.minute = 0 /\ NoJob.minute # 1 /\ NoJob.age <= NoJob.wait
          /\ ~(NoJob.hot \/ NoJob.pc \in {"body", "post", "store"})
      BY NoJobFacts
    <2> QED
      BY <1>3, <2>1, <2>3, <2>4, <2>5, NoJobFacts, JobMoves
  <1>13. CASE JobFails(w, q)
    <2>1. JobStep(w, q, NoJob) /\ UNCHANGED response /\ failures < MaxFailures /\ failures' = failures + 1
      BY <1>13 DEF JobFails
    <2>2. failures' \in 0..MaxFailures
      BY <1>3, <2>1, Constants
    <2> QED
      BY <1>6, <2>1, <2>2
  <1> QED
    BY <1>8, <1>9, <1>10, <1>11, <1>12, <1>13

--------------------------------------------------------------------------------
(* Time.                                                                   *)

\* A minute is over after its last tick.
LEMMA PhaseMoves ==
    ASSUME NEW f \in 0..(TicksPerMinute - 1)
    PROVE  /\ f \in Nat /\ (f + 1) % TicksPerMinute \in 0..(TicksPerMinute - 1)
           /\ f = TicksPerMinute - 1 => (f + 1) % TicksPerMinute = 0
           /\ f # TicksPerMinute - 1 => (f + 1) % TicksPerMinute = f + 1
  <1>1. TicksPerMinute \in Nat \ {0} /\ f \in Nat /\ f + 1 <= TicksPerMinute
    BY Constants
  <1>2. \A t \in Nat \ {0} : t % t = 0 /\ \A x \in Nat : x < t => x % t = x
    OBVIOUS
  <1>3. CASE f = TicksPerMinute - 1
    <2>1. f + 1 = TicksPerMinute
      BY <1>1, <1>3
    <2> QED
      BY <1>1, <1>2, <1>3, <2>1
  <1>4. CASE f # TicksPerMinute - 1
    <2>1. f + 1 < TicksPerMinute /\ f + 1 \in Nat
      BY <1>1, <1>4
    <2>2. (f + 1) % TicksPerMinute = f + 1
      BY <1>1, <1>2, <2>1
    <2> QED
      BY <1>1, <1>4, <2>1, <2>2
  <1> QED
    BY <1>3, <1>4

\* Nothing lasts long enough to see a third minute.
LEMMA RequestsWait ==
    ASSUME TypeInv, RequestsInv, NEW late \in {0, 1}, late = 1 <=> phase = TicksPerMinute - 1,
           \A r \in Requests : req[r].wait < MaxLatency,
           req' = [r \in Requests |-> Waited(req[r], late)], NEW r \in Requests
    PROVE  /\ req'[r] \in RequestRecords /\ req'[r].pc = req[r].pc
           /\ req[r].pc = "idle" => req'[r] = req[r]
           /\ req[r].pc # "idle" => /\ req'[r].p = req[r].p /\ req'[r].q = req[r].q
                                    /\ req'[r].first = req[r].first
                                    /\ req'[r].wait = req[r].wait + 1
                                    /\ req'[r].minute = req[r].minute + late
                                    /\ late = 1 => req[r].minute = 0
  <1>1. /\ req[r] \in RequestRecords /\ req[r].minute \in {0, 1} /\ req[r].wait \in 0..MaxLatency
        /\ req[r].wait < MaxLatency /\ phase \in 0..(TicksPerMinute - 1)
    BY RequestFields DEF TypeInv
  <1>2. req'[r] = Waited(req[r], late)
    OBVIOUS
  <1>3. CASE req[r].pc = "idle"
    BY <1>1, <1>2, <1>3 DEF Waited
  <1>4. CASE req[r].pc # "idle"
    <2> DEFINE x == req[r].wait + 1
               y == req[r].minute + late
    <2>1. req'[r] = [req[r] EXCEPT !.wait = x, !.minute = y]
      BY <1>2, <1>4 DEF Waited
    <2>2. late = 1 => req[r].minute = 0
      BY <1>1, Constants DEF RequestsInv
    <2>3. x \in 0..MaxLatency /\ y \in 0..1
      BY <1>1, <2>2, Constants
    <2> HIDE DEF x, y
    <2>4. /\ req'[r] \in RequestRecords /\ req'[r].pc = req[r].pc /\ req'[r].p = req[r].p
          /\ req'[r].q = req[r].q /\ req'[r].first = req[r].first /\ req'[r].wait = x /\ req'[r].minute = y
      BY <1>1, <2>1, <2>3 DEF RequestRecords
    <2> QED
      BY <1>4, <2>2, <2>4 DEF x, y
  <1> QED
    BY <1>3, <1>4

\* A job one tick later.
WaitedJob(f, late) ==
    LET j == Waited(f, late) IN IF j.pc = "store" THEN [j EXCEPT !.age = @ + 1] ELSE j

\* Jobs wait as well, and a response in hand grows older with its job.
LEMMA JobsWait ==
    ASSUME TypeInv, JobsInv, NEW late \in {0, 1}, late = 1 <=> phase = TicksPerMinute - 1,
           NEW w \in Warmers, NEW q \in Queries, job[w][q].wait < MaxLatency, NEW new, new = WaitedJob(job[w][q], late)
    PROVE  /\ new \in JobRecords /\ new.pc = job[w][q].pc /\ new.hot = job[w][q].hot
           /\ new.age <= new.wait
           /\ job[w][q].pc = "idle" => new.minute = job[w][q].minute
           /\ job[w][q].pc # "idle" => /\ new.wait = job[w][q].wait + 1
                                       /\ new.minute = job[w][q].minute + late
                                       /\ late = 1 => job[w][q].minute = 0
  <1> DEFINE f == job[w][q]
             x == f.wait + 1
             y == f.minute + late
             z == f.age + 1
  <1>1. /\ f \in JobRecords /\ f.minute \in {0, 1} /\ f.wait \in 0..MaxLatency /\ f.age \in 0..MaxLatency
        /\ f.wait < MaxLatency /\ phase \in 0..(TicksPerMinute - 1) /\ f.age <= f.wait
        /\ f.minute = 1 => f.wait > phase
    BY JobFields DEF TypeInv, JobsInv
  <1>2. late = 1 => f.minute = 0
    BY <1>1, Constants
  <1>3. x \in 0..MaxLatency /\ y \in 0..1 /\ z \in 0..MaxLatency /\ f.age <= x /\ z <= x
    BY <1>1, <1>2, Constants
  <1>4. CASE f.pc = "idle"
    <2>1. new = f
      BY <1>4 DEF Waited, WaitedJob
    <2> QED
      BY <1>1, <1>4, <2>1
  <1>5. CASE f.pc # "idle"
    <2> DEFINE j == [f EXCEPT !.wait = x, !.minute = y]
    <2>1. Waited(f, late) = j
      BY <1>5 DEF Waited
    <2> HIDE DEF f, x, y, z
    <2>2. /\ j \in JobRecords /\ j.pc = f.pc /\ j.hot = f.hot /\ j.wait = x /\ j.minute = y /\ j.age = f.age
      BY <1>1, <1>3 DEF JobRecords
    <2>3. new = IF j.pc = "store" THEN [j EXCEPT !.age = j.age + 1] ELSE j
      BY <2>1 DEF f, WaitedJob
    <2> HIDE DEF j
    <2>4. j.age + 1 = z
      BY <2>2 DEF z
    <2>5. /\ new \in JobRecords /\ new.pc = f.pc /\ new.hot = f.hot /\ new.wait = x /\ new.minute = y
          /\ new.age \in {f.age, z}
      <3>1. CASE j.pc = "store"
        BY <1>3, <2>2, <2>3, <2>4, <3>1 DEF JobRecords
      <3>2. CASE j.pc # "store"
        BY <2>2, <2>3, <3>2
      <3> QED
        BY <3>1, <3>2
    <2>6. new.age <= new.wait
      BY <1>3, <2>5
    <2> QED
      BY <1>2, <1>5, <2>5, <2>6 DEF f, x, y
  <1> QED
    BY <1>4, <1>5

\* Responses grow older, and what they have left shorter.
LEMMA ResponsesAge ==
    ASSUME TypeInv, response' = [q \in Queries |-> AgedResponse(response[q])]
    PROVE  /\ response' \in [Queries -> Responses]
           /\ \A q \in Queries : response'[q].left > 0 =>
                 /\ response[q].left > 0
                 /\ response'[q].age + response'[q].left = response[q].age + response[q].left
  <1> SUFFICES ASSUME NEW q \in Queries
               PROVE  /\ AgedResponse(response[q]) \in Responses
                      /\ AgedResponse(response[q]).left > 0 =>
                           /\ response[q].left > 0
                           /\ AgedResponse(response[q]).age + AgedResponse(response[q]).left
                                = response[q].age + response[q].left
    OBVIOUS
  <1> DEFINE e == response[q]
  <1>1. e \in [age : Nat, left : 0..ResponseTtl]
    BY DEF TypeInv, Responses
  <1>2. e.age \in Nat /\ e.left \in 0..ResponseTtl /\ ResponseTtl \in Nat
    BY <1>1, Constants
  <1> HIDE DEF e
  <1>3. CASE e.left <= 1
    <2>1. AgedResponse(e) = [age |-> 0, left |-> 0]
      BY <1>3 DEF AgedResponse, NoResponse
    <2> QED
      BY <1>2, <2>1 DEF Responses, e
  <1>4. CASE ~(e.left <= 1)
    <2>1. AgedResponse(e) = [age |-> e.age + 1, left |-> e.left - 1]
      BY <1>4 DEF AgedResponse
    <2>2. e.age + 1 \in Nat /\ e.left - 1 \in 0..ResponseTtl /\ e.left > 0
      BY <1>2, <1>4
    <2>3. (e.age + 1) + (e.left - 1) = e.age + e.left
      BY <1>2
    <2> QED
      BY <2>1, <2>2, <2>3 DEF Responses, e
  <1> QED
    BY <1>3, <1>4

\* A tick, and perhaps a new minute.
LEMMA TickStep == ASSUME GuestInv, Tick PROVE GuestInv'
  <1> USE DEF GuestInv
  <1> DEFINE late == IF phase = TicksPerMinute - 1 THEN 1 ELSE 0
  <1>1. late \in {0, 1} /\ (late = 1 <=> phase = TicksPerMinute - 1)
    OBVIOUS
  <1>2. /\ \A r \in Requests : req[r].wait < MaxLatency
        /\ \A w \in Warmers, q \in Queries : job[w][q].wait < MaxLatency
        /\ phase' = (phase + 1) % TicksPerMinute
        /\ req' = [r \in Requests |-> Waited(req[r], late)]
        /\ response' = [q \in Queries |-> AgedResponse(response[q])]
        /\ UNCHANGED <<body, wasHot, failures>>
    BY DEF Tick
  <1>3. job' = [w \in Warmers |-> [q \in Queries |-> WaitedJob(job[w][q], late)]]
    BY DEF Tick, WaitedJob
  <1>4. \/ late = 0 /\ UNCHANGED <<hits, counter, started, score, expires, metric>>
        \/ /\ late = 1
           /\ hits' = Older(hits, NoHits) /\ score' = Older(score, NoHits) /\ metric' = Older(metric, NoHits)
           /\ counter' = [p \in Processes |-> Older(counter[p], NoHits)]
           /\ started' = [p \in Processes |-> FALSE]
           /\ expires' = Older(expires, "missing")
    BY DEF Tick
  <1>5. /\ phase \in Nat /\ phase' \in 0..(TicksPerMinute - 1)
        /\ late = 1 => phase' = 0
        /\ late = 0 => phase' = phase + 1
    BY <1>1, <1>2, PhaseMoves DEF TypeInv
  <1> HIDE DEF late
  <1>6. ASSUME NEW r \in Requests
        PROVE  /\ req'[r] \in RequestRecords /\ req'[r].pc = req[r].pc
               /\ req[r].pc = "idle" => req'[r] = req[r]
               /\ req[r].pc # "idle" => /\ req'[r].p = req[r].p /\ req'[r].q = req[r].q
                                        /\ req'[r].first = req[r].first
                                        /\ req'[r].wait = req[r].wait + 1
                                        /\ req'[r].minute = req[r].minute + late
                                        /\ late = 1 => req[r].minute = 0
    BY <1>1, <1>2, RequestsWait
  <1>7. ASSUME NEW w \in Warmers, NEW q \in Queries
        PROVE  /\ job'[w][q] \in JobRecords /\ job'[w][q].pc = job[w][q].pc /\ job'[w][q].hot = job[w][q].hot
               /\ job'[w][q].age <= job'[w][q].wait
               /\ job[w][q].pc = "idle" => job'[w][q].minute = job[w][q].minute
               /\ job[w][q].pc # "idle" => /\ job'[w][q].wait = job[w][q].wait + 1
                                           /\ job'[w][q].minute = job[w][q].minute + late
                                           /\ late = 1 => job[w][q].minute = 0
    <2> DEFINE new == job'[w][q]
    <2>1. new = WaitedJob(job[w][q], late) /\ job[w][q].wait < MaxLatency
      BY <1>2, <1>3
    <2> HIDE DEF new
    <2>2. /\ new \in JobRecords /\ new.pc = job[w][q].pc /\ new.hot = job[w][q].hot
          /\ new.age <= new.wait
          /\ job[w][q].pc = "idle" => new.minute = job[w][q].minute
          /\ job[w][q].pc # "idle" => /\ new.wait = job[w][q].wait + 1
                                      /\ new.minute = job[w][q].minute + late
                                      /\ late = 1 => job[w][q].minute = 0
      BY <1>1, <2>1, JobsWait
    <2> QED
      BY <2>2 DEF new
  <1>8. /\ response' \in [Queries -> Responses]
        /\ \A q \in Queries : response'[q].left > 0 =>
              /\ response[q].left > 0
              /\ response'[q].age + response'[q].left = response[q].age + response[q].left
    BY <1>2, ResponsesAge
  <1>9. /\ 0 \in Ages /\ 1 \in Ages /\ \A a \in Ages : a = 0 \/ a = 1
        /\ Ages \subseteq SetAges /\ 2 \in SetAges /\ \A a \in SetAges : a # 0 => a - 1 \in SetAges
        /\ \A a \in Ages : a # 0 => a - 1 \in Ages
    BY Constants
  <1>10. /\ NoHits \in [Queries -> 0..MaxHits] /\ NoHits \in [Queries -> 0..BatchSize] /\ NoHits \in [Queries -> Nat]
         /\ \A q \in Queries : NoHits[q] = 0
    BY Constants DEF NoHits
  <1>11. /\ hits \in [Ages -> [Queries -> 0..MaxHits]] /\ metric \in [Ages -> [Queries -> Nat]]
         /\ score \in [SetAges -> [Queries -> Nat]]
         /\ counter \in [Processes -> [Ages -> [Queries -> 0..BatchSize]]]
         /\ started \in [Processes -> BOOLEAN] /\ expires \in [SetAges -> {"missing", "never", "later"}]
    BY DEF TypeInv
  \* What is read of the tables afterwards.
  <1>12. ASSUME late = 1
         PROVE  /\ \A a \in Ages : hits'[a] = (IF a = 0 THEN NoHits ELSE hits[a - 1])
                                   /\ metric'[a] = (IF a = 0 THEN NoHits ELSE metric[a - 1])
                /\ \A a \in SetAges : score'[a] = (IF a = 0 THEN NoHits ELSE score[a - 1])
                                      /\ expires'[a] = (IF a = 0 THEN "missing" ELSE expires[a - 1])
                /\ \A p \in Processes : \A a \in Ages :
                      counter'[p][a] = (IF a = 0 THEN NoHits ELSE counter[p][a - 1])
                /\ \A p \in Processes : ~started'[p]
                /\ hits' \in [Ages -> [Queries -> 0..MaxHits]] /\ metric' \in [Ages -> [Queries -> Nat]]
                /\ score' \in [SetAges -> [Queries -> Nat]]
                /\ counter' \in [Processes -> [Ages -> [Queries -> 0..BatchSize]]]
                /\ started' \in [Processes -> BOOLEAN] /\ expires' \in [SetAges -> {"missing", "never", "later"}]
    <2>1. /\ hits' = [a \in Ages |-> IF a = 0 THEN NoHits ELSE hits[a - 1]]
          /\ metric' = [a \in Ages |-> IF a = 0 THEN NoHits ELSE metric[a - 1]]
          /\ score' = [a \in SetAges |-> IF a = 0 THEN NoHits ELSE score[a - 1]]
          /\ expires' = [a \in SetAges |-> IF a = 0 THEN "missing" ELSE expires[a - 1]]
          /\ counter' = [p \in Processes |-> [a \in Ages |-> IF a = 0 THEN NoHits ELSE counter[p][a - 1]]]
          /\ started' = [p \in Processes |-> FALSE]
      <3>1. DOMAIN hits = Ages /\ DOMAIN metric = Ages /\ DOMAIN score = SetAges /\ DOMAIN expires = SetAges
        BY <1>11
      <3>2. \A p \in Processes : DOMAIN counter[p] = Ages
        BY <1>11
      <3> QED
        BY <1>4, <1>12, <3>1, <3>2 DEF Older
    <2>2. /\ hits' \in [Ages -> [Queries -> 0..MaxHits]] /\ metric' \in [Ages -> [Queries -> Nat]]
          /\ score' \in [SetAges -> [Queries -> Nat]]
          /\ started' \in [Processes -> BOOLEAN] /\ expires' \in [SetAges -> {"missing", "never", "later"}]
      BY <1>9, <1>10, <1>11, <2>1
    <2>3. counter' \in [Processes -> [Ages -> [Queries -> 0..BatchSize]]]
      BY <1>9, <1>10, <1>11, <2>1
    <2>4. /\ \A a \in Ages : hits'[a] = (IF a = 0 THEN NoHits ELSE hits[a - 1])
                             /\ metric'[a] = (IF a = 0 THEN NoHits ELSE metric[a - 1])
          /\ \A a \in SetAges : score'[a] = (IF a = 0 THEN NoHits ELSE score[a - 1])
                                /\ expires'[a] = (IF a = 0 THEN "missing" ELSE expires[a - 1])
      BY <2>1
    <2>5. /\ \A p \in Processes : \A a \in Ages :
                counter'[p][a] = (IF a = 0 THEN NoHits ELSE counter[p][a - 1])
          /\ \A p \in Processes : ~started'[p]
      BY <2>1
    <2> QED
      BY <2>2, <2>3, <2>4, <2>5
  <1>13. TypeInv'
    <2>1. /\ hits' \in [Ages -> [Queries -> 0..MaxHits]] /\ metric' \in [Ages -> [Queries -> Nat]]
          /\ score' \in [SetAges -> [Queries -> Nat]]
          /\ counter' \in [Processes -> [Ages -> [Queries -> 0..BatchSize]]]
          /\ started' \in [Processes -> BOOLEAN] /\ expires' \in [SetAges -> {"missing", "never", "later"}]
      <3>1. CASE late = 1
        BY <1>12, <3>1
      <3>2. CASE late # 1
        <4>1. UNCHANGED <<hits, counter, started, score, expires, metric>>
          BY <1>4, <3>2
        <4> QED
          BY <1>11, <4>1
      <3> QED
        BY <3>1, <3>2
    <2>2. req' \in [Requests -> RequestRecords]
      BY <1>2, <1>6
    <2>3. job' \in [Warmers -> [Queries -> JobRecords]]
      <3>1. \E F : job' = [w \in Warmers |-> [q \in Queries |-> F[w][q]]]
        <4> DEFINE G == [w \in Warmers |-> [q \in Queries |-> job'[w][q]]]
        <4>1. job' = [w \in Warmers |-> [q \in Queries |-> G[w][q]]]
          BY <1>3
        <4> QED
          BY <4>1
      <3>2. PICK F : job' = [w \in Warmers |-> [q \in Queries |-> F[w][q]]]
        BY <3>1
      <3>3. \A w \in Warmers : \A q \in Queries : job'[w][q] = F[w][q]
        BY <3>2
      <3>4. \A w \in Warmers : \A q \in Queries : F[w][q] \in JobRecords
        BY <1>7, <3>3
      <3> QED
        BY <3>2, <3>4
    <2>4. failures' \in 0..MaxFailures /\ body' \in [Queries -> BOOLEAN] /\ wasHot' \in [Queries -> BOOLEAN]
      BY <1>2 DEF TypeInv
    <2> QED
      BY <1>5, <1>8, <2>1, <2>2, <2>3, <2>4 DEF TypeInv
  <1>14. RequestsInv'
    <2> SUFFICES ASSUME NEW r \in Requests
                 PROVE  /\ req'[r].pc # "idle" => req'[r].p \in Processes /\ req'[r].q \in Queries
                        /\ req'[r].pc = "idle" => req'[r].minute = 0
                        /\ req'[r].pc \in {"create", "ttl"} => req'[r].first
                        /\ req'[r].minute = 1 => req'[r].wait > phase'
      BY DEF RequestsInv
    <2>1. req[r].minute \in {0, 1} /\ req[r].wait \in Nat
      BY RequestFields, Constants
    <2>2. CASE req[r].pc = "idle"
      BY <1>6, <2>2 DEF RequestsInv
    <2>3. CASE req[r].pc # "idle"
      <3>1. req'[r].minute = 1 => req'[r].wait > phase'
        <4>1. CASE late = 1
          BY <1>5, <1>6, <2>1, <2>3, <4>1
        <4>2. CASE late = 0
          <5>1. req'[r].minute = req[r].minute /\ req'[r].wait = req[r].wait + 1
            BY <1>6, <2>1, <2>3, <4>2
          <5>2. req[r].minute = 1 => req[r].wait > phase
            BY DEF RequestsInv
          <5>3. phase' = phase + 1
            BY <1>5, <4>2
          <5> QED
            BY <1>5, <2>1, <5>1, <5>2, <5>3
        <4> QED
          BY <1>1, <4>1, <4>2
      <3> QED
        BY <1>6, <2>3, <3>1 DEF RequestsInv
    <2> QED
      BY <2>2, <2>3
  <1>15. JobsInv'
    <2> SUFFICES ASSUME NEW w \in Warmers, NEW q \in Queries
                 PROVE  /\ job'[w][q].pc = "idle" => job'[w][q].minute = 0
                        /\ job'[w][q].minute = 1 => job'[w][q].wait > phase'
                        /\ job'[w][q].age <= job'[w][q].wait
      BY DEF JobsInv
    <2>1. job[w][q].minute \in {0, 1} /\ job[w][q].wait \in Nat
      BY JobFields, Constants
    <2>2. CASE job[w][q].pc = "idle"
      <3>1. job'[w][q].minute = 0
        BY <1>7, <2>2 DEF JobsInv
      <3> QED
        BY <1>7, <3>1
    <2>3. CASE job[w][q].pc # "idle"
      <3>1. job'[w][q].minute = 1 => job'[w][q].wait > phase'
        <4>1. CASE late = 1
          BY <1>5, <1>7, <2>1, <2>3, <4>1
        <4>2. CASE late = 0
          <5>1. job'[w][q].minute = job[w][q].minute /\ job'[w][q].wait = job[w][q].wait + 1
            BY <1>7, <2>1, <2>3, <4>2
          <5>2. job[w][q].minute = 1 => job[w][q].wait > phase
            BY DEF JobsInv
          <5>3. phase' = phase + 1
            BY <1>5, <4>2
          <5> QED
            BY <1>5, <2>1, <5>1, <5>2, <5>3
        <4> QED
          BY <1>1, <4>1, <4>2
      <3> QED
        BY <1>7, <2>3, <3>1
    <2> QED
      BY <2>2, <2>3
  <1>16. CountsInv'
    <2> SUFFICES ASSUME NEW a \in Ages, NEW q \in Queries
                 PROVE  /\ Balance(score'[a][q], Pending(ToScore, a, q)', Rests(a, q)', hits'[a][q]) \in Balances
                        /\ Balance(metric'[a][q], Pending(ToMetric, a, q)', Rests(a, q)', hits'[a][q]) \in Balances
      BY CountsNext
    <2>1. Rests(a, q)' = [p \in Processes |-> Rest(counter'[p][a][q])]
      BY DEF Rests, Rest
    <2>2. CASE late = 0
      <3>1. UNCHANGED <<hits, counter, started, score, expires, metric>>
        BY <1>4, <2>2
      <3>2. \A r \in Requests : req[r].pc # "idle" => req'[r].minute = req[r].minute
        BY <1>6, <2>2, RequestFields
      <3>3. \A pcs : Pending(pcs, a, q)' = Pending(pcs, a, q)
        <4> SUFFICES ASSUME NEW pcs PROVE Pending(pcs, a, q)' = Pending(pcs, a, q)
          OBVIOUS
        <4>1. \A r \in Requests : req'[r].pc = req[r].pc /\ req'[r].q = req[r].q /\ req'[r].minute = req[r].minute
          BY <1>6, <3>2
        <4> QED
          BY <4>1 DEF Pending
      <3>4. Rests(a, q)' = Rests(a, q)
        BY <3>1 DEF Rests
      <3> QED
        BY <3>1, <3>3, <3>4, CountsNow
    <2>3. CASE late = 1 /\ a = 0
      <3>1. score'[a][q] = 0 /\ metric'[a][q] = 0 /\ hits'[a][q] = 0
        BY <1>9, <1>10, <1>12, <2>3
      <3>2. Pending(ToScore, a, q)' = {} /\ Pending(ToMetric, a, q)' = {}
        <4>1. \A r \in Requests : req'[r].pc # "idle" => req'[r].minute # 0
          BY <1>6, <2>3
        <4> QED
          BY <2>3, <4>1, PcSets DEF Pending
      <3>3. \A p \in Processes : Rest(counter'[p][a][q]) = 0
        BY <1>9, <1>10, <1>12, <2>3, RestZero
      <3>4. Rests(a, q)' \in [Processes -> 0..BatchSize] /\ \A p \in Processes : Rests(a, q)'[p] = 0
        BY <2>1, <3>3, Constants
      <3> QED
        BY <3>1, <3>2, <3>4, BalanceZero
    <2>4. CASE late = 1 /\ a = 1
      <3>1. score'[a][q] = score[0][q] /\ metric'[a][q] = metric[0][q] /\ hits'[a][q] = hits[0][q]
        BY <1>9, <1>12, <2>4
      <3>2. ASSUME NEW pcs, "idle" \notin pcs PROVE Pending(pcs, a, q)' = Pending(pcs, 0, q)
        <4>1. \A r \in Requests : req[r].pc \in pcs =>
                  req'[r].pc \in pcs /\ req'[r].q = req[r].q /\ req'[r].minute = 1 /\ req[r].minute = 0
          BY <1>6, <2>4, <3>2
        <4>2. \A r \in Requests : req'[r].pc = req[r].pc
          BY <1>6
        <4> QED
          BY <2>4, <4>1, <4>2 DEF Pending
      <3>3. Rests(a, q)' = Rests(0, q)
        <4>1. \A p \in Processes : counter'[p][a][q] = counter[p][0][q]
          BY <1>9, <1>12, <2>4
        <4> QED
          BY <2>1, <4>1 DEF Rests
      <3>4. /\ Pending(ToScore, a, q)' = Pending(ToScore, 0, q)
            /\ Pending(ToMetric, a, q)' = Pending(ToMetric, 0, q)
        BY <3>2, PcSets
      <3> QED
        BY <1>9, <3>1, <3>3, <3>4, CountsNow
    <2> QED
      BY <1>1, <1>9, <2>2, <2>3, <2>4
  <1>17. HotInv'
    <2>1. ASSUME NEW a \in Ages, NEW q \in Queries, hits'[a][q] >= Threshold PROVE wasHot[q]
      <3>1. CASE late = 0
        <4>1. hits'[a][q] = hits[a][q]
          BY <1>4, <3>1
        <4> QED
          BY <2>1, <4>1 DEF HotInv
      <3>2. CASE late = 1
        <4>1. hits'[a] = (IF a = 0 THEN NoHits ELSE hits[a - 1]) /\ (a # 0 => a - 1 \in Ages)
          BY <1>9, <1>12, <3>2
        <4>2. CASE a = 0
          <5>1. hits'[a][q] = 0
            BY <1>10, <4>1, <4>2
          <5> QED
            BY <2>1, <5>1, Constants
        <4>3. CASE a # 0
          <5>1. hits'[a][q] = hits[a - 1][q] /\ a - 1 \in Ages
            BY <4>1, <4>3
          <5> QED
            BY <2>1, <5>1 DEF HotInv
        <4> QED
          BY <4>2, <4>3
      <3> QED
        BY <1>1, <3>1, <3>2
    <2>2. ASSUME NEW a \in SetAges, NEW q \in Queries, score'[a][q] >= Threshold PROVE wasHot[q]
      <3>1. CASE late = 0
        <4>1. score'[a][q] = score[a][q]
          BY <1>4, <3>1
        <4> QED
          BY <2>2, <4>1 DEF HotInv
      <3>2. CASE late = 1
        <4>1. score'[a] = (IF a = 0 THEN NoHits ELSE score[a - 1]) /\ (a # 0 => a - 1 \in SetAges)
          BY <1>9, <1>12, <3>2
        <4>2. CASE a = 0
          <5>1. score'[a][q] = 0
            BY <1>10, <4>1, <4>2
          <5> QED
            BY <2>2, <5>1, Constants
        <4>3. CASE a # 0
          <5>1. score'[a][q] = score[a - 1][q] /\ a - 1 \in SetAges
            BY <4>1, <4>3
          <5> QED
            BY <2>2, <5>1 DEF HotInv
        <4> QED
          BY <4>2, <4>3
      <3> QED
        BY <1>1, <3>1, <3>2
    <2>3. ASSUME NEW w \in Warmers, NEW q \in Queries,
                 job'[w][q].hot \/ job'[w][q].pc \in {"body", "post", "store"}
          PROVE  wasHot[q]
      <3>1. job[w][q].hot \/ job[w][q].pc \in {"body", "post", "store"}
        BY <1>7, <2>3
      <3> QED
        BY <3>1 DEF HotInv
    <2>4. ASSUME NEW q \in Queries, response'[q].left > 0
          PROVE  wasHot[q] /\ response'[q].age + response'[q].left <= ResponseTtl + MaxLatency
      <3>1. /\ response[q].left > 0
            /\ response'[q].age + response'[q].left = response[q].age + response[q].left
        BY <1>8, <2>4
      <3>2. wasHot[q] /\ response[q].age + response[q].left <= ResponseTtl + MaxLatency
        BY <3>1 DEF HotInv
      <3> QED
        BY <3>1, <3>2
    <2> QED
      BY <1>2, <2>1, <2>2, <2>3, <2>4 DEF HotInv
  <1>18. ExpiryInv'
    <2> SUFFICES ASSUME failures = 0
                 PROVE  /\ expires'[2] # "never"
                        /\ \A a \in Ages : Touched(a)' => expires'[a] = "later" \/ Owned(a)'
      BY <1>2 DEF ExpiryInv
    <2>1. /\ expires[2] # "never"
          /\ \A a \in Ages : Touched(a) => expires[a] = "later" \/ Owned(a)
      BY DEF ExpiryInv
    <2>2. CASE late = 0
      <3>1. UNCHANGED <<started, expires>>
        BY <1>4, <2>2
      <3>2. \A r \in Requests : req[r].pc # "idle" => req'[r].minute = req[r].minute
        BY <1>6, <2>2, RequestFields
      <3>3. ASSUME NEW a \in Ages, Touched(a)' PROVE expires'[a] = "later" \/ Owned(a)'
        <4>1. Touched(a)
          BY <1>6, <3>1, <3>2, <3>3 DEF Touched
        <4>2. Owned(a) => Owned(a)'
          BY <1>6, <3>2 DEF Owned
        <4> QED
          BY <2>1, <3>1, <4>1, <4>2
      <3> QED
        BY <2>1, <3>1, <3>3
    <2>3. CASE late = 1
      <3>1. expires'[2] = expires[1] /\ expires'[1] = expires[0] /\ expires'[0] = "missing"
        BY <1>9, <1>12, <2>3
      <3>2. expires[1] # "never"
        <4>1. ~Owned(1)
          BY <1>6, <2>3 DEF Owned
        <4> QED
          BY <1>9, <2>1, <4>1 DEF Touched
      <3>3. ~Touched(0)'
        <4>1. \A r \in Requests : req'[r].pc # "idle" => req'[r].minute # 0
          BY <1>6, <2>3
        <4>2. \A p \in Processes : ~started'[p]
          BY <1>12, <2>3
        <4> QED
          BY <3>1, <4>1, <4>2 DEF Touched
      <3>4. ASSUME Touched(1)' PROVE expires'[1] = "later" \/ Owned(1)'
        <4>1. Touched(0)
          <5>1. CASE expires'[1] = "never"
            BY <3>1, <5>1 DEF Touched
          <5>2. ASSUME NEW r \in Requests, req'[r].pc # "idle", req'[r].minute = 1 PROVE Touched(0)
            <6>1. req[r].pc # "idle" /\ req[r].minute = 0
              BY <1>6, <2>3, <5>2
            <6> QED
              BY <6>1 DEF Touched
          <5> QED
            BY <3>4, <5>1, <5>2 DEF Touched
        <4>2. Owned(0) => Owned(1)'
          BY <1>6, <2>3 DEF Owned
        <4> QED
          BY <1>9, <2>1, <3>1, <4>1, <4>2
      <3> QED
        BY <1>9, <3>1, <3>2, <3>3, <3>4
    <2> QED
      BY <1>1, <2>2, <2>3
  <1> QED
    BY <1>13, <1>14, <1>15, <1>16, <1>17, <1>18

--------------------------------------------------------------------------------
(* What always holds of the responses for guests.                          *)

\* Every step keeps the invariant.
LEMMA GuestStepInv == ASSUME GuestInv, [Next]_vars PROVE GuestInv'
  <1>1. ASSUME NEW r \in Requests, NEW p \in Processes, NEW q \in Queries, Arrive(r, p, q) PROVE GuestInv'
    BY <1>1, ArriveStep
  <1>2. ASSUME NEW r \in Requests,
               StoreBody(r) \/ Increment(r) \/ CountQueries(r) \/ CreateCounter(r) \/ SetTtl(r) \/ RequestFails(r)
        PROVE  GuestInv'
    BY <1>2, StoreBodyStep, IncrementStep, CountQueriesStep, ExpirySteps, GoneSteps
  <1>3. ASSUME NEW w \in Warmers, NEW q \in Queries,
               \/ ReadCurrent(w, q) \/ ReadPrevious(w, q) \/ GetBody(w, q)
               \/ Post(w, q) \/ Store(w, q) \/ JobFails(w, q)
        PROVE  GuestInv'
    BY <1>3, JobSteps
  <1>4. ASSUME NEW p \in Processes, Crash(p) PROVE GuestInv'
    BY <1>4, GoneSteps
  <1>5. ASSUME NEW q \in Queries, BodyExpires(q) PROVE GuestInv'
    BY <1>5, BodyExpiresStep
  <1>6. CASE Tick
    BY <1>6, TickStep
  <1>7. CASE UNCHANGED vars
    <2> USE DEF GuestInv
    <2>1. UNCHANGED <<phase, hits, counter, started, score, expires, metric, body, response,
                      req, job, wasHot, failures>>
      BY <1>7 DEF vars
    <2>2. CountsInv'
      <3>1. \A a \in Ages : \A k \in Queries :
                /\ Pending(ToScore, a, k)' = Pending(ToScore, a, k)
                /\ Pending(ToMetric, a, k)' = Pending(ToMetric, a, k)
                /\ Rests(a, k)' = Rests(a, k)
        BY <2>1 DEF Rests, Pending
      <3> QED
        BY <2>1, <3>1, CountsNow, CountsNext
    <2>3. TypeInv' /\ RequestsInv' /\ JobsInv' /\ HotInv'
      BY <2>1 DEF TypeInv, RequestsInv, JobsInv, HotInv
    <2>4. ExpiryInv'
      BY <2>1 DEF ExpiryInv, Touched, Owned
    <2> QED
      BY <2>2, <2>3, <2>4
  <1> QED
    BY <1>1, <1>2, <1>3, <1>4, <1>5, <1>6, <1>7 DEF Next

\* The invariant always holds.
LEMMA GuestAlwaysInv == Spec => []GuestInv
  <1>1. Init => GuestInv
    BY GuestInitInv
  <1>2. GuestInv /\ [Next]_vars => GuestInv'
    BY GuestStepInv
  <1> QED
    BY <1>1, <1>2, PTL DEF Spec

\* Neither the sorted set nor the metric of a minute counts a request that was not made, however
\* many processes count and whenever their counters are read: NeverOvercounts.
THEOREM CountsAreOfRequests == Spec => []NeverOvercounts
  <1>1. GuestInv => NeverOvercounts
    <2> SUFFICES ASSUME GuestInv PROVE NeverOvercounts
      OBVIOUS
    <2> USE DEF GuestInv
    <2>1. TypeOK
      <3>1. \A q \in Queries : response[q].age \in Nat /\ response[q].left \in 0..ResponseTtl
        BY DEF TypeInv, Responses
      <3>2. \A r \in Requests : req[r].pc \in RequestPCs /\ req[r].minute \in 0..1
        BY DEF TypeInv, RequestRecords
      <3>3. \A w \in Warmers, q \in Queries : job[w][q].pc \in JobPCs /\ job[w][q].minute \in 0..1
        <4> SUFFICES ASSUME NEW w \in Warmers, NEW q \in Queries
                     PROVE  job[w][q].pc \in JobPCs /\ job[w][q].minute \in 0..1
          OBVIOUS
        <4>1. job[w][q] \in JobRecords
          BY JobFields
        <4> QED
          BY <4>1 DEF JobRecords
      <3> QED
        BY <3>1, <3>2, <3>3 DEF TypeOK, TypeInv
    <2>2. ASSUME NEW a \in Ages, NEW q \in Queries
          PROVE  score[a][q] <= hits[a][q] /\ metric[a][q] <= hits[a][q]
      BY CountsNow, BalanceBound
    <2> QED
      BY <2>1, <2>2 DEF NeverOvercounts
  <1> QED
    BY <1>1, GuestAlwaysInv, PTL

\* Only queries that guests made often enough within a minute are warmed, and no response is served
\* that was computed longer ago than its time to live and the duration of a job.
THEOREM OnlyHotIsWarmed == Spec => []WarmedAreHotAndRecent
  <1>1. GuestInv => WarmedAreHotAndRecent
    BY DEF GuestInv, HotInv, WarmedAreHotAndRecent
  <1> QED
    BY <1>1, GuestAlwaysInv, PTL

\* Without failures, a sorted set that no request will touch again has a time to live.
THEOREM SetsAreForgotten == Spec => []CountersExpire
  <1>1. GuestInv => CountersExpire
    BY DEF GuestInv, ExpiryInv, CountersExpire
  <1> QED
    BY <1>1, GuestAlwaysInv, PTL
================================================================================
