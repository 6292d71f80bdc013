--------------------------------- MODULE PairMath ---------------------------------
(***************************************************************************)
(* The constant product formulas of pair.utils.  Amounts and reserves are  *)
(* numbers of the smallest unit of a token.  BigNumber divides to twenty   *)
(* decimals, here exactly, and its integerValue rounds half up.            *)
(***************************************************************************)
EXTENDS Integers

CONSTANTS
    BasePoints,   \* SWAP_FEE_PERCENT_BASE_POINTS
    Fee           \* total fee of a pair, in base points

ASSUME PairMathAssumption ==
    /\ BasePoints \in Nat \ {0}
    /\ Fee \in 0..(BasePoints - 1)

\* integerValue of n / d.
Rounded(n, d) == (2 * n + d) \div (2 * d)

\* What is left of an amount paid in, in base points.
WithFee(amount) == amount * (BasePoints - Fee)

\* The exact output is OutNumerator / OutDenominator.
OutNumerator(amountIn, reserveOut) == WithFee(amountIn) * reserveOut
OutDenominator(amountIn, reserveIn) == reserveIn * BasePoints + WithFee(amountIn)

GetAmountOut(amountIn, reserveIn, reserveOut) ==
    Rounded(OutNumerator(amountIn, reserveOut), OutDenominator(amountIn, reserveIn))

\* Fault: the quotient is rounded without the unit that makes up for it.
GetAmountInNearest(amountOut, reserveIn, reserveOut) ==
    IF amountOut >= reserveOut THEN 0
    ELSE Rounded(reserveIn * amountOut * BasePoints, WithFee(reserveOut - amountOut))

\* 0 is the answer of the code when the reserve is too small, and stands for the
\* infinite quotient when it is just enough.
GetAmountIn(amountOut, reserveIn, reserveOut) ==
    IF amountOut >= reserveOut THEN 0
    ELSE Rounded(reserveIn * amountOut * BasePoints + WithFee(reserveOut - amountOut),
                 WithFee(reserveOut - amountOut))

--------------------------------------------------------------------------------
\* An input suffices for an output when the exact output of the input is at least
\* that much, so that a contract that rounds down pays it.
Suffices(amountIn, amountOut, reserveIn, reserveOut) ==
    amountOut * OutDenominator(amountIn, reserveIn) <= OutNumerator(amountIn, reserveOut)
================================================================================
