------------------------------ MODULE MCAutoRouter ------------------------------
(* Three tokens that all trade with each other, and two swaps of them.     *)
EXTENDS AutoRouter, TLC

CONSTANTS ab, bc, ac, r1

MCEnds == (ab :> <<"a", "b">>) @@ (bc :> <<"b", "c">>) @@ (ac :> <<"c", "a">>)

MCReserveSets == {<<20, 40>>, <<60, 30>>}

MCSwaps == {[type |-> "fixedInput", tokenIn |-> "a", tokenOut |-> "c", amount |-> 10],
            [type |-> "fixedOutput", tokenIn |-> "a", tokenOut |-> "c", amount |-> 5]}
===============================================================================
