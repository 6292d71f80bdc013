------------------------ MODULE MCTransactionProcessor ------------------------
(* The transactions of a second: none, one, or one that does not decode    *)
(* next to one that does.                                                  *)
EXTENDS TransactionProcessor

MCBlockTxs == {<<>>, <<"tracked">>, <<"other", "tracked">>, <<"tracked", "malformed">>,
               <<"malformed", "tracked">>}
===============================================================================
