----------------------------- MODULE MCRewardQuotes -----------------------------
(***************************************************************************)
(* RewardQuotes with the order of the times to live of the code: the block *)
(* for the shortest time, what the administrators set for the longest.     *)
(***************************************************************************)
EXTENDS RewardQuotes

MCLives == [k \in Keys \cup {"nonce"} |->
              IF k \in {"perBlock", "producing"} THEN 2 ELSE 1]
================================================================================
