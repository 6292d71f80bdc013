----------------------------- MODULE MCWeeklyRewards -----------------------------
(***************************************************************************)
(* WeeklyRewards with weeks of two epochs and two lock options.            *)
(***************************************************************************)
EXTENDS WeeklyRewards

MCLockOptions == <<[epochs |-> 4, penalty |-> 40], [epochs |-> 7, penalty |-> 61]>>
================================================================================
