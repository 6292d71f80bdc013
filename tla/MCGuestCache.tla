------------------------------ MODULE MCGuestCache ------------------------------
(* Model values, and the symmetry of requests.                             *)
EXTENDS GuestCache, TLC

CONSTANTS p1, r1, r2, w1, q1

MCRequests == Permutations({r1, r2})
================================================================================
