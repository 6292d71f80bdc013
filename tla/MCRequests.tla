----------------------------- MODULE MCRequests -----------------------------
(* Every client's request, cron, handler and endpoint; the values a limit is stated for.     *)
EXTENDS Requests

MeasuredValues == {q[1] : q \in AgeLimits}
=============================================================================
