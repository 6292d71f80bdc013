------------------------------- MODULE SharedQuery -------------------------------
(***************************************************************************)
(* What the callers of one query may rely on.  At most one request is made *)
(* at a time, about what the call that started it asked; a call that comes *)
(* while it is in flight joins it; and its outcome, the answer or the      *)
(* error, comes at one moment, for all calls that wait and for no other.   *)
(* A call then gets its outcome whenever it goes on.                       *)
(***************************************************************************)
CONSTANTS
    Calls,
    Timestamps,   \* what they ask about
    Nothing,      \* no request in flight, or no outcome yet
    Failed        \* the outcome of a request that failed

VARIABLES
    asks,      \* asks[c]: what call c asks about, Nothing when there is no call
    waiting,   \* calls that wait for the request in flight
    outcome,   \* outcome[c]: what call c gets
    flying     \* what the request in flight is about

sharedVars == <<asks, waiting, outcome, flying>>

Init ==
    /\ asks = [c \in Calls |-> Nothing]
    /\ waiting = {}
    /\ outcome = [c \in Calls |-> Nothing]
    /\ flying = Nothing

Ask(c, t) ==
    /\ asks[c] = Nothing
    /\ asks' = [asks EXCEPT ![c] = t]
    /\ UNCHANGED <<waiting, outcome, flying>>

\* The call waits for the request in flight, and starts it when there is none.
Wait(c) ==
    /\ asks[c] # Nothing /\ c \notin waiting /\ outcome[c] = Nothing
    /\ waiting' = waiting \cup {c}
    /\ flying' = IF flying = Nothing THEN asks[c] ELSE flying
    /\ UNCHANGED <<asks, outcome>>

\* The request is over, for everybody at once.
Land(o) ==
    /\ flying # Nothing
    /\ outcome' = [c \in Calls |-> IF c \in waiting THEN o ELSE outcome[c]]
    /\ waiting' = {}
    /\ flying' = Nothing
    /\ UNCHANGED asks

Deliver(c) ==
    /\ outcome[c] # Nothing
    /\ asks' = [asks EXCEPT ![c] = Nothing]
    /\ outcome' = [outcome EXCEPT ![c] = Nothing]
    /\ UNCHANGED <<waiting, flying>>

Next ==
    \/ \E c \in Calls : Wait(c) \/ Deliver(c) \/ (\E t \in Timestamps : Ask(c, t))
    \/ \E o \in {flying, Failed} : Land(o)

Spec == Init /\ [][Next]_sharedVars
================================================================================
