--------------------------- MODULE MCEventsConsumer ---------------------------
(***************************************************************************)
(* EventsConsumer on two pairs: one listed from the start, one created by  *)
(* an event.  A block carries one or two events.                           *)
(***************************************************************************)
EXTENDS EventsConsumer

CONSTANTS p1, p2, h1, h2, token

Swap(p) == [name |-> "swap", address |-> p, pair |-> p]
CreatePair(p) == [name |-> "createPair", address |-> "router", pair |-> p]
EsdtMint(p) == [name |-> "esdt", address |-> "token", pair |-> p]

MCBlocks == {<<Swap(p1)>>, <<Swap(p1), Swap(p1)>>, <<Swap(p2), Swap(p1)>>,
             <<CreatePair(p2)>>, <<Swap(p1), CreatePair(p2)>>,
             <<CreatePair(p2), Swap(p1)>>, <<EsdtMint(p1), Swap(p1)>>}
===============================================================================
