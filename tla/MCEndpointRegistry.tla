------------------------- MODULE MCEndpointRegistry -------------------------
(* Three endpoint addresses over two devices and two MCTP endpoints; one   *)
(* descriptor belongs to the application, which may close and reopen it.   *)
EXTENDS EndpointRegistry, TLC

CONSTANTS h1, h2, h3, mem0, mem1, eid8, eid9

MCHandles == {h1, h2, h3}
MCDevices == {mem0, mem1}
MCEids == {eid8, eid9}

\* Addresses, devices and endpoint ids are interchangeable.
Symmetry ==
  Permutations(MCHandles) \cup Permutations(MCDevices) \cup Permutations(MCEids)
=============================================================================
