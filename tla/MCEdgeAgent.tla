---------------------------- MODULE MCEdgeAgent -----------------------------
(***************************************************************************)
(* Bounded instance of EdgeAgent: the requests that hand the two addresses *)
(* from one key to the other in every way the control plane does, and one  *)
(* malformed request of each kind.                                         *)
(***************************************************************************)
EXTENDS EdgeAgent

CONSTANTS k1, k2

On(k, a) == [key |-> k, ip |-> a]

Request(op, P, r, bad) == [op |-> op, peers |-> P, replaces |-> r, bad |-> bad]

MCCalls ==
    {Request("set", {On(k1, 1)}, k1, "none"), Request("set", {On(k2, 1)}, k1, "none"),
     Request("set", {On(k2, 2)}, Nil, "none"), Request("remove", {On(k1, 1)}, Nil, "none"),
     Request("sync", {}, Nil, "none"), Request("sync", {On(k1, 1), On(k1, 2)}, Nil, "none"),
     Request("sync", {On(k1, 2), On(k2, 1)}, Nil, "none"),
     Request("sync", {On(k2, 2)}, Nil, "key"), Request("set", {On(k2, 2)}, k1, "ip")}

=============================================================================
