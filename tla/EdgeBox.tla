------------------------------ MODULE EdgeBox -------------------------------
(***************************************************************************)
(* The peers of one WireGuard interface and what each request of the       *)
(* control plane makes of them (edge/internal/wg).  An interface maps a    *)
(* key to its allowed-ip, to NoAddress (the peer is there, its address was *)
(* taken away) or to Nil (no such peer).  Giving a peer an allowed-ip      *)
(* takes it away from the peer that had it.                                *)
(*                                                                         *)
(* A call is a record with at least op, peers (a set of records with key   *)
(* and ip) and replaces.                                                   *)
(***************************************************************************)
EXTENDS Naturals, FiniteSets

CONSTANTS Keys, Nil, NoAddress

KeysOf(P) == {p.key : p \in P}
AddressesOf(P) == {p.ip : p \in P}

Empty == [k \in Keys |-> Nil]

\* wg set <interface> peer <key> remove, for the keys of K
Without(b, K) == [k \in Keys |-> IF k \in K THEN Nil ELSE b[k]]

\* wg set <interface> peer <key> allowed-ips <ip>, for the peers of P, which
\* have different keys and different addresses
With(b, P) ==
    [k \in Keys |->
        IF k \in KeysOf(P) THEN (CHOOSE p \in P : p.key = k).ip
        ELSE IF b[k] \in AddressesOf(P) THEN NoAddress ELSE b[k]]

\* The map Sync makes of the peers: of two with one key the last, by address.
Wanted(P) == {p \in P : \A o \in P : o.key = p.key => o.ip <= p.ip}

Extra(b, P) == {k \in Keys : b[k] # Nil} \ KeysOf(P)

\* wg.Client.SetPeer: the states of the interface, one after each command.
SetPeer(b, call) ==
    LET cleared == Without(b, {call.replaces} \ KeysOf(call.peers)) IN
    [done |-> With(cleared, call.peers), partial |-> {b, cleared}]

\* wg.Client.RemovePeer
Remove(b, call) == [done |-> Without(b, KeysOf(call.peers)), partial |-> {b}]

\* wg.Client.Sync: removals in any order, then additions in any order.
Sync(b, call) ==
    LET wanted  == Wanted(call.peers)
        extra   == Extra(b, call.peers)
        cleared == Without(b, extra)
    IN [done    |-> With(cleared, wanted),
        partial |-> {Without(b, K) : K \in SUBSET extra}
                    \cup {With(cleared, P) : P \in SUBSET wanted}]

Handle(b, call) ==
    CASE call.op = "set"    -> SetPeer(b, call)
      [] call.op = "remove" -> Remove(b, call)
      [] call.op = "sync"   -> Sync(b, call)

\* A handler that fails has run some of its commands; saving the interface to
\* disk is the last one, so all of them may have run.
Failed(b, call) == Handle(b, call).partial \cup {Handle(b, call).done}

\* PeerCount
Count(b) == Cardinality({k \in Keys : b[k] # Nil})

=============================================================================
