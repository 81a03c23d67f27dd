----------------------------- MODULE EdgeCalls ------------------------------
(***************************************************************************)
(* The requests an edge agent serves, and what its answers promise.        *)
(***************************************************************************)
EXTENDS EdgeBox, Integers

CONSTANTS
    Addresses,
    Handlers,       \* requests the agent serves concurrently
    Calls,          \* the requests it may be sent
    NoCall,
    Unknown         \* what is promised of a key no ok answer speaks for

Interface == [Keys -> Addresses \cup {Nil, NoAddress}]

Peer == [key : Keys, ip : Addresses]

\* bad: which part of the request, if any, the agent finds malformed.
Call == [op : {"set", "remove", "sync"}, peers : SUBSET Peer,
         replaces : Keys \cup {Nil}, bad : {"none", "ip", "key"}]

\* The control plane sets and removes one peer at a time, and never hands out
\* an address of a box twice.
WellFormed(call) ==
    /\ call.op # "sync" => \E p \in Peer : call.peers = {p}
    /\ \A p, q \in call.peers : p.ip = q.ip => p = q

ASSUME ValuesAssumption ==
    /\ Nil \notin Keys \cup Addresses \cup Handlers /\ NoAddress \notin Addresses
    /\ Nil # NoAddress /\ Unknown \notin Addresses \cup {Nil, NoAddress}
    /\ Addresses \subseteq Nat

ASSUME CallsAssumption ==
    Calls \subseteq {call \in Call : WellFormed(call)} /\ NoCall \notin Calls

-----------------------------------------------------------------------------
\* The keys an ok answer to a call speaks for.
Named(call) == IF call.op = "sync" THEN Keys ELSE KeysOf(call.peers) \cup {call.replaces}

\* What is promised, p before, once an ok answer says that a call turned the
\* interface b into c: "it persists every change so a reboot doesn't quietly
\* disconnect everyone".
Kept(p, call, b, c) ==
    [k \in Keys |-> IF k \in Named(call) \/ c[k] # b[k] THEN c[k] ELSE p[k]]

\* Nothing is promised of what a call that was not answered ok has touched.
Broken(p, b, c) == [k \in Keys |-> IF c[k] # b[k] THEN Unknown ELSE p[k]]

=============================================================================
