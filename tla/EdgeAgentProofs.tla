-------------------------- MODULE EdgeAgentProofs --------------------------
(***************************************************************************)
(* Proofs about EdgeAgent, for any set of keys, addresses, handlers and    *)
(* well-formed requests: what the ok answers promise survives crashes and  *)
(* reboots, and handlers under the mutex implement requests that happen at *)
(* one instant (AtomicAgent).                                              *)
(***************************************************************************)
EXTENDS EdgeAgent, TLAPS

(***************************************************************************)
(* The interface                                                           *)
(***************************************************************************)
\* No address is on two peers.
NoSharing(b) == \A k, l \in Keys : b[k] = b[l] /\ b[k] \in Addresses => k = l

\* Peers that can be set one after the other: no key and no address twice.
Distinct(P) == P \subseteq Peer /\ \A p, q \in P : p.key = q.key \/ p.ip = q.ip => p = q

\* Taking peers off leaves an interface, and no address comes to be shared.
LEMMA WithoutFacts ==
    ASSUME NEW b \in Interface, NEW K
    PROVE  /\ Without(b, K) \in Interface
           /\ \A k \in Keys : Without(b, K)[k] = IF k \in K THEN Nil ELSE b[k]
           /\ NoSharing(b) => NoSharing(Without(b, K))
           /\ K \cap Keys = {} => Without(b, K) = b
           /\ \A L : Without(Without(b, K), L) = Without(b, K \cup L)
<1>1. Without(b, K) \in Interface /\ \A k \in Keys : Without(b, K)[k] = IF k \in K THEN Nil ELSE b[k]
  BY DEF Without, Interface
<1>2. NoSharing(b) => NoSharing(Without(b, K))
  BY <1>1, ValuesAssumption DEF NoSharing
<1>3. K \cap Keys = {} => Without(b, K) = b
  BY DEF Without, Interface
<1>4. \A L : Without(Without(b, K), L) = Without(b, K \cup L)
  BY DEF Without
<1> QED
  BY <1>1, <1>2, <1>3, <1>4

\* A peer that is set has its address; one whose address was given away has none.
LEMMA WithFacts ==
    ASSUME NEW b \in Interface, NEW P, Distinct(P)
    PROVE  /\ With(b, P) \in Interface
           /\ \A p \in P : With(b, P)[p.key] = p.ip
           /\ \A k \in Keys \ KeysOf(P) :
                 With(b, P)[k] = IF b[k] \in AddressesOf(P) THEN NoAddress ELSE b[k]
<1>1. \A p \in P : p.key \in Keys /\ p.ip \in Addresses
  BY DEF Distinct, Peer
<1>2. ASSUME NEW p \in P PROVE (CHOOSE q \in P : q.key = p.key) = p
  BY <1>2 DEF Distinct
<1>3. \A p \in P : With(b, P)[p.key] = p.ip
  BY <1>1, <1>2 DEF With, KeysOf
<1>4. \A k \in Keys \ KeysOf(P) :
         With(b, P)[k] = IF b[k] \in AddressesOf(P) THEN NoAddress ELSE b[k]
  BY DEF With
<1>5. \A k \in Keys : With(b, P)[k] \in Addresses \cup {Nil, NoAddress}
  <2> TAKE k \in Keys
  <2>1. CASE k \in KeysOf(P)
    BY <1>1, <1>3, <2>1 DEF KeysOf
  <2>2. CASE k \notin KeysOf(P)
    BY <1>4, <2>2 DEF Interface
  <2> QED
    BY <2>1, <2>2
<1>6. With(b, P) \in Interface
  BY <1>5 DEF With, Interface
<1> QED
  BY <1>3, <1>4, <1>6

\* Setting peers moves addresses, and shares none.
LEMMA WithSharesNone ==
    ASSUME NEW b \in Interface, NEW P, Distinct(P), NoSharing(b)
    PROVE  NoSharing(With(b, P))
<1> DEFINE c == With(b, P)
<1> SUFFICES ASSUME NEW k \in Keys, NEW l \in Keys, c[k] = c[l], c[k] \in Addresses
             PROVE  k = l
  BY DEF NoSharing
<1>1. \A x \in KeysOf(P) : \E p \in P : p.key = x /\ c[x] = p.ip /\ p.ip \in AddressesOf(P)
  BY WithFacts DEF KeysOf, AddressesOf
<1>2. \A x \in Keys \ KeysOf(P) : c[x] \in Addresses => c[x] = b[x] /\ b[x] \notin AddressesOf(P)
  BY WithFacts, ValuesAssumption
<1> HIDE DEF c
<1>3. CASE k \in KeysOf(P) /\ l \in KeysOf(P)
  BY <1>1, <1>3 DEF Distinct
<1>4. CASE k \notin KeysOf(P) /\ l \notin KeysOf(P)
  BY <1>2, <1>4 DEF NoSharing
<1> QED
  BY <1>1, <1>2, <1>3, <1>4

\* One peer more.
LEMMA WithOneMore ==
    ASSUME NEW b \in Interface, NEW P, NEW p, Distinct(P \cup {p})
    PROVE  With(With(b, P), {p}) = With(b, P \cup {p})
<1> DEFINE c == With(b, P)
<1>1. Distinct(P) /\ Distinct({p}) /\ p.key \in Keys /\ p.ip \in Addresses
  BY DEF Distinct, Peer
<1>2. c \in Interface
  BY <1>1, WithFacts
<1>3. KeysOf({p}) = {p.key} /\ AddressesOf({p}) = {p.ip}
      /\ KeysOf(P \cup {p}) = KeysOf(P) \cup {p.key}
      /\ AddressesOf(P \cup {p}) = AddressesOf(P) \cup {p.ip}
  BY DEF KeysOf, AddressesOf
<1>4. ASSUME NEW k \in Keys PROVE With(c, {p})[k] = With(b, P \cup {p})[k]
  <2>1. CASE k = p.key
    BY <1>1, <1>2, <2>1, WithFacts
  <2>2. CASE k # p.key /\ k \in KeysOf(P)
    <3>1. PICK q \in P : q.key = k
      BY <2>2 DEF KeysOf
    <3>2. c[k] = q.ip /\ With(b, P \cup {p})[k] = q.ip /\ q.ip # p.ip
      BY <1>1, <2>2, <3>1, WithFacts DEF Distinct
    <3> QED
      BY <1>1, <1>2, <1>3, <2>2, <3>2, WithFacts
  <2>3. CASE k # p.key /\ k \notin KeysOf(P)
    <3>1. c[k] = IF b[k] \in AddressesOf(P) THEN NoAddress ELSE b[k]
      BY <1>1, <2>3, WithFacts
    <3>2. With(c, {p})[k] = IF c[k] = p.ip THEN NoAddress ELSE c[k]
      <4>1. k \in Keys \ KeysOf({p}) /\ (c[k] \in AddressesOf({p}) <=> c[k] = p.ip)
        BY <1>3, <2>3
      <4> HIDE DEF c
      <4> QED
        BY <1>1, <1>2, <4>1, WithFacts
    <3>3. With(b, P \cup {p})[k]
            = IF b[k] \in AddressesOf(P) \cup {p.ip} THEN NoAddress ELSE b[k]
      BY <1>3, <2>3, WithFacts
    <3> QED
      BY <1>1, <3>1, <3>2, <3>3, ValuesAssumption
  <2> QED
    BY <2>1, <2>2, <2>3
<1> QED
  BY <1>4 DEF With

\* Setting peers that are there already changes nothing, if no address is shared.
LEMMA WithPresent ==
    ASSUME NEW b \in Interface, NoSharing(b), NEW P, Distinct(P), \A p \in P : b[p.key] = p.ip
    PROVE  With(b, P) = b
<1>1. ASSUME NEW k \in Keys PROVE With(b, P)[k] = b[k]
  <2>1. CASE k \in KeysOf(P)
    BY <2>1, WithFacts DEF KeysOf
  <2>2. CASE k \notin KeysOf(P)
    <3>1. b[k] \notin AddressesOf(P)
      BY <2>2 DEF AddressesOf, KeysOf, NoSharing, Distinct, Peer
    <3> QED
      BY <2>2, <3>1, WithFacts
  <2> QED
    BY <2>1, <2>2
<1> QED
  BY <1>1, WithFacts DEF Interface

\* The peers of a request can be set one after the other: of those with one key
\* Sync takes one.
LEMMA RequestFacts ==
    ASSUME NEW call \in Calls
    PROVE  /\ call \in Call /\ WellFormed(call)
           /\ call.op # "sync" => Distinct(call.peers)
           /\ Distinct(Wanted(call.peers))
<1>1. call \in Call /\ WellFormed(call)
  BY CallsAssumption
<1>2. call.peers \subseteq Peer
  BY <1>1 DEF Call
<1>3. call.op # "sync" => Distinct(call.peers)
  BY <1>1, <1>2 DEF WellFormed, Distinct
<1>4. ASSUME NEW p \in Wanted(call.peers), NEW q \in Wanted(call.peers), p.key = q.key \/ p.ip = q.ip
      PROVE  p = q
  <2>1. p \in call.peers /\ q \in call.peers /\ p.ip \in Nat /\ q.ip \in Nat
    BY <1>2, ValuesAssumption DEF Wanted, Peer
  <2>2. p.ip = q.ip
    BY <1>4, <2>1 DEF Wanted
  <2> QED
    BY <1>1, <2>1, <2>2 DEF WellFormed
<1> QED
  BY <1>1, <1>2, <1>3, <1>4 DEF Distinct, Wanted

\* What each request makes of the interface, when it ends and on the way.
LEMMA HandleFacts ==
    ASSUME NEW b \in Interface, NEW call \in Calls
    PROVE  /\ call.op = "set" =>
                /\ Handle(b, call).done = With(Without(b, {call.replaces} \ KeysOf(call.peers)), call.peers)
                /\ Failed(b, call) = {b, Without(b, {call.replaces} \ KeysOf(call.peers)),
                                     Handle(b, call).done}
           /\ call.op = "remove" =>
                /\ Handle(b, call).done = Without(b, KeysOf(call.peers))
                /\ Failed(b, call) = {b, Handle(b, call).done}
           /\ call.op = "sync" =>
                /\ Handle(b, call).done = With(Without(b, Extra(b, call.peers)), Wanted(call.peers))
                /\ Failed(b, call) =
                      {Without(b, K) : K \in SUBSET Extra(b, call.peers)}
                      \cup {With(Without(b, Extra(b, call.peers)), P) : P \in SUBSET Wanted(call.peers)}
                      \cup {Handle(b, call).done}
           /\ call.op \in {"set", "remove", "sync"}
<1>1. call.op = "set" => Handle(b, call) = SetPeer(b, call)
  BY DEF Handle
<1>2. call.op = "remove" => Handle(b, call) = Remove(b, call)
  BY DEF Handle
<1>3. call.op = "sync" => Handle(b, call) = Sync(b, call)
  BY DEF Handle
<1>4. call.op \in {"set", "remove", "sync"}
  BY RequestFacts DEF Call
<1> QED
  BY <1>1, <1>2, <1>3, <1>4 DEF Failed, SetPeer, Remove, Sync

\* Whatever a request leaves is an interface on which no address is shared.
LEMMA FailedFacts ==
    ASSUME NEW b \in Interface, NoSharing(b), NEW call \in Calls
    PROVE  /\ Handle(b, call).done \in Failed(b, call) /\ b \in Failed(b, call)
           /\ \A c \in Failed(b, call) : c \in Interface /\ NoSharing(c)
<1>1. Handle(b, call).done \in Failed(b, call)
  BY DEF Failed
<1>2. \A K : Without(b, K) \in Interface /\ NoSharing(Without(b, K))
  BY WithoutFacts
<1>3. \A K, P : Distinct(P) => /\ With(Without(b, K), P) \in Interface
                              /\ NoSharing(With(Without(b, K), P))
  BY <1>2, WithFacts, WithSharesNone
<1>4. CASE call.op = "set"
  <2>1. PICK K : Failed(b, call) = {b, Without(b, K), Handle(b, call).done}
                 /\ Handle(b, call).done = With(Without(b, K), call.peers)
    BY <1>4, HandleFacts
  <2>2. Distinct(call.peers)
    BY <1>4, RequestFacts
  <2>3. Handle(b, call).done \in Interface /\ NoSharing(Handle(b, call).done)
    BY <1>3, <2>1, <2>2
  <2> QED
    BY <1>1, <1>2, <2>1, <2>3
<1>5. CASE call.op = "remove"
  <2>1. PICK K : /\ Failed(b, call) = {b, Handle(b, call).done}
                 /\ Handle(b, call).done = Without(b, K)
    BY <1>5, HandleFacts
  <2> QED
    BY <1>1, <1>2, <2>1
<1>6. CASE call.op = "sync"
  <2> DEFINE X == Extra(b, call.peers)
             W == Wanted(call.peers)
  <2>1. \A P \in SUBSET W : Distinct(P)
    BY RequestFacts DEF Distinct
  <2>2. /\ Handle(b, call).done = With(Without(b, X), W)
        /\ Failed(b, call) = {Without(b, K) : K \in SUBSET X}
                              \cup {With(Without(b, X), P) : P \in SUBSET W}
                              \cup {Handle(b, call).done}
    BY <1>6, HandleFacts
  <2> HIDE DEF X, W
  <2>3. b = Without(b, {})
    BY WithoutFacts
  <2>4. b \in Failed(b, call)
    BY <2>2, <2>3
  <2>5. ASSUME NEW c \in Failed(b, call) PROVE c \in Interface /\ NoSharing(c)
    <3>1. CASE \E K \in SUBSET X : c = Without(b, K)
      BY <1>2, <3>1
    <3>2. CASE \E P \in SUBSET W : c = With(Without(b, X), P)
      BY <1>3, <2>1, <3>2
    <3>3. CASE c = Handle(b, call).done
      BY <1>3, <2>1, <2>2, <3>3
    <3> QED
      BY <2>2, <2>5, <3>1, <3>2, <3>3
  <2> QED
    BY <1>1, <2>4, <2>5
<1> QED
  BY <1>1, <1>4, <1>5, <1>6, HandleFacts

(***************************************************************************)
(* The invariant                                                           *)
(***************************************************************************)
\* A malformed request runs no command that changes anything.
Places(r) ==
    /\ r.pc = "bad" => r.call.bad # "none"
    /\ r.pc \in {"lock", "list"} => r.call.bad # "ip"
    /\ r.pc \in {"replace", "set", "remove", "sync", "save"} => r.call.bad = "none"

\* Sync is left with these peers to remove and these to set: while there are
\* any to remove none was set.
Syncing(r, b, x) ==
    LET extra == Extra(b, r.call.peers)  wanted == Wanted(r.call.peers) IN
    \/ /\ r.drop # {} /\ r.drop \subseteq extra /\ r.add = Missing(b, r.call)
       /\ x = Without(b, extra \ r.drop)
    \/ /\ r.drop = {} /\ r.add \subseteq wanted
       /\ x = With(Without(b, extra), wanted \ r.add)

\* How far the handler r has got with the interface b, of which it has made x.
Progress(r, b, x) ==
    LET cleared == Without(b, {r.call.replaces} \ KeysOf(r.call.peers)) IN
    /\ r.pc \in {"bad", "list", "remove", "replace"} => x = b
    /\ r.pc \in {"list", "sync"} => r.call.op = "sync"
    /\ r.pc = "remove" => r.call.op = "remove"
    /\ r.pc \in {"replace", "set"} => r.call.op = "set"
    /\ r.pc = "replace" => r.call.replaces \notin KeysOf(r.call.peers)
    /\ r.pc = "set" => x = cleared
    /\ r.pc = "save" => r.call.op # "sync" /\ x = Handle(b, r.call).done
    /\ r.pc = "sync" => Syncing(r, b, x)

AgentInv ==
    /\ AgentTypeOK /\ AcknowledgedSurvives
    /\ NoSharing(box) /\ NoSharing(file) /\ NoSharing(before)
    /\ \A h \in Handlers : Places(handler[h])
    /\ mu # Nil => Progress(handler[mu], before, box)

\* The handler that holds the mutex.
LEMMA HolderFacts ==
    ASSUME AgentInv, NEW h \in Handlers, mu = h
    PROVE  /\ mu # Nil /\ Progress(handler[h], before, box) /\ Places(handler[h])
           /\ handler[h] \in HandlerState /\ CallOf(h) \in Calls
           /\ Pc(h) \in InCommands \cup {"bad"}
           /\ before \in Interface /\ box \in Interface /\ file \in Interface
           /\ NoSharing(before) /\ NoSharing(file)
           /\ handler[h].call = CallOf(h) /\ handler[h].pc = Pc(h)
<1>1. mu # Nil
  BY ValuesAssumption
<1>2. Pc(h) \in InCommands \cup {"bad"} /\ handler[h] \in HandlerState /\ CallOf(h) # NoCall
  BY DEF AgentInv, AgentTypeOK, InCommands
<1>3. CallOf(h) \in Calls
  BY <1>2 DEF HandlerState, CallOf
<1> QED
  BY <1>1, <1>2, <1>3 DEF AgentInv, AgentTypeOK, CallOf, Pc

\* Peers that are on the interface under their address stay when others are
\* removed, so that setting them again would change nothing.
LEMMA ClearedAndPresent ==
    ASSUME NEW b \in Interface, NoSharing(b), NEW call \in Calls
    PROVE  LET cleared == Without(b, Extra(b, call.peers)) IN
           With(cleared, Wanted(call.peers) \ Missing(b, call)) = cleared
<1> DEFINE cleared == Without(b, Extra(b, call.peers))
           P == Wanted(call.peers) \ Missing(b, call)
<1>1. cleared \in Interface /\ NoSharing(cleared)
  BY WithoutFacts
<1>2. Distinct(P)
  BY RequestFacts DEF Distinct
<1>3. ASSUME NEW p \in P PROVE cleared[p.key] = p.ip
  <2>1. p.key \in Keys /\ b[p.key] = p.ip /\ p.key \notin Extra(b, call.peers)
    BY <1>2 DEF Distinct, Peer, Missing, Extra, KeysOf, Wanted
  <2> QED
    BY <2>1, WithoutFacts
<1> HIDE DEF cleared, P
<1>4. With(cleared, P) = cleared
  BY <1>1, <1>2, <1>3, WithPresent
<1> QED
  BY <1>4 DEF cleared, P

\* The interface half-way is one the request might leave by failing.
LEMMA HalfWay ==
    ASSUME AgentInv, NEW h \in Handlers, mu = h PROVE box \in Failed(before, CallOf(h))
<1> DEFINE call == CallOf(h)
<1>1. before \in Interface /\ NoSharing(before) /\ call \in Calls /\ handler[h].call = call
      /\ Progress(handler[h], before, box) /\ handler[h].pc = Pc(h)
      /\ Pc(h) \in InCommands \cup {"bad"}
  BY HolderFacts
<1> SUFFICES box \in Failed(before, call)
  OBVIOUS
<1> HIDE DEF call
<1>2. CASE Pc(h) \in {"bad", "list", "remove", "replace"}
  BY <1>1, <1>2, FailedFacts DEF Progress
<1>3. CASE Pc(h) = "set"
  BY <1>1, <1>3, HandleFacts DEF Progress
<1>4. CASE Pc(h) = "save"
  BY <1>1, <1>4, FailedFacts DEF Progress
<1>5. CASE Pc(h) = "sync"
  <2>1. Syncing(handler[h], before, box) /\ call.op = "sync"
    BY <1>1, <1>5 DEF Progress
  <2> DEFINE X == Extra(before, call.peers)
             W == Wanted(call.peers)
  <2>2. \/ \E K \in SUBSET X : box = Without(before, K)
        \/ \E P \in SUBSET W : box = With(Without(before, X), P)
    BY <1>1, <2>1 DEF Syncing
  <2>3. Failed(before, call) = {Without(before, K) : K \in SUBSET X}
                               \cup {With(Without(before, X), P) : P \in SUBSET W}
                               \cup {Handle(before, call).done}
    BY <1>1, <2>1, HandleFacts
  <2> HIDE DEF X, W
  <2> QED
    BY <2>2, <2>3
<1> QED
  BY <1>1, <1>2, <1>3, <1>4, <1>5 DEF InCommands

\* What the next command makes of it is one too, and so is what was saved.
LEMMA AfterIsFailed ==
    ASSUME AgentInv, NEW h \in Handlers, mu = h
    PROVE  /\ After(h) \subseteq Failed(before, CallOf(h))
           /\ Saving(h) => box = Handle(before, CallOf(h)).done
           /\ Saving(h) \/ After(h) # {} => CallOf(h).bad = "none"
<1> DEFINE call == CallOf(h)
           r == handler[h]
<1>1. before \in Interface /\ NoSharing(before) /\ call \in Calls /\ r.call = call
      /\ Progress(r, before, box) /\ r.pc = Pc(h) /\ Places(r)
      /\ Pc(h) \in InCommands \cup {"bad"}
  BY HolderFacts
<1>2. Saving(h) \/ After(h) # {} => call.bad = "none"
  BY <1>1 DEF Saving, After, Places
<1>3. CASE Pc(h) \in {"bad", "list"}
  BY <1>2, <1>3 DEF After, Saving
<1>4. CASE Pc(h) = "replace"
  <2>1. box = before /\ call.op = "set" /\ {call.replaces} \ KeysOf(call.peers) = {call.replaces}
    BY <1>1, <1>4 DEF Progress
  <2>2. After(h) = {Without(box, {call.replaces})} /\ ~Saving(h)
    BY <1>4 DEF After, Saving
  <2> QED
    BY <1>1, <1>2, <2>1, <2>2, HandleFacts
<1>5. CASE Pc(h) = "set"
  <2>1. call.op = "set" /\ box = Without(before, {call.replaces} \ KeysOf(call.peers))
    BY <1>1, <1>5 DEF Progress
  <2>2. After(h) = {With(box, call.peers)} /\ ~Saving(h)
    BY <1>5 DEF After, Saving
  <2> QED
    BY <1>1, <1>2, <2>1, <2>2, HandleFacts
<1>6. CASE Pc(h) = "remove"
  <2>1. call.op = "remove" /\ box = before
    BY <1>1, <1>6 DEF Progress
  <2>2. After(h) = {Without(box, KeysOf(call.peers))} /\ ~Saving(h)
    BY <1>6 DEF After, Saving
  <2> QED
    BY <1>1, <1>2, <2>1, <2>2, HandleFacts
<1>7. CASE Pc(h) = "save"
  BY <1>1, <1>2, <1>7 DEF Progress, After, Saving
<1>8. CASE Pc(h) = "sync"
  <2> DEFINE X == Extra(before, call.peers)
             W == Wanted(call.peers)
  <2>1. call.op = "sync" /\ Syncing(r, before, box)
    BY <1>1, <1>8 DEF Progress
  <2>2. /\ Handle(before, call).done = With(Without(before, X), W)
        /\ \A K \in SUBSET X : Without(before, K) \in Failed(before, call)
        /\ \A P \in SUBSET W : With(Without(before, X), P) \in Failed(before, call)
    <3>1. /\ Handle(before, call).done = With(Without(before, X), W)
          /\ Failed(before, call) = {Without(before, K) : K \in SUBSET X}
                                   \cup {With(Without(before, X), P) : P \in SUBSET W}
                                   \cup {Handle(before, call).done}
      BY <1>1, <2>1, HandleFacts
    <3> HIDE DEF X, W
    <3> QED
      BY <3>1
  <2>3. CASE r.drop # {}
    <3>1. r.drop \subseteq X /\ box = Without(before, X \ r.drop)
      BY <1>1, <2>1, <2>3 DEF Syncing
    <3>2. After(h) = {Without(box, {k}) : k \in r.drop} /\ ~Saving(h)
      BY <1>8, <2>3 DEF After, Saving
    <3>3. \A k \in r.drop : Without(box, {k}) = Without(before, (X \ r.drop) \cup {k})
      BY <1>1, <3>1, WithoutFacts
    <3> HIDE DEF X, W, r
    <3>4. \A k \in r.drop : Without(box, {k}) \in Failed(before, call)
      BY <2>2, <3>1, <3>3
    <3> QED
      BY <1>2, <3>2, <3>4
  <2>4. CASE r.drop = {}
    <3>1. r.add \subseteq W /\ box = With(Without(before, X), W \ r.add)
      BY <1>1, <2>1, <2>4 DEF Syncing
    <3>2. After(h) = {With(box, {p}) : p \in r.add} /\ (Saving(h) => r.add = {})
      BY <1>8, <2>4 DEF After, Saving
    <3>3. Distinct(W) /\ Without(before, X) \in Interface
      BY <1>1, RequestFacts, WithoutFacts
    <3> HIDE DEF X, W, r
    <3>4. ASSUME NEW p \in r.add
          PROVE  With(box, {p}) = With(Without(before, X), (W \ r.add) \cup {p})
      <4>1. Distinct((W \ r.add) \cup {p})
        BY <3>1, <3>3 DEF Distinct
      <4> QED
        BY <3>1, <3>3, <4>1, WithOneMore
    <3>5. \A p \in r.add : With(box, {p}) \in Failed(before, call)
      BY <2>2, <3>1, <3>4
    <3>6. Saving(h) => box = Handle(before, call).done
      BY <2>2, <3>1, <3>2
    <3> QED
      BY <1>2, <3>2, <3>5, <3>6
  <2> QED
    BY <2>3, <2>4
<1> QED
  BY <1>1, <1>3, <1>4, <1>5, <1>6, <1>7, <1>8 DEF InCommands

\* AtomicAgent means the same by the operators of EdgeBox and EdgeCalls.
LEMMA SameOperators ==
    /\ \A b, call : Atomic!Handle(b, call) = Handle(b, call) /\ Atomic!Failed(b, call) = Failed(b, call)
    /\ \A p, call, b, c : Atomic!Kept(p, call, b, c) = Kept(p, call, b, c)
    /\ \A p, b, c : Atomic!Broken(p, b, c) = Broken(p, b, c)
    /\ Atomic!Empty = Empty
<1>1. \A b, call : Atomic!Handle(b, call) = Handle(b, call)
  BY DEF Atomic!Handle, Handle, Atomic!SetPeer, SetPeer, Atomic!Remove, Remove, Atomic!Sync, Sync,
         Atomic!With, With, Atomic!Without, Without, Atomic!Wanted, Wanted, Atomic!Extra, Extra,
         Atomic!KeysOf, KeysOf, Atomic!AddressesOf, AddressesOf
<1>2. \A b, call : Atomic!Failed(b, call) = Failed(b, call)
  BY <1>1 DEF Atomic!Failed, Failed
<1>3. \A p, call, b, c : Atomic!Kept(p, call, b, c) = Kept(p, call, b, c)
  BY DEF Atomic!Kept, Kept, Atomic!Named, Named, Atomic!KeysOf, KeysOf
<1>4. \A p, b, c : Atomic!Broken(p, b, c) = Broken(p, b, c)
  BY DEF Atomic!Broken, Broken
<1>5. Atomic!Empty = Empty
  BY DEF Atomic!Empty, Empty
<1> QED
  BY <1>1, <1>2, <1>3, <1>4, <1>5

\* How a command that does not succeed leaves the interface and the file is how
\* the request as a whole may stop.
LEMMA CutsAreStops ==
    ASSUME AgentInv, NEW h \in Handlers, mu = h, NEW c \in Cuts(h)
    PROVE  /\ c[1] \in Interface /\ c[2] \in Interface /\ NoSharing(c[1]) /\ NoSharing(c[2])
           /\ c[2] \in {file, c[1]}
           /\ c \in Atomic!Stops(CallOf(h))
<1> DEFINE call == CallOf(h)
<1>1. before \in Interface /\ NoSharing(before) /\ call \in Calls /\ file \in Interface
      /\ NoSharing(file) /\ mu # Nil
  BY HolderFacts
<1>2. box \in Failed(before, call) /\ After(h) \subseteq Failed(before, call)
      /\ (Saving(h) => box = Handle(before, call).done)
      /\ (Saving(h) \/ After(h) # {} => call.bad = "none")
  BY HalfWay, AfterIsFailed
<1>3. \/ c[1] \in {box} \cup After(h) /\ c = <<c[1], file>>
      \/ Saving(h) /\ c = <<box, box>>
  BY DEF Cuts
<1>4. c[1] \in Failed(before, call) /\ c[2] \in {file, c[1]}
  BY <1>2, <1>3
<1>5. c[1] \in Interface /\ NoSharing(c[1])
  BY <1>1, <1>4, FailedFacts
<1>6. Atomic!Stops(call) = IF call.bad # "none" THEN {<<before, file>>}
                           ELSE {<<b, file>> : b \in Failed(before, call)}
                                \cup {<<Handle(before, call).done, Handle(before, call).done>>}
  <2>1. Visible = before
    BY <1>1 DEF Visible
  <2> HIDE DEF call
  <2> QED
    BY <2>1, SameOperators DEF Atomic!Stops
<1>7. call.bad # "none" => box = before
  BY HolderFacts, <1>1 DEF Places, Progress, InCommands
<1> HIDE DEF call
<1>8. c \in Atomic!Stops(call)
  BY <1>2, <1>3, <1>4, <1>6, <1>7
<1> QED
  BY <1>1, <1>4, <1>5, <1>8 DEF call

(***************************************************************************)
(* Every step keeps the invariant                                          *)
(***************************************************************************)
\* What is promised stays an address, none, or nothing.
LEMMA PromiseTypes ==
    ASSUME AgentTypeOK, NEW b, NEW c \in Interface
    PROVE  /\ \A call : Kept(promised, call, b, c) \in [Keys -> Addresses \cup {Nil, NoAddress, Unknown}]
           /\ Broken(promised, b, c) \in [Keys -> Addresses \cup {Nil, NoAddress, Unknown}]
           /\ Broken(promised, b, b) = promised
  BY DEF AgentTypeOK, Kept, Broken, Interface

\* One handler moves on.
LEMMA HandlerMoves ==
    ASSUME AgentTypeOK, \A x \in Handlers : Places(handler[x]),
           NEW h \in Handlers, NEW n \in HandlerState, handler' = [handler EXCEPT ![h] = n],
           n.pc = "idle" <=> n.call = NoCall, Places(n),
           n.pc \in InCommands => mu' = h,
           mu' = h => n.pc \in InCommands \cup {"bad"},
           mu' = mu \/ {mu, mu'} \subseteq {h, Nil},
           box' \in Interface, file' \in Interface, before' \in Interface,
           promised' \in [Keys -> Addresses \cup {Nil, NoAddress, Unknown}]
    PROVE  AgentTypeOK' /\ (\A x \in Handlers : Places(handler[x]))'
<1>1. handler' \in [Handlers -> HandlerState] /\ handler'[h] = n
      /\ \A x \in Handlers : x # h => handler'[x] = handler[x]
  BY DEF AgentTypeOK
<1>2. mu' \in Handlers \cup {Nil} /\ Nil \notin Handlers
  BY ValuesAssumption DEF AgentTypeOK
<1>3. ASSUME NEW x \in Handlers
      PROVE  /\ handler'[x].pc = "idle" <=> handler'[x].call = NoCall
             /\ handler'[x].pc \in InCommands => mu' = x
             /\ mu' = x => handler'[x].pc \in InCommands \cup {"bad"}
             /\ Places(handler'[x])
  <2>1. CASE x = h
    BY <1>1, <2>1
  <2>2. CASE x # h
    BY <1>1, <1>2, <2>2 DEF AgentTypeOK, Pc, CallOf
  <2> QED
    BY <2>1, <2>2
<1> QED
  BY <1>1, <1>2, <1>3 DEF AgentTypeOK, Pc, CallOf

\* Idle handlers are in order.
LEMMA IdleFacts ==
    /\ Idle \in HandlerState /\ Idle.pc = "idle" /\ Idle.call = NoCall /\ Places(Idle)
    /\ Empty \in Interface /\ NoSharing(Empty)
  BY ValuesAssumption DEF Idle, HandlerState, Places, InCommands, Empty, Interface, NoSharing

\* A request comes in: its handler holds no mutex.
LEMMA ReceiveKeepsInv ==
    ASSUME AgentInv, NEW h \in Handlers, NEW call \in Calls, Receive(h, call) PROVE AgentInv'
<1> DEFINE n == [Idle EXCEPT !.pc = IF call.bad = "ip" THEN "bad" ELSE "lock", !.call = call]
<1>1. n \in HandlerState /\ n.call = call /\ n.pc = (IF call.bad = "ip" THEN "bad" ELSE "lock")
  BY DEF Idle, HandlerState
<1>2. call # NoCall
  BY CallsAssumption
<1>3. Places(n) /\ n.pc \in {"bad", "lock"} /\ n.call # NoCall
  BY <1>1, <1>2 DEF Places
<1>4. mu # h /\ handler' = [handler EXCEPT ![h] = n] /\ UNCHANGED <<box, file, mu, before, promised>>
  BY DEF Receive, AgentInv, AgentTypeOK, InCommands
<1> HIDE DEF n
<1>5. AgentTypeOK' /\ (\A x \in Handlers : Places(handler[x]))'
  BY <1>1, <1>3, <1>4, HandlerMoves DEF AgentInv, AgentTypeOK, InCommands
<1>6. mu # Nil => handler'[mu] = handler[mu]
  BY <1>4 DEF AgentInv, AgentTypeOK
<1> QED
  BY <1>4, <1>5, <1>6 DEF AgentInv, AcknowledgedSurvives, Visible, NoSharing

\* The mutex is taken: the interface is as it was, and the handler at its first
\* command.
LEMMA LockKeepsInv ==
    ASSUME AgentInv, NEW h \in Handlers, Lock(h) PROVE AgentInv'
<1> DEFINE call == CallOf(h)
           n == [handler[h] EXCEPT !.pc = First(call)]
<1>1. Pc(h) = "lock" /\ mu = Nil /\ mu' = h /\ before' = box /\ UNCHANGED <<box, file, promised>>
      /\ handler' = [handler EXCEPT ![h] = n] /\ mu' # Nil
  BY ValuesAssumption DEF Lock, Goto
<1>2. handler[h] \in HandlerState /\ call \in Calls /\ call # NoCall /\ call.bad # "ip"
      /\ Places(handler[h])
  BY <1>1 DEF AgentInv, AgentTypeOK, HandlerState, Pc, CallOf, Places
<1>3. call.op \in {"set", "remove", "sync"} /\ call.bad \in {"none", "ip", "key"}
  BY <1>2, RequestFacts DEF Call
<1> HIDE DEF call
<1>4. /\ First(call) \in {"list", "bad", "set", "replace", "remove"}
      /\ First(call) = "list" <=> call.op = "sync"
      /\ First(call) = "bad" => call.bad = "key" /\ call.op # "sync"
      /\ First(call) = "remove" => call.op = "remove" /\ call.bad = "none"
      /\ First(call) \in {"set", "replace"} => call.op = "set" /\ call.bad = "none"
      /\ First(call) = "set" => call.replaces \in {Nil} \cup KeysOf(call.peers)
      /\ First(call) = "replace" => call.replaces \notin KeysOf(call.peers)
  BY <1>2, <1>3 DEF First
<1>5. n.pc = First(call) /\ n.call = call /\ n \in HandlerState
  BY <1>2, <1>4 DEF HandlerState, CallOf, InCommands, call
<1>6. Places(n)
  BY <1>2, <1>4, <1>5 DEF Places
<1>7. box \in Interface /\ NoSharing(box)
  BY DEF AgentInv, AgentTypeOK
<1>8. First(call) = "set" => Without(box, {call.replaces} \ KeysOf(call.peers)) = box
  <2>1. ASSUME First(call) = "set" PROVE ({call.replaces} \ KeysOf(call.peers)) \cap Keys = {}
    BY <1>4, <2>1, ValuesAssumption
  <2> QED
    BY <1>7, <2>1, WithoutFacts
<1> HIDE DEF n
<1>9. Progress(n, box, box)
  BY <1>4, <1>5, <1>8 DEF Progress
<1>10. AgentTypeOK' /\ (\A x \in Handlers : Places(handler[x]))'
  BY <1>1, <1>2, <1>4, <1>5, <1>6, <1>7, HandlerMoves DEF AgentInv, AgentTypeOK, InCommands
<1>11. handler'[mu'] = n
  BY <1>1 DEF AgentInv, AgentTypeOK
<1> QED
  BY <1>1, <1>9, <1>10, <1>11 DEF AgentInv, AcknowledgedSurvives, Visible, NoSharing

\* A handler that ends gives the mutex back.
LEMMA AnswerFacts ==
    ASSUME AgentInv, NEW h \in Handlers, Answer(h),
           box' \in Interface, file' \in Interface,
           promised' \in [Keys -> Addresses \cup {Nil, NoAddress, Unknown}]
    PROVE  /\ AgentTypeOK' /\ (\A x \in Handlers : Places(handler[x]))'
           /\ handler' = [handler EXCEPT ![h] = Idle]
           /\ mu = h => mu' = Nil /\ before' = Empty
           /\ mu # h => mu' = mu /\ before' = before
           /\ mu' # Nil => handler'[mu'] = handler[mu]
           /\ NoSharing(before)'
<1>1. /\ handler' = [handler EXCEPT ![h] = Idle]
      /\ mu = h => mu' = Nil /\ before' = Empty
      /\ mu # h => mu' = mu /\ before' = before
  BY DEF Answer
<1>2. before' \in Interface /\ NoSharing(before)'
  BY <1>1, IdleFacts DEF AgentInv, AgentTypeOK, NoSharing
<1>3. AgentTypeOK' /\ (\A x \in Handlers : Places(handler[x]))'
  BY <1>1, <1>2, IdleFacts, ValuesAssumption, HandlerMoves DEF AgentInv, InCommands
<1>4. mu' # Nil => handler'[mu'] = handler[mu]
  BY <1>1 DEF AgentInv, AgentTypeOK
<1> QED
  BY <1>1, <1>2, <1>3, <1>4

\* A malformed request is refused before anything was done.
LEMMA BadRequestKeepsInv ==
    ASSUME AgentInv, NEW h \in Handlers, BadRequest(h) PROVE AgentInv' /\ Visible' = Visible
<1>1. Answer(h) /\ UNCHANGED <<box, file, promised>>
  BY DEF BadRequest
<1>2. /\ AgentTypeOK' /\ (\A x \in Handlers : Places(handler[x]))'
      /\ mu = h => mu' = Nil /\ before' = Empty
      /\ mu # h => mu' = mu /\ before' = before
      /\ mu' # Nil => handler'[mu'] = handler[mu]
      /\ NoSharing(before)'
  BY <1>1, AnswerFacts DEF AgentInv, AgentTypeOK
<1>3. mu = h => before = box
  BY HolderFacts DEF BadRequest, Progress
<1>4. Visible' = Visible
  BY <1>1, <1>2, <1>3, ValuesAssumption DEF Visible
<1>5. AcknowledgedSurvives'
  BY <1>1, <1>4 DEF AgentInv, AcknowledgedSurvives
<1>6. mu' # Nil => Progress(handler'[mu'], before', box')
  BY <1>1, <1>2, ValuesAssumption DEF AgentInv
<1> QED
  BY <1>1, <1>2, <1>4, <1>5, <1>6 DEF AgentInv, NoSharing

\* Sync lists the peers and works out what to remove and to set.
LEMMA ListKeepsInv ==
    ASSUME AgentInv, NEW h \in Handlers, List(h) PROVE AgentInv'
<1> DEFINE call == CallOf(h)
           n == [handler[h] EXCEPT !.pc = IF call.bad = "key" THEN "bad" ELSE "sync",
                                   !.drop = Extra(box, call.peers), !.add = Missing(box, call)]
<1>1. mu = h /\ handler' = [handler EXCEPT ![h] = n] /\ UNCHANGED <<box, file, mu, before, promised>>
      /\ Pc(h) = "list"
  BY DEF List, AgentInv, AgentTypeOK, InCommands
<1>2. /\ Progress(handler[h], before, box) /\ Places(handler[h]) /\ handler[h] \in HandlerState
      /\ call \in Calls /\ before \in Interface /\ NoSharing(before)
      /\ handler[h].call = call /\ mu # Nil
  BY <1>1, HolderFacts
<1>3. box = before /\ call.op = "sync" /\ call.bad \in {"none", "key"}
  BY <1>1, <1>2, RequestFacts DEF Progress, Places, Pc, Call
<1> DEFINE X == Extra(before, call.peers)
           W == Wanted(call.peers)
           M == Missing(before, call)
<1>4. X \subseteq Keys /\ W \subseteq Peer /\ M \subseteq W
  BY <1>2, RequestFacts DEF Extra, Missing, Distinct
<1>5. /\ n.pc = (IF call.bad = "key" THEN "bad" ELSE "sync") /\ n.call = call
      /\ n.drop = X /\ n.add = M /\ n \in HandlerState
  BY <1>2, <1>3, <1>4 DEF HandlerState, InCommands
<1>6. Places(n)
  BY <1>3, <1>5 DEF Places
<1>7. With(Without(before, X), W \ M) = Without(before, X)
  BY <1>2, ClearedAndPresent
<1>8. Without(before, {}) = before
  BY <1>2, WithoutFacts
<1>9. Syncing(n, before, box)
  <2>1. CASE X = {}
    BY <1>3, <1>4, <1>5, <1>7, <1>8, <2>1 DEF Syncing
  <2>2. CASE X # {}
    <3>1. X \ X = {}
      OBVIOUS
    <3> QED
      BY <1>3, <1>5, <1>8, <2>2, <3>1 DEF Syncing
  <2> QED
    BY <2>1, <2>2
<1> HIDE DEF n
<1>10. Progress(n, before, box)
  BY <1>3, <1>5, <1>9 DEF Progress
<1>11. AgentTypeOK' /\ (\A x \in Handlers : Places(handler[x]))'
  BY <1>1, <1>2, <1>5, <1>6, CallsAssumption, HandlerMoves DEF AgentInv, AgentTypeOK, InCommands
<1>12. handler'[mu'] = n
  BY <1>1 DEF AgentInv, AgentTypeOK
<1> QED
  BY <1>1, <1>10, <1>11, <1>12 DEF AgentInv, AcknowledgedSurvives, Visible, NoSharing

\* A command does what the handler was at, and the request is one step further.
LEMMA CommandProgress ==
    ASSUME AgentInv, NEW h \in Handlers, Command(h)
    PROVE  /\ mu = h /\ box' \in After(h) /\ Progress(handler'[h], before, box')
           /\ UNCHANGED <<file, mu, before, promised>>
           /\ \E n \in HandlerState :
                 /\ handler' = [handler EXCEPT ![h] = n] /\ n.call = CallOf(h)
                 /\ n.pc \in {"save", "set", "sync"}
<1> DEFINE call == CallOf(h)
           r == handler[h]
           X == Extra(before, call.peers)
           W == Wanted(call.peers)
<1>1. mu = h /\ UNCHANGED <<file, mu, before, promised>>
  BY DEF Command, SetCommand, ReplaceCommand, RemoveCommand, DropCommand, AddCommand,
         AgentInv, AgentTypeOK, InCommands
<1>2. /\ Progress(r, before, box) /\ Places(r) /\ r \in HandlerState /\ call \in Calls
      /\ before \in Interface /\ NoSharing(before) /\ r.call = call /\ r.pc = Pc(h)
  BY <1>1, HolderFacts
<1>3. \A n : handler' = [handler EXCEPT ![h] = n] => handler'[h] = n
  BY DEF AgentInv, AgentTypeOK
<1>4. ASSUME SetCommand(h) \/ RemoveCommand(h) \/ ReplaceCommand(h),
             NEW pc \in {"save", "set"}, Goto(h, pc),
             pc = "save" => call.op # "sync" /\ box' = Handle(before, call).done,
             pc = "set" => call.op = "set"
                           /\ box' = Without(before, {call.replaces} \ KeysOf(call.peers))
      PROVE  /\ Progress(handler'[h], before, box')
             /\ \E n \in HandlerState :
                   /\ handler' = [handler EXCEPT ![h] = n] /\ n.call = call
                   /\ n.pc \in {"save", "set", "sync"}
  <2> DEFINE n == [r EXCEPT !.pc = pc]
  <2>1. n \in HandlerState /\ n.pc = pc /\ n.call = call
    BY <1>2 DEF HandlerState, InCommands
  <2>2. handler' = [handler EXCEPT ![h] = n]
    BY <1>4 DEF Goto
  <2> HIDE DEF n
  <2>3. Progress(n, before, box')
    BY <1>4, <2>1 DEF Progress
  <2> QED
    BY <1>3, <2>1, <2>2, <2>3
<1>5. CASE SetCommand(h)
  <2>1. box' = With(box, call.peers) /\ Goto(h, "save") /\ Pc(h) = "set"
    BY <1>5 DEF SetCommand
  <2>2. call.op = "set" /\ box = Without(before, {call.replaces} \ KeysOf(call.peers))
    BY <1>2, <2>1 DEF Progress
  <2>3. box' = Handle(before, call).done
    BY <1>2, <2>1, <2>2, HandleFacts
  <2> QED
    BY <1>1, <1>4, <1>5, <2>1, <2>2, <2>3 DEF After
<1>6. CASE RemoveCommand(h)
  <2>1. box' = Without(box, KeysOf(call.peers)) /\ Goto(h, "save") /\ Pc(h) = "remove"
    BY <1>6 DEF RemoveCommand
  <2>2. call.op = "remove" /\ box = before
    BY <1>2, <2>1 DEF Progress
  <2>3. box' = Handle(before, call).done
    BY <1>2, <2>1, <2>2, HandleFacts
  <2> QED
    BY <1>1, <1>4, <1>6, <2>1, <2>2, <2>3 DEF After
<1>7. CASE ReplaceCommand(h)
  <2>1. box' = Without(box, {call.replaces}) /\ Goto(h, "set") /\ Pc(h) = "replace"
    BY <1>7 DEF ReplaceCommand
  <2>2. call.op = "set" /\ box = before /\ {call.replaces} \ KeysOf(call.peers) = {call.replaces}
    BY <1>2, <2>1 DEF Progress
  <2> QED
    BY <1>1, <1>4, <1>7, <2>1, <2>2 DEF After
<1>8. CASE DropCommand(h)
  <2>1. PICK k \in r.drop : /\ box' = Without(box, {k}) /\ Pc(h) = "sync"
                            /\ handler' = [handler EXCEPT ![h].drop = @ \ {k}]
    BY <1>8 DEF DropCommand
  <2> DEFINE n == [r EXCEPT !.drop = @ \ {k}]
  <2>2. /\ n \in HandlerState /\ n.pc = "sync" /\ n.call = call /\ n.add = r.add
        /\ n.drop = r.drop \ {k}
    BY <1>2, <2>1 DEF HandlerState
  <2>3. handler' = [handler EXCEPT ![h] = n]
    BY <2>1
  <2>4. /\ call.op = "sync" /\ r.drop \subseteq X /\ r.add = Missing(before, call)
        /\ box = Without(before, X \ r.drop)
    BY <1>2, <2>1 DEF Progress, Syncing
  <2>5. Without(box, {k}) = Without(before, (X \ r.drop) \cup {k})
    BY <1>2, <2>4, WithoutFacts
  <2>6. (X \ r.drop) \cup {k} = X \ (r.drop \ {k})
    BY <2>1, <2>4
  <2>7. With(Without(before, X), W \ Missing(before, call)) = Without(before, X)
    BY <1>2, ClearedAndPresent
  <2>8. Missing(before, call) \subseteq W
    BY DEF Missing
  <2> HIDE DEF X, W, n, r
  <2>9. box' = Without(before, X \ n.drop) /\ n.drop \subseteq X
    BY <2>1, <2>2, <2>4, <2>5, <2>6
  <2>10. Syncing(n, before, box')
    <3>1. CASE n.drop # {}
      BY <2>2, <2>4, <2>9, <3>1 DEF Syncing, X
    <3>2. CASE n.drop = {}
      <4>1. X \ n.drop = X
        BY <3>2
      <4>2. box' = With(Without(before, X), W \ n.add) /\ n.add \subseteq W
        BY <2>2, <2>4, <2>7, <2>8, <2>9, <4>1
      <4> QED
        BY <2>2, <3>2, <4>2 DEF Syncing, X, W
    <3> QED
      BY <3>1, <3>2
  <2>11. Progress(n, before, box')
    BY <2>2, <2>4, <2>10 DEF Progress
  <2>12. box' \in After(h)
    BY <2>1 DEF After, r
  <2> QED
    BY <1>1, <1>3, <2>2, <2>3, <2>11, <2>12
<1>9. CASE AddCommand(h)
  <2>1. PICK p \in r.add : /\ box' = With(box, {p}) /\ Pc(h) = "sync" /\ r.drop = {}
                           /\ handler' = [handler EXCEPT ![h].add = @ \ {p}]
    BY <1>9 DEF AddCommand
  <2> DEFINE n == [r EXCEPT !.add = @ \ {p}]
  <2>2. /\ n \in HandlerState /\ n.pc = "sync" /\ n.call = call /\ n.drop = {}
        /\ n.add = r.add \ {p}
    BY <1>2, <2>1 DEF HandlerState
  <2>3. handler' = [handler EXCEPT ![h] = n]
    BY <2>1
  <2>4. /\ call.op = "sync" /\ r.add \subseteq W
        /\ box = With(Without(before, X), W \ r.add)
    BY <1>2, <2>1 DEF Progress, Syncing
  <2>5. Distinct(W) /\ Without(before, X) \in Interface
    BY <1>2, RequestFacts, WithoutFacts
  <2> HIDE DEF X, W, n, r
  <2>6. (W \ r.add) \cup {p} = W \ n.add /\ n.add \subseteq W
    BY <2>1, <2>2, <2>4
  <2>7. Distinct((W \ r.add) \cup {p})
    BY <2>4, <2>5, <2>6 DEF Distinct
  <2>8. box' = With(Without(before, X), W \ n.add)
    <3>1. With(With(Without(before, X), W \ r.add), {p})
            = With(Without(before, X), (W \ r.add) \cup {p})
      BY <2>5, <2>7, WithOneMore
    <3> QED
      BY <2>1, <2>4, <2>6, <3>1
  <2>9. Progress(n, before, box')
    BY <2>2, <2>4, <2>6, <2>8 DEF Progress, Syncing, X, W
  <2>10. box' \in After(h)
    BY <2>1 DEF After, r
  <2> QED
    BY <1>1, <1>3, <2>2, <2>3, <2>9, <2>10
<1> QED
  BY <1>5, <1>6, <1>7, <1>8, <1>9 DEF Command

\* A command runs: nothing is promised of it yet, and no address comes to be
\* shared.
LEMMA CommandKeepsInv ==
    ASSUME AgentInv, NEW h \in Handlers, Command(h) PROVE AgentInv'
<1>1. /\ mu = h /\ box' \in After(h) /\ Progress(handler'[h], before, box')
      /\ UNCHANGED <<file, mu, before, promised>>
  BY CommandProgress
<1>2. PICK n \in HandlerState : /\ handler' = [handler EXCEPT ![h] = n] /\ n.call = CallOf(h)
                                /\ n.pc \in {"save", "set", "sync"}
  BY CommandProgress
<1>3. /\ mu # Nil /\ CallOf(h) \in Calls /\ before \in Interface /\ NoSharing(before)
      /\ CallOf(h).bad = "none"
  BY <1>1, HolderFacts, AfterIsFailed
<1>4. box' \in Interface /\ NoSharing(box')
  BY <1>1, <1>3, AfterIsFailed, FailedFacts
<1>5. Places(n) /\ n.call # NoCall
  BY <1>2, <1>3, CallsAssumption DEF Places
<1>6. AgentTypeOK' /\ (\A x \in Handlers : Places(handler[x]))'
  BY <1>1, <1>2, <1>4, <1>5, HandlerMoves DEF AgentInv, AgentTypeOK, InCommands
<1> QED
  BY <1>1, <1>3, <1>4, <1>6 DEF AgentInv, AcknowledgedSurvives, Visible, NoSharing

\* What an ok answer says is so, of the interface and of the file.
LEMMA SaveKeepsInv ==
    ASSUME AgentInv, NEW h \in Handlers, Save(h) PROVE AgentInv'
<1>1. /\ mu = h /\ Answer(h) /\ box' = box /\ file' = box
      /\ promised' = Kept(promised, CallOf(h), before, box)
  BY DEF Save, Acknowledge, Saving, AgentInv, AgentTypeOK, InCommands, Pc
<1>2. mu # Nil /\ box \in Interface /\ NoSharing(box)
  BY <1>1, HolderFacts DEF AgentInv
<1>3. /\ AgentTypeOK' /\ (\A x \in Handlers : Places(handler[x]))'
      /\ mu' = Nil /\ NoSharing(before)'
  BY <1>1, <1>2, PromiseTypes, AnswerFacts DEF AgentInv
<1>4. Visible = before /\ Visible' = box
  BY <1>1, <1>2, <1>3 DEF Visible
<1>5. AcknowledgedSurvives'
  BY <1>1, <1>4 DEF AgentInv, AcknowledgedSurvives, Kept
<1> QED
  BY <1>1, <1>2, <1>3, <1>5 DEF AgentInv, NoSharing

\* A key that a request has touched and not been answered ok for is promised
\* nothing; of the others nothing has changed.
LEMMA CutKeepsPromises ==
    ASSUME AgentInv, NEW h \in Handlers, mu = h, NEW c \in Cuts(h), NEW k \in Keys,
           Broken(promised, before, c[1])[k] # Unknown
    PROVE  c[1][k] = Broken(promised, before, c[1])[k] /\ c[2][k] = Broken(promised, before, c[1])[k]
<1>1. mu # Nil /\ c[2] \in {file, c[1]}
  BY HolderFacts, CutsAreStops
<1>2. c[1][k] = before[k] /\ Broken(promised, before, c[1])[k] = promised[k]
  BY DEF Broken
<1> QED
  BY <1>1, <1>2 DEF AgentInv, AcknowledgedSurvives, Visible

\* A command fails: its keys are promised nothing any more.
LEMMA CommandFailsKeepsInv ==
    ASSUME AgentInv, NEW h \in Handlers, CommandFails(h) PROVE AgentInv'
<1>1. PICK c \in Cuts(h) : /\ mu = h /\ Answer(h) /\ box' = c[1] /\ file' = c[2]
                           /\ promised' = Broken(promised, before, c[1])
  BY DEF CommandFails, Leave
<1>2. c[1] \in Interface /\ c[2] \in Interface /\ NoSharing(c[1]) /\ NoSharing(c[2])
  BY <1>1, CutsAreStops
<1>3. /\ AgentTypeOK' /\ (\A x \in Handlers : Places(handler[x]))'
      /\ mu' = Nil /\ NoSharing(before)'
  BY <1>1, <1>2, PromiseTypes, AnswerFacts DEF AgentInv
<1>4. Visible' = c[1]
  BY <1>1, <1>3 DEF Visible
<1>5. AcknowledgedSurvives'
  BY <1>1, <1>4, CutKeepsPromises DEF AcknowledgedSurvives
<1> QED
  BY <1>1, <1>2, <1>3, <1>5 DEF AgentInv, NoSharing

\* No handler is left: the invariant is that of the interface and the file.
LEMMA AllGoneKeepsInv ==
    ASSUME AllGone, box' \in Interface, NoSharing(box'), file' \in Interface, NoSharing(file'),
           promised' \in [Keys -> Addresses \cup {Nil, NoAddress, Unknown}],
           \A k \in Keys : promised'[k] # Unknown => box'[k] = promised'[k] /\ file'[k] = promised'[k]
    PROVE  AgentInv' /\ Visible' = box'
<1>1. handler' = [h \in Handlers |-> Idle] /\ mu' = Nil /\ before' = Empty
  BY DEF AllGone
<1>2. Nil \notin Handlers
  BY ValuesAssumption
<1>3. AgentTypeOK' /\ (\A x \in Handlers : Places(handler[x]))'
  BY <1>1, <1>2, IdleFacts DEF AgentTypeOK, Pc, CallOf, InCommands
<1>4. Visible' = box'
  BY <1>1 DEF Visible
<1>5. AcknowledgedSurvives'
  BY <1>4 DEF AcknowledgedSurvives
<1> QED
  BY <1>1, <1>3, <1>4, <1>5, IdleFacts DEF AgentInv, NoSharing

\* The agent dies, the box reboots from its file, or is reinstalled.
LEMMA DieKeepsInv ==
    ASSUME AgentInv, Die \/ Reboot \/ Rebuild PROVE AgentInv'
<1>1. AllGone
  BY DEF Die, Reboot, Rebuild
<1>2. CASE Rebuild
  BY <1>1, <1>2, IdleFacts, AllGoneKeepsInv DEF Rebuild, Empty, Interface
<1>3. CASE (Die \/ Reboot) /\ mu = Nil
  <2>1. box' \in {box, file} /\ UNCHANGED <<file, promised>>
    BY <1>3 DEF Die, Reboot
  <2> QED
    BY <1>1, <1>3, <2>1, AllGoneKeepsInv DEF AgentInv, AgentTypeOK, AcknowledgedSurvives, Visible
<1>4. CASE (Die \/ Reboot) /\ mu # Nil
  <2>1. mu \in Handlers
    BY <1>4 DEF AgentInv, AgentTypeOK
  <2>2. PICK c \in Cuts(mu) : /\ box' \in {c[1], c[2]} /\ file' = c[2]
                              /\ promised' = Broken(promised, before, c[1])
    BY <1>4 DEF Die, Reboot, Leave
  <2>3. c[1] \in Interface /\ c[2] \in Interface /\ NoSharing(c[1]) /\ NoSharing(c[2])
    BY <2>1, CutsAreStops
  <2>4. \A k \in Keys : promised'[k] # Unknown => c[1][k] = promised'[k] /\ c[2][k] = promised'[k]
    BY <2>1, <2>2, CutKeepsPromises
  <2>5. promised' \in [Keys -> Addresses \cup {Nil, NoAddress, Unknown}]
    BY <2>2, <2>3, PromiseTypes DEF AgentInv
  <2> QED
    BY <1>1, <2>2, <2>3, <2>4, <2>5, AllGoneKeepsInv
<1> QED
  BY <1>2, <1>3, <1>4

\* Before the first request nothing is promised and nothing is there.
LEMMA InitInv == Init => AgentInv
<1> SUFFICES ASSUME Init PROVE AgentInv
  OBVIOUS
<1>1. /\ box = Empty /\ file = Empty /\ handler = [h \in Handlers |-> Idle] /\ mu = Nil
      /\ before = Empty /\ promised = Empty
  BY DEF Init
<1>2. Nil \notin Handlers /\ Empty \in [Keys -> Addresses \cup {Nil, NoAddress, Unknown}]
  BY ValuesAssumption DEF Empty
<1>3. AgentTypeOK /\ \A x \in Handlers : Places(handler[x])
  BY <1>1, <1>2, IdleFacts DEF AgentTypeOK, Pc, CallOf, InCommands
<1>4. AcknowledgedSurvives
  BY <1>1 DEF AcknowledgedSurvives, Visible
<1> QED
  BY <1>1, <1>3, <1>4, IdleFacts DEF AgentInv

\* Every step keeps the invariant.
LEMMA NextKeepsInv == AgentInv /\ [Next]_vars => AgentInv'
<1> SUFFICES ASSUME AgentInv, [Next]_vars PROVE AgentInv'
  OBVIOUS
<1>1. ASSUME NEW h \in Handlers, NEW call \in Calls, Receive(h, call) PROVE AgentInv'
  BY <1>1, ReceiveKeepsInv
<1>2. ASSUME NEW h \in Handlers, Step(h) PROVE AgentInv'
  BY <1>2, LockKeepsInv, BadRequestKeepsInv, ListKeepsInv, CommandKeepsInv, SaveKeepsInv,
     CommandFailsKeepsInv DEF Step
<1>3. CASE Die \/ Reboot \/ Rebuild
  BY <1>3, DieKeepsInv
<1>4. CASE UNCHANGED vars
  BY <1>4 DEF vars, AgentInv, AgentTypeOK, AcknowledgedSurvives, Visible, NoSharing, Pc, CallOf
<1> QED
  BY <1>1, <1>2, <1>3, <1>4 DEF Next

\* The invariant holds always.
LEMMA InvHolds == Spec => []AgentInv
  BY InitInv, NextKeepsInv, PTL DEF Spec

\* The agent's state is of its type in every behaviour; commands are run by the
\* holder of Agent.mu only, and not for a malformed address.
THEOREM AgentTypesHold == Spec => []AgentTypeOK
<1>1. AgentInv => AgentTypeOK
  BY DEF AgentInv
<1> QED
  BY <1>1, InvHolds, PTL

\* What an ok answer said of a key is so on the interface and in its config file,
\* until a request that fails touches the key: for any number of concurrent
\* requests, crashes and reboots.
THEOREM OkAnswersAreKept == Spec => []AcknowledgedSurvives
<1>1. AgentInv => AcknowledgedSurvives
  BY DEF AgentInv
<1> QED
  BY <1>1, InvHolds, PTL

\* What PeerCount can see without Agent.mu is an interface that the request under
\* way might have left by failing.
THEOREM HalfWayStatesAreAllowed == Spec => []HalfWayIsAllowed
<1>1. AgentInv => HalfWayIsAllowed
  BY HalfWay DEF HalfWayIsAllowed, AgentInv, AgentTypeOK
<1> QED
  BY <1>1, InvHolds, PTL

\* Client.SetPeer removes the key a rotation replaces before it adds the new one,
\* whatever fails in between.
THEOREM ReplacedKeyGoesFirst == Spec => []NeverBothKeys
<1>1. ASSUME AgentInv PROVE NeverBothKeys
  <2> DEFINE call == CallOf(mu)
  <2> SUFFICES ASSUME mu # Nil, call.op = "set", NEW k \in KeysOf(call.peers),
                      call.replaces \in Keys \ {k}, box[k] # before[k]
               PROVE  box[call.replaces] = Nil
    BY DEF NeverBothKeys
  <2>1. mu \in Handlers
    BY <1>1 DEF AgentInv, AgentTypeOK
  <2>2. /\ Progress(handler[mu], before, box) /\ handler[mu].call = call /\ call \in Calls
        /\ handler[mu].pc \in InCommands \cup {"bad"} /\ before \in Interface
    BY <1>1, <2>1, HolderFacts
  <2> HIDE DEF call
  <2> DEFINE cleared == Without(before, {call.replaces} \ KeysOf(call.peers))
  <2>3. call.replaces \notin KeysOf(call.peers) /\ Distinct(call.peers)
    BY <2>2, RequestFacts DEF WellFormed, KeysOf
  <2>4. cleared \in Interface /\ cleared[call.replaces] = Nil
    <3>1. \A K : Without(before, K) \in Interface
                /\ \A l \in Keys \cap K : Without(before, K)[l] = Nil
      BY <2>2, WithoutFacts
    <3> QED
      BY <2>3, <3>1
  <2>5. handler[mu].pc \in {"set", "save"}
    BY <2>2 DEF Progress, InCommands
  <2>6. CASE handler[mu].pc = "set"
    BY <2>2, <2>4, <2>6 DEF Progress
  <2>7. CASE handler[mu].pc = "save"
    <3>1. box = With(cleared, call.peers)
      BY <2>2, <2>7, HandleFacts DEF Progress
    <3>2. Nil \notin AddressesOf(call.peers)
      BY <2>3, ValuesAssumption DEF Distinct, Peer, AddressesOf
    <3> HIDE DEF cleared
    <3> QED
      BY <2>3, <2>4, <3>1, <3>2, WithFacts
  <2> QED
    BY <2>5, <2>6, <2>7
<1> QED
  BY <1>1, InvHolds, PTL

(***************************************************************************)
(* The refinement                                                          *)
(***************************************************************************)
Requests == [h \in Handlers |-> handler[h].call]

\* The requests of the abstract agent move with the handlers.
LEMMA RequestsMove ==
    ASSUME AgentInv, NEW h \in Handlers, NEW n, handler' = [handler EXCEPT ![h] = n]
    PROVE  /\ Requests' = [Requests EXCEPT ![h] = n.call]
           /\ n.call = CallOf(h) => Requests' = Requests
           /\ Requests[h] = CallOf(h)
  BY DEF Requests, AgentInv, AgentTypeOK, CallOf

\* A step of the handlers is a step of the abstract agent, or none that shows.
LEMMA StepRefines ==
    ASSUME AgentInv, NEW h \in Handlers, Step(h)
    PROVE  \/ Atomic!Ok(h) \/ Atomic!Fails(h) \/ Atomic!Refuses(h)
           \/ UNCHANGED <<Visible, file, Requests, promised>>
<1> DEFINE call == CallOf(h)
<1>1. /\ Requests[h] = call /\ (Pc(h) # "idle" => call # NoCall)
      /\ \A n : handler' = [handler EXCEPT ![h] = n] =>
            /\ Requests' = [Requests EXCEPT ![h] = n.call]
            /\ n.call = call => Requests' = Requests
  <2>1. Pc(h) # "idle" => call # NoCall
    BY DEF AgentInv, AgentTypeOK
  <2>2. Requests[h] = call
    BY DEF Requests, CallOf
  <2>3. ASSUME NEW n, handler' = [handler EXCEPT ![h] = n]
        PROVE  /\ Requests' = [Requests EXCEPT ![h] = n.call]
               /\ n.call = call => Requests' = Requests
    BY <2>3, RequestsMove
  <2> QED
    BY <2>1, <2>2, <2>3
<1>2. ASSUME Answer(h) PROVE Requests' = [Requests EXCEPT ![h] = NoCall]
  BY <1>1, <1>2, IdleFacts DEF Answer
<1>3. CASE Lock(h)
  <2> DEFINE n == [handler[h] EXCEPT !.pc = First(call)]
  <2>1. handler' = [handler EXCEPT ![h] = n] /\ n.call = call
    BY <1>3 DEF Lock, Goto, AgentInv, AgentTypeOK, HandlerState, CallOf
  <2> HIDE DEF n
  <2>2. Requests' = Requests
    BY <1>1, <2>1
  <2>3. Visible' = Visible
    BY <1>3, ValuesAssumption DEF Lock, Visible
  <2> QED
    BY <1>3, <2>2, <2>3 DEF Lock
<1>4. CASE BadRequest(h)
  <2>1. Visible' = Visible /\ Requests' = [Requests EXCEPT ![h] = NoCall]
        /\ UNCHANGED <<file, promised>>
    BY <1>2, <1>4, BadRequestKeepsInv DEF BadRequest
  <2>2. call # NoCall /\ call.bad # "none"
    BY <1>1, <1>4 DEF BadRequest, AgentInv, Places, Pc, CallOf
  <2>3. Atomic!Refuses(h)
    BY <1>1, <2>1, <2>2 DEF Atomic!Refuses, Atomic!Busy, Requests
  <2> QED
    BY <2>3
<1>5. CASE List(h)
  <2> DEFINE n == [handler[h] EXCEPT !.pc = IF call.bad = "key" THEN "bad" ELSE "sync",
                                     !.drop = Extra(box, call.peers), !.add = Missing(box, call)]
  <2>1. handler' = [handler EXCEPT ![h] = n] /\ n.call = call
    BY <1>5 DEF List, AgentInv, AgentTypeOK, HandlerState, CallOf
  <2> HIDE DEF n
  <2>2. Requests' = Requests
    BY <1>1, <2>1
  <2> QED
    BY <1>5, <2>2 DEF List, Visible
<1>6. CASE Command(h)
  <2>1. Requests' = Requests
    BY <1>1, <1>6, CommandProgress
  <2>2. mu # Nil /\ UNCHANGED <<file, mu, before, promised>>
    BY <1>6, CommandProgress, HolderFacts
  <2> QED
    BY <2>1, <2>2 DEF Visible
<1>7. CASE Save(h)
  <2>1. /\ mu = h /\ box' = box /\ file' = box /\ mu' = Nil /\ Saving(h)
        /\ promised' = Kept(promised, call, before, box)
        /\ Requests' = [Requests EXCEPT ![h] = NoCall]
    BY <1>2, <1>7 DEF Save, Acknowledge, Answer, Saving, AgentInv, AgentTypeOK, InCommands, Pc
  <2>2. Visible = before /\ Visible' = box
    BY <2>1, HolderFacts DEF Visible
  <2>3. box = Handle(before, call).done /\ call.bad = "none" /\ call # NoCall
    BY <2>1, HolderFacts, AfterIsFailed, CallsAssumption
  <2> HIDE DEF call
  <2>4. Atomic!Ok(h)
    BY <1>1, <2>1, <2>2, <2>3, SameOperators DEF Atomic!Ok, Atomic!Busy, Requests
  <2> QED
    BY <2>4
<1>8. CASE CommandFails(h)
  <2>1. PICK c \in Cuts(h) : /\ mu = h /\ mu' = Nil /\ box' = c[1] /\ file' = c[2]
                             /\ promised' = Broken(promised, before, c[1])
                             /\ Requests' = [Requests EXCEPT ![h] = NoCall]
    BY <1>2, <1>8 DEF CommandFails, Leave, Answer
  <2>2. Visible = before /\ Visible' = c[1]
    BY <2>1, HolderFacts DEF Visible
  <2>3. c \in Atomic!Stops(call) /\ call # NoCall
    BY <2>1, HolderFacts, CutsAreStops, CallsAssumption
  <2> HIDE DEF call
  <2>4. Atomic!Fails(h)
    BY <1>1, <2>1, <2>2, <2>3, SameOperators DEF Atomic!Fails, Atomic!Busy, Requests
  <2> QED
    BY <2>4
<1> QED
  BY <1>3, <1>4, <1>5, <1>6, <1>7, <1>8 DEF Step

\* The initial states are the abstract agent's.
LEMMA InitRefines == Init => Atomic!AtomicInit
<1> SUFFICES ASSUME Init PROVE Atomic!AtomicInit
  OBVIOUS
<1>1. Requests = [h \in Handlers |-> NoCall]
  BY IdleFacts DEF Init, Requests
<1> QED
  BY <1>1, SameOperators DEF Init, Visible, Atomic!AtomicInit, Requests

\* The end of all handlers is the abstract agent's, wherever they were.
LEMMA EndRefines ==
    ASSUME AgentInv, AgentInv', Die \/ Reboot \/ Rebuild
    PROVE  Atomic!Dies \/ Atomic!Reboots \/ Atomic!Rebuilt
<1>1. AllGone /\ Requests' = [h \in Handlers |-> NoCall]
  BY IdleFacts DEF Die, Reboot, Rebuild, AllGone, Requests
<1>2. Visible' = box'
  BY <1>1 DEF AllGone, Visible
<1>3. CASE Rebuild
  BY <1>1, <1>2, <1>3, SameOperators DEF Rebuild, Atomic!Rebuilt, Requests
<1>4. CASE (Die \/ Reboot) /\ mu = Nil
  <2>1. Visible = box
    BY <1>4 DEF Visible
  <2> DEFINE s == <<box, file>>
  <2>2. s \in Atomic!AllStops /\ s[1] = box /\ s[2] = file
    BY <2>1 DEF Atomic!AllStops
  <2>3. promised = Broken(promised, box, box)
    BY PromiseTypes DEF AgentInv, AgentTypeOK
  <2> HIDE DEF s
  <2>4. CASE Die
    <3>1. box' = s[1] /\ file' = s[2] /\ promised' = Broken(promised, box, s[1])
      BY <1>4, <2>2, <2>3, <2>4 DEF Die
    <3>2. Atomic!Dies
      BY <1>1, <1>2, <2>1, <2>2, <3>1, SameOperators DEF Atomic!Dies, Requests
    <3> QED
      BY <3>2
  <2>5. CASE Reboot
    <3>1. box' = s[2] /\ file' = s[2] /\ promised' = Broken(promised, box, s[1])
      BY <1>4, <2>2, <2>3, <2>5 DEF Reboot
    <3>2. Atomic!Reboots
      BY <1>1, <1>2, <2>1, <2>2, <3>1, SameOperators DEF Atomic!Reboots, Requests
    <3> QED
      BY <3>2
  <2> QED
    BY <1>4, <2>4, <2>5
<1>5. CASE (Die \/ Reboot) /\ mu # Nil
  <2>1. mu \in Handlers /\ Visible = before
    BY <1>5 DEF AgentInv, AgentTypeOK, Visible
  <2>2. PICK s \in Cuts(mu) :
          /\ file' = s[2] /\ promised' = Broken(promised, before, s[1])
          /\ box' \in {s[1], s[2]}
    BY <1>5 DEF Die, Reboot, Leave
  <2>3. s \in Atomic!Stops(CallOf(mu)) /\ CallOf(mu) # NoCall /\ Requests[mu] = CallOf(mu)
    BY <2>1, HolderFacts, CutsAreStops, CallsAssumption DEF Requests, CallOf
  <2>4. s \in Atomic!AllStops
    BY <2>1, <2>3 DEF Atomic!AllStops, Atomic!Busy, Requests
  <2>5. CASE box' = s[1]
    <3>1. Atomic!Dies
      BY <1>1, <1>2, <2>1, <2>2, <2>4, <2>5, SameOperators DEF Atomic!Dies, Requests
    <3> QED
      BY <3>1
  <2>6. CASE box' = s[2]
    <3>1. Atomic!Reboots
      BY <1>1, <1>2, <2>1, <2>2, <2>4, <2>6, SameOperators DEF Atomic!Reboots, Requests
    <3> QED
      BY <3>1
  <2> QED
    BY <2>2, <2>5, <2>6
<1> QED
  BY <1>3, <1>4, <1>5

\* A request that comes in, too.
LEMMA ReceiveRefines ==
    ASSUME AgentInv, NEW h \in Handlers, NEW call \in Calls, Receive(h, call)
    PROVE  Atomic!Receive(h, call)
<1> DEFINE n == [Idle EXCEPT !.pc = IF call.bad = "ip" THEN "bad" ELSE "lock", !.call = call]
<1>1. handler' = [handler EXCEPT ![h] = n] /\ n.call = call
  BY DEF Receive, Idle
<1> HIDE DEF n
<1>2. Requests' = [Requests EXCEPT ![h] = call] /\ Requests[h] = NoCall
  BY <1>1, RequestsMove DEF Receive, AgentInv, AgentTypeOK
<1> QED
  BY <1>2 DEF Receive, Visible, Requests, Atomic!Receive, Atomic!Busy

\* Handlers that run one command at a time under Agent.mu, fail, are cut off or
\* die with the box implement requests that happen at one instant.
THEOREM AgentIsAtomic == Spec => AtomicSpec
<1>1. ASSUME AgentInv, AgentInv', [Next]_vars
      PROVE  [Atomic!AtomicNext]_(Atomic!atomicVars)
  <2>1. ASSUME NEW h \in Handlers, NEW call \in Calls, Receive(h, call) PROVE Atomic!AtomicNext
    BY <1>1, <2>1, ReceiveRefines DEF Atomic!AtomicNext
  <2>2. ASSUME NEW h \in Handlers, Step(h) PROVE [Atomic!AtomicNext]_(Atomic!atomicVars)
    <3>1. CASE UNCHANGED <<Visible, file, Requests, promised>>
      BY <3>1 DEF Atomic!atomicVars, Requests
    <3> QED
      BY <1>1, <2>2, <3>1, StepRefines DEF Atomic!AtomicNext
  <2>3. CASE Die \/ Reboot \/ Rebuild
    BY <1>1, <2>3, EndRefines DEF Atomic!AtomicNext
  <2>4. CASE UNCHANGED vars
    BY <2>4 DEF vars, Visible, Atomic!atomicVars
  <2> QED
    BY <1>1, <2>1, <2>2, <2>3, <2>4 DEF Next
<1> QED
  BY <1>1, InitRefines, InvHolds, PTL DEF Spec, AtomicSpec, Atomic!AtomicSpec

=============================================================================
