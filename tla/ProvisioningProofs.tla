------------------------- MODULE ProvisioningProofs -------------------------
(***************************************************************************)
(* Proofs about Provisioning, for any number of requests, admins, servers, *)
(* rows and late calls: the callers implement the abstract table, a call   *)
(* names its revision for ever, and active and revoked mean that an agent  *)
(* said so.                                                                *)
(*                                                                         *)
(* The invariant says of each process what its local variables, and the    *)
(* call it waits for, have to do with the table.  Each such fact is a      *)
(* predicate of the values it is about, the table and the histories among  *)
(* them.  The table only moves on (Moves) and the histories only grow, and *)
(* neither makes such a fact false (GoodStays), so a step need only be     *)
(* examined for the process that takes it.                                 *)
(***************************************************************************)
EXTENDS Provisioning, PeerAssignmentsProofs, FiniteSetTheorems

LiveRow(row) == row.state \in {"pending", "active"}

\* What may become of a table, whichever statements are run.
Moves(T, U) ==
    /\ T \in [RowIds -> Row] /\ U \in [RowIds -> Row]
    /\ \A r \in RowIds :
          /\ T[r].revision <= U[r].revision
          /\ U[r].revision = T[r].revision =>
                U[r].key = T[r].key /\ (LiveRow(U[r]) <=> LiveRow(T[r]))
          /\ T[r].revision >= 1 => SameIdentity(T[r], U[r])

\* A call, sent earlier or now, is old or says what the table T wants.
Says(call, p, T) ==
    LET row == T[p.row] IN
    /\ 1 <= p.rev /\ p.rev <= row.revision
    /\ p.rev = row.revision =>
          /\ p.key = row.key /\ p.ip = row.ip /\ call.server = row.server
          /\ call.op = "remove" <=> ~LiveRow(row)

GoodCall(call, T) == call \in Call /\ \A p \in call.peers : Says(call, p, T)

\* What the agent said ok to is in the history, I of installs or R of removals.
Heard(call, I, R) == Confirmed(call) \subseteq IF call.op = "remove" THEN R ELSE I

WireState == [call : Call \cup {NoCall}, reply : {"none", "ok", "failed", "rejected"}]

GoodWire(w, T, I, R) ==
    /\ w \in WireState
    /\ w.call # NoCall => GoodCall(w.call, T)
    /\ w.call # NoCall /\ w.reply = "ok" => Heard(w.call, I, R)

ReqState ==
    [pc : {"idle", "entitled", "ready", "push", "switch"}, device : Devices \cup {Nil},
     key : Keys \cup {Nil}, tried : SUBSET Servers, peer : Peer \cup {NoPeer}]

\* A request x that waits for call; D are the registered devices.  From the
\* moment a row is ensured, the request's peer is a revision that row has had.
GoodReq(x, call, T, D, I) ==
    /\ x \in ReqState /\ x.device \in D \cup {Nil}
    /\ x.pc = "push" <=> call # NoCall
    /\ x.pc # "idle" => x.device \in D
    /\ x.pc \in {"ready", "push", "switch"} => x.key \in Keys
    /\ x.pc \in {"push", "switch"} =>
          /\ x.peer \in Peer /\ x.peer.key = x.key
          /\ 1 <= x.peer.rev /\ x.peer.rev <= T[x.peer.row].revision
          /\ T[x.peer.row].device = x.device
    /\ x.pc = "push" => call.op = "set" /\ call.peers = {x.peer}
    /\ x.pc = "switch" => <<x.peer.row, x.peer.rev>> \in I

SyncState ==
    [pc : {"idle", "compare", "read", "push", "mark"}, server : Servers \cup {Nil},
     count : Int, todo : SUBSET Peer]

\* A resync x that waits for call: what it will mark is part of the call, and
\* confirmed by the time it is marked.
GoodSync(x, call, T, I) ==
    /\ x \in SyncState
    /\ x.pc = "push" <=> call # NoCall
    /\ x.pc \in {"compare", "read"} => x.server \in Servers
    /\ x.pc = "push" => call.op = "sync" /\ x.todo \subseteq call.peers
    /\ x.pc = "mark" => \A p \in x.todo :
          1 <= p.rev /\ p.rev <= T[p.row].revision /\ <<p.row, p.rev>> \in I

\* The goroutine of row r calls about that row only.
GoodJob(call, r) ==
    call # NoCall => call.op \in {"set", "remove"} /\ \A p \in call.peers : p.row = r

PassState == [pc : {"rest", "sweep"}, users : SUBSET Users]

NoDevice == [user |-> Nil, key |-> Nil, revoked |-> FALSE]
DeviceState == [user : Users, key : Keys, revoked : BOOLEAN] \cup {NoDevice}

-----------------------------------------------------------------------------
(***************************************************************************)
(* The invariant                                                           *)
(***************************************************************************)
TablesOK ==
    /\ device \in [Devices -> DeviceState]
    /\ entitled \subseteq Users /\ deleting \subseteq Registered
    /\ bootIDs \in [Servers -> 0 .. MaxRebuilds \cup {Nil}]

CallersOK ==
    /\ wire \in [Callers -> WireState]
    /\ \A c \in Callers : GoodWire(wire[c], peers, installed, removed)

StrayOK == \A call \in stray : GoodCall(call, peers)

RequestsOK ==
    /\ req \in [Requests -> ReqState]
    /\ \A q \in Requests : GoodReq(req[q], wire[q].call, peers, Registered, installed)

JobsOK == \A p \in Runners, r \in RowIds : GoodJob(wire[<<p, r>>].call, r)

PassesOK ==
    /\ pass \in [Runners -> PassState]
    /\ \A p \in Runners : pass[p].pc = "sweep" => \A r \in RowIds : wire[<<p, r>>].call = NoCall

SyncsOK ==
    /\ sync \in [Runners -> SyncState]
    /\ \A w \in Runners : GoodSync(sync[w], wire[w].call, peers, installed)

Interface == [Keys -> Addresses \cup {Nil, NoAddress}]

BoxesOK == box \in [Servers -> Interface] /\ boot \in [Servers -> 0 .. MaxRebuilds]

HistoryOK == installed \subseteq RowIds \X Nat /\ removed \subseteq RowIds \X Nat

ProvInv ==
    /\ StoreInv /\ TablesOK /\ CallersOK /\ StrayOK /\ RequestsOK /\ JobsOK
    /\ PassesOK /\ SyncsOK /\ BoxesOK /\ HistoryOK /\ ConfirmedByEdge

-----------------------------------------------------------------------------
(***************************************************************************)
(* The world may move on                                                   *)
(***************************************************************************)
\* The statements of the store only let the table move on.
LEMMA StoreMoves ==
    ASSUME StoreInv, [StoreNext]_peers
    PROVE  StoreInv' /\ Moves(peers, peers')
<1>1. StoreInv'
  BY StoreInvInductive
<1>2. peers \in [RowIds -> Row] /\ peers' \in [RowIds -> Row]
  BY <1>1 DEF StoreInv, StoreTypeOK
<1>3. CASE TableStep
  BY <1>1, <1>2, <1>3 DEF Moves, TableStep, RowStep, LiveRow, Row, Live, Held
<1>4. ASSUME NEW d \in Devices, NEW s \in Servers, NEW k \in Keys, NEW q \in RowIds,
             EnsureNew(d, s, k, q)
      PROVE  Moves(peers, peers')
  <2>1. /\ peers[q].revision = 0 /\ peers'[q].revision = 1
        /\ \A r \in RowIds \ {q} : peers'[r] = peers[r]
    BY <1>4, InsertRow DEF StoreInv, StoreTypeOK
  <2> QED
    BY <1>2, <2>1 DEF Moves, Row, SameIdentity
<1> QED
  BY <1>1, <1>3, <1>4, StoreStepCases

\* What every step does to what the processes know about.
World ==
    /\ StoreInv' /\ Moves(peers, peers') /\ Registered \subseteq Registered'
    /\ installed \subseteq installed' /\ removed \subseteq removed'

\* What a process knows of the table, and what was confirmed to it, stays true.
LEMMA GoodStays ==
    ASSUME World
    PROVE  /\ \A call : GoodCall(call, peers) => GoodCall(call, peers')
           /\ \A w : GoodWire(w, peers, installed, removed)
                        => GoodWire(w, peers', installed', removed')
           /\ \A x, call : GoodReq(x, call, peers, Registered, installed)
                              => GoodReq(x, call, peers', Registered', installed')
           /\ \A x, call : GoodSync(x, call, peers, installed)
                              => GoodSync(x, call, peers', installed')
<1>1. ASSUME NEW p \in Peer
      PROVE  /\ peers[p.row].revision \in Nat /\ peers'[p.row].revision \in Nat
             /\ peers[p.row].revision <= peers'[p.row].revision
             /\ p.rev \in Nat /\ p.row \in RowIds
             /\ 1 <= p.rev /\ p.rev <= peers[p.row].revision
                   => SameIdentity(peers[p.row], peers'[p.row])
             /\ \A call : Says(call, p, peers) => Says(call, p, peers')
  <2>1. p.row \in RowIds /\ p.rev \in Nat
    BY DEF Peer
  <2>2. peers[p.row].revision \in Nat /\ peers'[p.row].revision \in Nat
    BY <2>1 DEF World, Moves, Row
  <2> QED
    BY <2>1, <2>2 DEF World, Moves, Says, SameIdentity
<1>2. \A call : GoodCall(call, peers) => GoodCall(call, peers')
  BY <1>1 DEF GoodCall, Call
<1>3. \A w : GoodWire(w, peers, installed, removed) => GoodWire(w, peers', installed', removed')
  BY <1>2 DEF World, GoodWire, Heard
<1>4. ASSUME NEW x, NEW call, GoodReq(x, call, peers, Registered, installed)
      PROVE  GoodReq(x, call, peers', Registered', installed')
  BY <1>1, <1>4 DEF World, GoodReq, SameIdentity
<1>5. ASSUME NEW x, NEW call, GoodSync(x, call, peers, installed)
      PROVE  GoodSync(x, call, peers', installed')
  <2>1. \A p \in x.todo : p \in Peer
    BY <1>5 DEF GoodSync, SyncState
  <2>2. \A p \in x.todo : p.rev <= peers[p.row].revision => p.rev <= peers'[p.row].revision
    BY <1>1, <2>1
  <2> QED
    BY <1>5, <2>2 DEF World, GoodSync
<1> QED
  BY <1>2, <1>3, <1>4, <1>5

-----------------------------------------------------------------------------
(***************************************************************************)
(* Frames: what is left to show of a step, given who takes it              *)
(***************************************************************************)
\* A process either is where it was, waiting for the same call, or its new
\* local variables agree with the new table.
LEMMA ProcessesKept ==
    ASSUME CallersOK, StrayOK, RequestsOK, JobsOK, PassesOK, SyncsOK, World,
           wire' \in [Callers -> WireState], req' \in [Requests -> ReqState],
           pass' \in [Runners -> PassState], sync' \in [Runners -> SyncState],
           \A c \in Callers : \/ wire'[c] = wire[c]
                              \/ GoodWire(wire'[c], peers', installed', removed'),
           \A call \in stray' : \/ call \in stray
                                \/ \E c \in Callers : wire[c].call # NoCall /\ call = wire[c].call,
           \A q \in Requests :
              \/ req'[q] = req[q] /\ wire'[q].call = wire[q].call
              \/ GoodReq(req'[q], wire'[q].call, peers', Registered', installed'),
           \A p \in Runners, r \in RowIds :
              wire'[<<p, r>>].call = wire[<<p, r>>].call \/ GoodJob(wire'[<<p, r>>].call, r),
           \A p \in Runners :
              \/ /\ pass'[p].pc = pass[p].pc
                 /\ \A r \in RowIds : \/ wire'[<<p, r>>].call = wire[<<p, r>>].call
                                      \/ wire'[<<p, r>>].call = NoCall
              \/ pass'[p].pc = "sweep" => \A r \in RowIds : wire'[<<p, r>>].call = NoCall,
           \A w \in Runners :
              \/ sync'[w] = sync[w] /\ wire'[w].call = wire[w].call
              \/ GoodSync(sync'[w], wire'[w].call, peers', installed')
    PROVE  (CallersOK /\ StrayOK /\ RequestsOK /\ JobsOK /\ PassesOK /\ SyncsOK)'
<1>1. /\ \A call : GoodCall(call, peers) => GoodCall(call, peers')
      /\ \A w : GoodWire(w, peers, installed, removed) => GoodWire(w, peers', installed', removed')
      /\ \A x, call : GoodReq(x, call, peers, Registered, installed)
                         => GoodReq(x, call, peers', Registered', installed')
      /\ \A x, call : GoodSync(x, call, peers, installed) => GoodSync(x, call, peers', installed')
  BY GoodStays
<1>2. CallersOK'
  BY <1>1 DEF CallersOK
<1>3. StrayOK'
  BY <1>1 DEF StrayOK, CallersOK, GoodWire
<1>4. RequestsOK'
  BY <1>1 DEF RequestsOK
<1>5. JobsOK'
  BY DEF JobsOK
<1>6. PassesOK'
  BY DEF PassesOK
<1>7. SyncsOK'
  BY <1>1 DEF SyncsOK
<1> QED
  BY <1>2, <1>3, <1>4, <1>5, <1>6, <1>7

\* No process has the name of another.
LEMMA CallersDiffer ==
    /\ \A q \in Requests, w \in Runners : q # w
    /\ \A c \in Requests \cup Runners, p \in Runners, r \in RowIds : c # <<p, r>>
    /\ \A c \in Callers : c \in Requests \/ c \in Runners \/ \E p \in Runners, r \in RowIds : c = <<p, r>>
    /\ \A c \in Requests \cup Runners : c \in Callers
    /\ \A p \in Runners, r \in RowIds : <<p, r>> \in Callers
BY ProcessAssumption DEF Callers, Runners

\* Nothing is known of a caller that waits for nothing, or of an idle process.
LEMMA NothingUnderWay ==
    ASSUME NEW T, NEW D, NEW I, NEW R
    PROVE  /\ NoCall \notin Call
           /\ Unused \in WireState /\ Unused.call = NoCall /\ GoodWire(Unused, T, I, R)
           /\ Idle \in ReqState /\ GoodReq(Idle, NoCall, T, D, I)
           /\ NoSync \in SyncState /\ GoodSync(NoSync, NoCall, T, I)
           /\ NoPeer \notin Peer
<1>1. NoCall \notin Call
  BY DEF NoCall, Call
<1>2. Unused \in WireState /\ Unused.call = NoCall /\ GoodWire(Unused, T, I, R)
  BY DEF Unused, WireState, GoodWire
<1>3. Idle \in ReqState /\ GoodReq(Idle, NoCall, T, D, I)
  BY DEF Idle, ReqState, GoodReq
<1>4. NoSync \in SyncState /\ GoodSync(NoSync, NoCall, T, I)
  BY DEF NoSync, SyncState, GoodSync
<1>5. NoPeer \notin Peer
  BY NilAssumption DEF NoPeer, Peer
<1> QED
  BY <1>1, <1>2, <1>3, <1>4, <1>5

Processes == CallersOK /\ StrayOK /\ RequestsOK /\ JobsOK /\ PassesOK /\ SyncsOK

\* The calls that may arrive late are late already, or c's that c gives up.
MayStray(c) ==
    \A call \in stray' : call \in stray \/ (wire[c].call # NoCall /\ call = wire[c].call)

\* A step of request q.
LEMMA RequestEdit ==
    ASSUME Processes, World, NEW q \in Requests, NEW x, NEW w,
           req' = [req EXCEPT ![q] = x], wire' = [wire EXCEPT ![q] = w],
           GoodReq(x, w.call, peers', Registered', installed'),
           GoodWire(w, peers', installed', removed'),
           MayStray(q), UNCHANGED <<pass, sync>>
    PROVE  Processes'
<1> USE DEF Processes
<1>1. /\ wire' \in [Callers -> WireState] /\ wire'[q] = w
      /\ \A c \in Callers : c # q => wire'[c] = wire[c]
  BY CallersDiffer DEF CallersOK, GoodWire
<1>2. /\ req' \in [Requests -> ReqState] /\ req'[q] = x
      /\ \A o \in Requests : o # q => req'[o] = req[o]
  BY DEF RequestsOK, GoodReq
<1>3. /\ \A p \in Runners, r \in RowIds : wire'[<<p, r>>] = wire[<<p, r>>]
      /\ \A o \in Runners : wire'[o] = wire[o]
  BY <1>1, CallersDiffer
<1>4. pass' \in [Runners -> PassState] /\ sync' \in [Runners -> SyncState]
  BY DEF PassesOK, SyncsOK
<1>5. \A o \in Requests : \/ req'[o] = req[o] /\ wire'[o].call = wire[o].call
                          \/ GoodReq(req'[o], wire'[o].call, peers', Registered', installed')
  BY <1>1, <1>2, CallersDiffer
<1>6. \A call \in stray' : \/ call \in stray
                           \/ \E c \in Callers : wire[c].call # NoCall /\ call = wire[c].call
  BY CallersDiffer DEF MayStray
<1> QED
  BY <1>1, <1>2, <1>3, <1>4, <1>5, <1>6, ProcessesKept

\* A step of the health sweep or resync of runner w.
LEMMA RunnerEdit ==
    ASSUME Processes, World, NEW w \in Runners, NEW x, NEW m,
           sync' = [sync EXCEPT ![w] = x], wire' = [wire EXCEPT ![w] = m],
           GoodSync(x, m.call, peers', installed'),
           GoodWire(m, peers', installed', removed'),
           MayStray(w), UNCHANGED <<req, pass>>
    PROVE  Processes'
<1> USE DEF Processes
<1>1. /\ wire' \in [Callers -> WireState] /\ wire'[w] = m
      /\ \A c \in Callers : c # w => wire'[c] = wire[c]
  BY CallersDiffer DEF CallersOK, GoodWire
<1>2. /\ sync' \in [Runners -> SyncState] /\ sync'[w] = x
      /\ \A o \in Runners : o # w => sync'[o] = sync[o]
  BY DEF SyncsOK, GoodSync
<1>3. /\ \A p \in Runners, r \in RowIds : wire'[<<p, r>>] = wire[<<p, r>>]
      /\ \A q \in Requests : wire'[q] = wire[q]
  BY <1>1, CallersDiffer
<1>4. req' \in [Requests -> ReqState] /\ pass' \in [Runners -> PassState]
  BY DEF RequestsOK, PassesOK
<1>5. \A o \in Runners : \/ sync'[o] = sync[o] /\ wire'[o].call = wire[o].call
                         \/ GoodSync(sync'[o], wire'[o].call, peers', installed')
  BY <1>1, <1>2, CallersDiffer
<1>6. \A call \in stray' : \/ call \in stray
                           \/ \E c \in Callers : wire[c].call # NoCall /\ call = wire[c].call
  BY CallersDiffer DEF MayStray
<1> QED
  BY <1>1, <1>2, <1>3, <1>4, <1>5, <1>6, ProcessesKept

\* The end of the goroutine of row r.
LEMMA JobEdit ==
    ASSUME Processes, World, NEW p \in Runners, NEW r \in RowIds,
           wire' = [wire EXCEPT ![<<p, r>>] = Unused],
           MayStray(<<p, r>>), UNCHANGED <<req, pass, sync>>
    PROVE  Processes'
<1> USE DEF Processes
<1>1. /\ wire' \in [Callers -> WireState] /\ wire'[<<p, r>>] = Unused
      /\ \A c \in Callers : c # <<p, r>> => wire'[c] = wire[c]
  BY CallersDiffer, NothingUnderWay DEF CallersOK
<1>2. \A c \in Callers : wire'[c] = wire[c] \/ GoodWire(wire'[c], peers', installed', removed')
  BY <1>1, NothingUnderWay
<1>3. /\ \A q \in Requests : wire'[q] = wire[q]
      /\ \A o \in Runners : wire'[o] = wire[o]
  BY <1>1, CallersDiffer
<1>4. \A o \in Runners, s \in RowIds :
         wire'[<<o, s>>].call = wire[<<o, s>>].call \/ wire'[<<o, s>>].call = NoCall
  BY <1>1, CallersDiffer, NothingUnderWay
<1>5. \A o \in Runners, s \in RowIds :
         wire'[<<o, s>>].call = wire[<<o, s>>].call \/ GoodJob(wire'[<<o, s>>].call, s)
  BY <1>4 DEF GoodJob
<1>6. /\ req' \in [Requests -> ReqState] /\ pass' \in [Runners -> PassState]
      /\ sync' \in [Runners -> SyncState]
  BY DEF RequestsOK, PassesOK, SyncsOK
<1>7. \A call \in stray' : \/ call \in stray
                           \/ \E c \in Callers : wire[c].call # NoCall /\ call = wire[c].call
  BY CallersDiffer DEF MayStray
<1> QED
  BY <1>1, <1>2, <1>3, <1>4, <1>5, <1>6, <1>7, ProcessesKept

\* An answer to the call of c.
LEMMA ReplyEdit ==
    ASSUME Processes, World, NEW c \in Callers, NEW a,
           wire' = [wire EXCEPT ![c].reply = a],
           GoodWire([wire[c] EXCEPT !.reply = a], peers', installed', removed'),
           UNCHANGED <<req, pass, sync, stray>>
    PROVE  Processes'
<1> USE DEF Processes
<1>1. /\ wire' \in [Callers -> WireState] /\ wire'[c] = [wire[c] EXCEPT !.reply = a]
      /\ \A d \in Callers : d # c => wire'[d] = wire[d]
  BY DEF CallersOK, GoodWire
<1>2. \A d \in Callers : wire'[d].call = wire[d].call
  BY <1>1 DEF CallersOK, WireState
<1>3. \A d \in Callers : wire'[d] = wire[d] \/ GoodWire(wire'[d], peers', installed', removed')
  BY <1>1
<1>4. /\ \A q \in Requests : wire'[q].call = wire[q].call
      /\ \A o \in Runners : wire'[o].call = wire[o].call
      /\ \A o \in Runners, s \in RowIds : wire'[<<o, s>>].call = wire[<<o, s>>].call
  BY <1>2, CallersDiffer
<1>5. /\ req' \in [Requests -> ReqState] /\ pass' \in [Runners -> PassState]
      /\ sync' \in [Runners -> SyncState]
  BY DEF RequestsOK, PassesOK, SyncsOK
<1> QED
  BY <1>1, <1>3, <1>4, <1>5, ProcessesKept

\* A step of no process.
LEMMA NoEdit ==
    ASSUME Processes, World, UNCHANGED <<req, pass, sync, wire>>, stray' \subseteq stray
    PROVE  Processes'
<1> USE DEF Processes
<1>1. /\ wire' \in [Callers -> WireState] /\ req' \in [Requests -> ReqState]
      /\ pass' \in [Runners -> PassState] /\ sync' \in [Runners -> SyncState]
  BY DEF CallersOK, RequestsOK, PassesOK, SyncsOK
<1> QED
  BY <1>1, ProcessesKept

-----------------------------------------------------------------------------
(***************************************************************************)
(* Active and revoked are only ever written by MarkApplied and MarkRevoked *)
(***************************************************************************)
\* No row is newly active or revoked.
NoNews ==
    \A r \in RowIds : peers'[r].state \in {"active", "revoked"} =>
        peers[r].state = peers'[r].state /\ peers[r].revision = peers'[r].revision

\* A statement that makes no row active or revoked leaves each one confirmed.
LEMMA ConfirmedStays ==
    ASSUME ConfirmedByEdge, NoNews, installed \subseteq installed', removed \subseteq removed'
    PROVE  ConfirmedByEdge'
BY DEF ConfirmedByEdge, NoNews

\* No statement at all.
LEMMA SameTableNoNews == UNCHANGED peers => NoNews
BY DEF NoNews

\* EnsureAssignment leaves the row pending, or as it was.
LEMMA EnsureNoNews ==
    ASSUME StoreInv, NEW d \in Devices, NEW s \in Servers, NEW k \in Keys,
           NEW r \in RowIds, EnsureAssignment(d, s, k, r)
    PROVE  NoNews
<1>1. peers \in [RowIds -> Row]
  BY DEF StoreInv, StoreTypeOK
<1>2. CASE EnsureSame(d, s, k, r)
  BY <1>2 DEF EnsureSame, NoNews
<1>3. CASE EnsureRekey(d, s, k, r)
  BY <1>1, <1>3, RekeyedRow DEF EnsureRekey, NoNews
<1>4. CASE EnsureNew(d, s, k, r)
  BY <1>4, InsertRow DEF StoreInv, NoNews
<1> QED
  BY <1>2, <1>3, <1>4 DEF EnsureAssignment

\* The BeginRevoke statements leave rows revoking.
LEMMA RevokeNoNews ==
    ASSUME StoreInv, NEW R, BeginRevoke(R)
    PROVE  NoNews
BY RevokingRow DEF StoreInv, StoreTypeOK, BeginRevoke, NoNews

\* Rescheduling leaves the state of the row alone.
LEMMA ScheduleNoNews ==
    ASSUME StoreInv, NEW r \in RowIds, MarkAttemptFailed(r) \/ BecomeDue(r)
    PROVE  NoNews
<1>1. peers \in [RowIds -> Row]
  BY DEF StoreInv, StoreTypeOK
<1>2. PICK b \in BOOLEAN : peers' = [peers EXCEPT ![r] = Scheduled(peers[r], b)]
  BY DEF MarkAttemptFailed, BecomeDue
<1> QED
  BY <1>1, <1>2, ScheduledRow DEF NoNews

\* The statement a failed attempt ends with, or its own failure.
LEMMA FailureRecorded ==
    ASSUME StoreInv, ConfirmedByEdge, NEW r \in RowIds, OrLogged(MarkAttemptFailed(r)),
           UNCHANGED <<installed, removed>>
    PROVE  [StoreNext]_peers /\ ConfirmedByEdge'
<1>1. [StoreNext]_peers
  BY DEF OrLogged, StoreNext
<1>2. NoNews
  BY ScheduleNoNews, SameTableNoNews DEF OrLogged
<1> QED
  BY <1>1, <1>2, ConfirmedStays

\* MarkApplied of what was installed, and MarkRevoked of what was removed, by a
\* caller that has read that revision of the row: they pass the revision's guard
\* only if it still is the revision of the row.
LEMMA SuccessRecorded ==
    ASSUME StoreInv, ConfirmedByEdge, NEW r \in RowIds, NEW rev \in Nat,
           1 <= rev, rev <= peers[r].revision,
           \/ <<r, rev>> \in installed /\ OrLogged(MarkApplied(r, rev))
           \/ <<r, rev>> \in removed /\ OrLogged(MarkRevoked(r, rev)),
           UNCHANGED <<installed, removed>>
    PROVE  [StoreNext]_peers /\ ConfirmedByEdge'
<1>1. peers \in [RowIds -> Row] /\ peers[r].revision \in Nat
  BY DEF StoreInv, StoreTypeOK, Row
<1>2. rev \in 1 .. peers[r].revision
  BY <1>1
<1>3. [StoreNext]_peers
  BY <1>2 DEF OrLogged, StoreNext
<1>4. CASE peers' = peers
  BY <1>3, <1>4, SameTableNoNews, ConfirmedStays
<1>5. CASE peers' # peers
  <2>1. rev = peers[r].revision /\ peers[r].applied <= rev
    BY <1>1, <1>5 DEF OrLogged, MarkApplied, MarkRevoked, StoreInv, AppliedTracksRevision
  <2>2. \/ <<r, rev>> \in installed /\ peers' = [peers EXCEPT ![r] = Activated(peers[r], rev)]
        \/ <<r, rev>> \in removed /\ peers' = [peers EXCEPT ![r] = Closed(peers[r], rev)]
    BY <1>5 DEF OrLogged, MarkApplied, MarkRevoked
  <2>3. /\ \A q \in RowIds \ {r} : peers'[q] = peers[q]
        /\ peers'[r].revision = rev
        /\ \/ <<r, rev>> \in installed /\ peers'[r].state = "active"
           \/ <<r, rev>> \in removed /\ peers'[r].state = "revoked"
    BY <1>1, <2>1, <2>2, MarkedRow
  <2> QED
    BY <1>3, <2>3 DEF ConfirmedByEdge
<1> QED
  BY <1>3, <1>4, <1>5

-----------------------------------------------------------------------------
(***************************************************************************)
(* The invariant, put together again after a step                          *)
(***************************************************************************)
\* Every step takes the table where the store may take it, forgets no device
\* and no history.
LEMMA WorldMoves ==
    ASSUME StoreInv, [StoreNext]_peers, Registered \subseteq Registered',
           installed \subseteq installed', removed \subseteq removed'
    PROVE  World
BY StoreMoves DEF World

\* What processes do not touch: the devices, the edge and the histories.
Rest == TablesOK /\ BoxesOK /\ HistoryOK

\* A step of a process other than the health sweep leaves them alone.
LEMMA CallerStep ==
    ASSUME ProvInv, [StoreNext]_peers, ConfirmedByEdge',
           UNCHANGED <<device, entitled, deleting, bootIDs, edge>>
    PROVE  World /\ Rest' /\ (Processes' => ProvInv')
<1>1. Registered' = Registered
  BY DEF Registered
<1>2. World
  BY <1>1, WorldMoves DEF ProvInv, edge
<1>3. Rest'
  BY <1>1 DEF Rest, ProvInv, TablesOK, BoxesOK, HistoryOK, edge
<1> QED
  BY <1>2, <1>3 DEF World, Rest, Processes, ProvInv

\* The same of a step that writes nothing into the table.
LEMMA SilentStep ==
    ASSUME ProvInv, UNCHANGED <<peers, device, entitled, deleting, bootIDs, edge>>
    PROVE  [StoreNext]_peers /\ World /\ Rest' /\ (Processes' => ProvInv')
<1>1. [StoreNext]_peers /\ UNCHANGED <<device, entitled, deleting, bootIDs, edge>>
  OBVIOUS
<1>2. ConfirmedByEdge'
  BY SameTableNoNews, ConfirmedStays DEF ProvInv, edge
<1> QED
  BY <1>1, <1>2, CallerStep

\* Giving up, or being done with, a call.
LEMMA CallEnds ==
    ASSUME CallersOK, NEW c \in Callers, Finish(c) \/ Abandon({c})
    PROVE  wire' = [wire EXCEPT ![c] = Unused] /\ MayStray(c)
<1>1. wire' = [wire EXCEPT ![c] = Unused]
  BY DEF CallersOK, Finish, Abandon
<1>2. MayStray(c)
  BY DEF MayStray, Finish, Abandon, Waiting
<1> QED
  BY <1>1, <1>2

-----------------------------------------------------------------------------
(***************************************************************************)
(* Service.Provision                                                       *)
(***************************************************************************)
\* The peer sent for a row that names a device, and the call that installs it.
LEMMA PeerIsTyped ==
    ASSUME StoreInv, NEW r \in RowIds, peers[r].state # "none"
    PROVE  /\ PeerOf(r, peers[r]) \in Peer
           /\ ApplyPeer(r, peers[r]) \in Call /\ RemovePeer(r, peers[r]) \in Call
           /\ 1 <= peers[r].revision /\ peers[r].revision \in Nat
BY DEF StoreInv, StoreTypeOK, Row, PeerOf, ApplyPeer, RemovePeer, Peer, Call

\* A call about a row as it is says what the table wants.
LEMMA CallIsGood ==
    ASSUME StoreInv, NEW r \in RowIds
    PROVE  /\ Live(r) => GoodCall(ApplyPeer(r, peers[r]), peers)
           /\ peers[r].state = "revoking" => GoodCall(RemovePeer(r, peers[r]), peers)
<1>1. ASSUME peers[r].state # "none", NEW call \in Call, call.peers = {PeerOf(r, peers[r])},
             call.server = peers[r].server, call.op = "remove" <=> ~Live(r)
      PROVE  GoodCall(call, peers)
  <2>1. 1 <= peers[r].revision /\ peers[r].revision \in Nat
    BY <1>1, PeerIsTyped
  <2>2. Says(call, PeerOf(r, peers[r]), peers)
    BY <1>1, <2>1 DEF Says, PeerOf, Live, LiveRow
  <2> QED
    BY <1>1, <2>2 DEF GoodCall
<1>2. /\ ApplyPeer(r, peers[r]).peers = {PeerOf(r, peers[r])}
      /\ ApplyPeer(r, peers[r]).server = peers[r].server /\ ApplyPeer(r, peers[r]).op = "set"
      /\ RemovePeer(r, peers[r]).peers = {PeerOf(r, peers[r])}
      /\ RemovePeer(r, peers[r]).server = peers[r].server /\ RemovePeer(r, peers[r]).op = "remove"
  BY DEF ApplyPeer, RemovePeer
<1>3. CASE Live(r)
  BY <1>1, <1>2, <1>3, PeerIsTyped DEF Live
<1>4. CASE peers[r].state = "revoking"
  BY <1>1, <1>2, <1>4, PeerIsTyped DEF Live
<1> QED
  BY <1>3, <1>4

\* The row EnsureAssignment returns.
LEMMA EnsuredRow ==
    ASSUME StoreInv, NEW d \in Devices, NEW s \in Servers, NEW k \in Keys,
           NEW r \in RowIds, EnsureAssignment(d, s, k, r)
    PROVE  /\ [StoreNext]_peers
           /\ peers'[r].device = d /\ peers'[r].server = s /\ peers'[r].key = k
           /\ peers'[r].state \in {"pending", "active"}
<1>1. peers \in [RowIds -> Row]
  BY DEF StoreInv, StoreTypeOK
<1>2. [StoreNext]_peers
  BY DEF StoreNext
<1>3. CASE EnsureSame(d, s, k, r)
  BY <1>2, <1>3 DEF EnsureSame, RowsOf, Held
<1>4. CASE EnsureRekey(d, s, k, r)
  BY <1>1, <1>2, <1>4, RekeyedRow DEF EnsureRekey, RowsOf, SameIdentity
<1>5. CASE EnsureNew(d, s, k, r)
  BY <1>1, <1>2, <1>5 DEF EnsureNew, NoRow
<1> QED
  BY <1>3, <1>4, <1>5 DEF EnsureAssignment

\* A request step that writes nothing into the table.
LEMMA RequestWaitsForNothing ==
    ASSUME ProvInv, NEW q \in Requests, NEW x, req' = [req EXCEPT ![q] = x],
           GoodReq(x, NoCall, peers, Registered, installed), req[q].pc # "push",
           UNCHANGED <<peers, device, entitled, pass, sync, deleting, bootIDs, wire, stray, edge>>
    PROVE  [StoreNext]_peers /\ ProvInv'
<1>1. Processes /\ wire[q].call = NoCall /\ wire \in [Callers -> WireState]
  BY DEF ProvInv, Processes, RequestsOK, GoodReq, CallersOK
<1>2. [StoreNext]_peers /\ World /\ (Processes' => ProvInv')
  BY SilentStep
<1>3. wire' = [wire EXCEPT ![q] = wire[q]]
  BY <1>1
<1>4. GoodReq(x, wire[q].call, peers', Registered', installed')
  BY <1>1, <1>2, GoodStays
<1>5. GoodWire(wire[q], peers', installed', removed')
  BY <1>2, GoodStays, CallersDiffer DEF ProvInv, CallersOK
<1>6. MayStray(q)
  BY DEF MayStray
<1> QED
  BY <1>1, <1>2, <1>3, <1>4, <1>5, <1>6, RequestEdit

\* A request comes in for a registered device.
LEMMA StartProvisionKeeps ==
    ASSUME ProvInv, NEW q \in Requests, NEW d \in Registered, StartProvision(q, d)
    PROVE  [StoreNext]_peers /\ ProvInv'
<1> DEFINE x == [Idle EXCEPT !.pc = "entitled", !.device = d]
<1>1. d \in Devices
  BY DEF Registered
<1>2. GoodReq(x, NoCall, peers, Registered, installed)
  BY <1>1 DEF GoodReq, ReqState, Idle
<1> HIDE DEF x
<1> QED
  BY <1>2, RequestWaitsForNothing DEF StartProvision, x

\* The key of a registered device is a key.
LEMMA LoadDeviceKeeps ==
    ASSUME ProvInv, NEW q \in Requests, LoadDevice(q)
    PROVE  [StoreNext]_peers /\ ProvInv'
<1> DEFINE x == [req[q] EXCEPT !.pc = "ready", !.key = device[req[q].device].key]
<1>1. req[q].pc = "entitled" /\ GoodReq(req[q], wire[q].call, peers, Registered, installed)
  BY DEF ProvInv, RequestsOK, LoadDevice
<1>2. req[q].device \in Registered
  BY <1>1 DEF GoodReq
<1>3. device[req[q].device].key \in Keys
  BY <1>2 DEF Registered, ProvInv, TablesOK, DeviceState, NoDevice
<1>4. GoodReq(x, NoCall, peers, Registered, installed)
  BY <1>1, <1>2, <1>3 DEF GoodReq, ReqState
<1> HIDE DEF x
<1>5. req' = [req EXCEPT ![q] = x] \/ req' = [req EXCEPT ![q] = Idle]
  BY DEF LoadDevice, x
<1> QED
  BY <1>1, <1>4, <1>5, NothingUnderWay, RequestWaitsForNothing DEF LoadDevice

\* The row is ensured; on the fast path it is active, and by ConfirmedByEdge an
\* agent has installed it at the revision returned.
LEMMA EnsureOnKeeps ==
    ASSUME ProvInv, NEW q \in Requests, NEW s \in Servers, EnsureOn(q, s)
    PROVE  [StoreNext]_peers /\ ProvInv'
<1>1. /\ req[q].pc = "ready" /\ GoodReq(req[q], wire[q].call, peers, Registered, installed)
      /\ Processes /\ wire \in [Callers -> WireState] /\ q \in Callers
  BY CallersDiffer DEF ProvInv, Processes, RequestsOK, CallersOK, EnsureOn, Candidate
<1>2. req[q].device \in Devices /\ req[q].key \in Keys /\ req[q].device \in Registered
  BY <1>1 DEF GoodReq, Registered
<1>3. PICK r \in RowIds :
         /\ EnsureAssignment(req[q].device, s, req[q].key, r)
         /\ req' = [req EXCEPT ![q] =
                      [@ EXCEPT !.pc = IF Applied(peers'[r]) THEN "switch" ELSE "push",
                                !.tried = req[q].tried \cup {s},
                                !.peer = PeerOf(r, peers'[r])]]
         /\ wire' = IF Applied(peers'[r]) THEN wire
                    ELSE [wire EXCEPT ![q] = Sent(ApplyPeer(r, peers'[r]))]
  BY DEF EnsureOn
<1>4. UNCHANGED <<device, entitled, pass, sync, deleting, bootIDs, stray, edge>>
  BY DEF EnsureOn
<1>5. /\ [StoreNext]_peers
      /\ peers'[r].device = req[q].device /\ peers'[r].key = req[q].key
      /\ peers'[r].state \in {"pending", "active"}
  BY <1>2, <1>3, EnsuredRow DEF ProvInv
<1>6. ConfirmedByEdge'
  BY <1>2, <1>3, <1>4, EnsureNoNews, ConfirmedStays DEF ProvInv, edge
<1>7. World /\ Rest' /\ (Processes' => ProvInv')
  BY <1>4, <1>5, <1>6, CallerStep
<1>8. /\ PeerOf(r, peers'[r]) \in Peer /\ GoodCall(ApplyPeer(r, peers'[r]), peers')
      /\ 1 <= peers'[r].revision /\ peers'[r].revision \in Nat
  <2>1. StoreInv' /\ Live(r)'
    BY <1>5, <1>7 DEF World, Live
  <2>2. /\ PeerOf(r, peers'[r]) \in Peer
        /\ 1 <= peers'[r].revision /\ peers'[r].revision \in Nat
    BY <1>5, <2>1 DEF StoreInv, StoreTypeOK, Row, PeerOf, Peer
  <2>3. ApplyPeer(r, peers'[r]) \in Call
    BY <1>5, <2>1, <2>2 DEF StoreInv, StoreTypeOK, Row, ApplyPeer, Call
  <2>4. Says(ApplyPeer(r, peers'[r]), PeerOf(r, peers'[r]), peers')
    BY <2>1, <2>2 DEF Says, ApplyPeer, PeerOf, Live, LiveRow
  <2> QED
    BY <2>2, <2>3, <2>4 DEF GoodCall, ApplyPeer
<1> DEFINE x(c) == [req[q] EXCEPT !.pc = c, !.tried = @ \cup {s}, !.peer = PeerOf(r, peers'[r])]
<1>9. ASSUME NEW c \in {"push", "switch"}
      PROVE  /\ x(c) \in ReqState /\ x(c).pc = c
             /\ x(c).device = req[q].device /\ x(c).key = req[q].key
             /\ x(c).peer = PeerOf(r, peers'[r])
             /\ x(c).peer.row = r /\ x(c).peer.rev = peers'[r].revision
             /\ x(c).peer.key = req[q].key
  BY <1>1, <1>5, <1>8 DEF GoodReq, ReqState, PeerOf
<1>10. MayStray(q)
  BY <1>4 DEF MayStray
<1>11. CASE Applied(peers'[r])
  <2>1. req' = [req EXCEPT ![q] = x("switch")]
    BY <1>3, <1>11
  <2> HIDE DEF x
  <2>2. <<r, peers'[r].revision>> \in installed'
    BY <1>6, <1>11 DEF Applied, ConfirmedByEdge
  <2>3. wire' = [wire EXCEPT ![q] = wire[q]] /\ wire[q].call = NoCall
    BY <1>1, <1>3, <1>11 DEF GoodReq
  <2>4. GoodReq(x("switch"), wire[q].call, peers', Registered', installed')
    BY <1>2, <1>5, <1>7, <1>8, <1>9, <2>2, <2>3 DEF World, GoodReq
  <2>5. GoodWire(wire[q], peers', installed', removed')
    BY <1>1, <1>7, GoodStays DEF Processes, CallersOK
  <2> QED
    BY <1>1, <1>4, <1>5, <1>7, <1>10, <2>1, <2>3, <2>4, <2>5, RequestEdit
<1>12. CASE ~Applied(peers'[r])
  <2> DEFINE w == Sent(ApplyPeer(r, peers'[r]))
  <2>1. req' = [req EXCEPT ![q] = x("push")] /\ wire' = [wire EXCEPT ![q] = w]
    BY <1>3, <1>12
  <2> HIDE DEF x
  <2>2. /\ w.call = ApplyPeer(r, peers'[r]) /\ w.reply = "none" /\ w.call # NoCall
        /\ w.call.op = "set" /\ w.call.peers = {x("push").peer}
    BY <1>9 DEF Sent, ApplyPeer, NoCall
  <2>3. GoodReq(x("push"), w.call, peers', Registered', installed')
    BY <1>2, <1>5, <1>7, <1>8, <1>9, <2>2 DEF World, GoodReq
  <2>4. GoodWire(w, peers', installed', removed')
    BY <1>8, <2>2 DEF GoodWire, WireState, Sent, GoodCall
  <2> HIDE DEF w
  <2> QED
    BY <1>1, <1>4, <1>5, <1>7, <1>10, <2>1, <2>3, <2>4, RequestEdit
<1> QED
  BY <1>11, <1>12

\* A server that cannot be provisioned on is only tried.
LEMMA EnsureFailsKeeps ==
    ASSUME ProvInv, NEW q \in Requests, NEW s \in Servers, EnsureFails(q, s)
    PROVE  [StoreNext]_peers /\ ProvInv'
<1> DEFINE x == [req[q] EXCEPT !.tried = @ \cup {s}]
<1>1. req[q].pc = "ready" /\ GoodReq(req[q], wire[q].call, peers, Registered, installed)
  BY DEF ProvInv, RequestsOK, EnsureFails, Candidate
<1>2. GoodReq(x, NoCall, peers, Registered, installed)
  BY <1>1 DEF GoodReq, ReqState
<1>3. req' = [req EXCEPT ![q] = x]
  BY DEF EnsureFails
<1> HIDE DEF x
<1> QED
  BY <1>1, <1>2, <1>3, RequestWaitsForNothing DEF EnsureFails

\* A request step that ends the call the request waits for.
LEMMA RequestIsDone ==
    ASSUME ProvInv, NEW q \in Requests, NEW x, req' = [req EXCEPT ![q] = x],
           [StoreNext]_peers, ConfirmedByEdge',
           World => GoodReq(x, NoCall, peers', Registered', installed'),
           Finish(q) \/ Abandon({q}),
           UNCHANGED <<device, entitled, pass, sync, deleting, bootIDs, edge>>
    PROVE  ProvInv'
<1>1. Processes /\ CallersOK /\ q \in Callers
  BY CallersDiffer DEF ProvInv, Processes
<1>2. World /\ Rest' /\ (Processes' => ProvInv')
  BY CallerStep
<1>3. wire' = [wire EXCEPT ![q] = Unused] /\ MayStray(q)
  BY <1>1, CallEnds
<1>4. Unused.call = NoCall /\ GoodWire(Unused, peers', installed', removed')
  BY NothingUnderWay
<1> QED
  BY <1>1, <1>2, <1>3, <1>4, RequestEdit

\* What a request knows of the row it has pushed.
LEMMA PushedPeer ==
    ASSUME ProvInv, NEW q \in Requests, req[q].pc = "push"
    PROVE  /\ GoodReq(req[q], wire[q].call, peers, Registered, installed)
           /\ wire[q].call # NoCall /\ wire[q].call.peers = {req[q].peer}
           /\ wire[q].call.op = "set"
           /\ req[q].peer.row \in RowIds /\ req[q].peer.rev \in Nat
           /\ 1 <= req[q].peer.rev /\ req[q].peer.rev <= peers[req[q].peer.row].revision
           /\ Answered(q, "ok") => <<req[q].peer.row, req[q].peer.rev>> \in installed
<1>1. GoodReq(req[q], wire[q].call, peers, Registered, installed)
  BY DEF ProvInv, RequestsOK
<1>2. GoodWire(wire[q], peers, installed, removed)
  BY CallersDiffer DEF ProvInv, CallersOK
<1>3. req[q].peer \in Peer
  BY <1>1 DEF GoodReq
<1>4. Answered(q, "ok") => <<req[q].peer.row, req[q].peer.rev>> \in installed
  BY <1>1, <1>2 DEF Answered, GoodReq, GoodWire, Heard, Confirmed
<1> QED
  BY <1>1, <1>3, <1>4 DEF GoodReq, Peer

\* The answer is recorded, or not, and the request goes on either way.
LEMMA PushOkKeeps ==
    ASSUME ProvInv, NEW q \in Requests, PushOk(q)
    PROVE  [StoreNext]_peers /\ ProvInv'
<1> DEFINE x == [req[q] EXCEPT !.pc = "switch"]  p == req[q].peer
<1>1. req[q].pc = "push" /\ Answered(q, "ok")
  BY DEF PushOk
<1>2. /\ GoodReq(req[q], wire[q].call, peers, Registered, installed)
      /\ p.row \in RowIds /\ p.rev \in Nat /\ 1 <= p.rev /\ p.rev <= peers[p.row].revision
      /\ <<p.row, p.rev>> \in installed
  BY <1>1, PushedPeer
<1>3. [StoreNext]_peers /\ ConfirmedByEdge'
  BY <1>2, SuccessRecorded DEF PushOk, ProvInv, edge
<1>4. ASSUME World PROVE GoodReq(x, NoCall, peers', Registered', installed')
  <2>1. GoodReq(req[q], wire[q].call, peers', Registered', installed')
    BY <1>2, <1>4, GoodStays
  <2>2. <<p.row, p.rev>> \in installed'
    BY <1>2, <1>4 DEF World
  <2>3. x \in ReqState /\ x.pc = "switch" /\ x.device = req[q].device /\ x.key = req[q].key /\ x.peer = p
    BY <2>1 DEF GoodReq, ReqState
  <2> QED
    BY <1>1, <2>1, <2>2, <2>3 DEF GoodReq
<1>5. req' = [req EXCEPT ![q] = x]
  BY DEF PushOk
<1> HIDE DEF x
<1> QED
  BY <1>3, <1>4, <1>5, RequestIsDone DEF PushOk

\* The failure is recorded, or not, and the next candidate is tried.
LEMMA PushFailsKeeps ==
    ASSUME ProvInv, NEW q \in Requests, PushFails(q)
    PROVE  [StoreNext]_peers /\ ProvInv'
<1> DEFINE x == [req[q] EXCEPT !.pc = "ready", !.peer = NoPeer]
<1>1. /\ GoodReq(req[q], wire[q].call, peers, Registered, installed)
      /\ req[q].pc = "push" /\ req[q].peer.row \in RowIds
  BY PushedPeer DEF PushFails
<1>2. [StoreNext]_peers /\ ConfirmedByEdge'
  BY <1>1, FailureRecorded DEF PushFails, ProvInv, edge
<1>3. ASSUME World PROVE GoodReq(x, NoCall, peers', Registered', installed')
  <2>1. GoodReq(req[q], wire[q].call, peers', Registered', installed')
    BY <1>1, <1>3, GoodStays
  <2>2. x \in ReqState /\ x.pc = "ready" /\ x.device = req[q].device /\ x.key = req[q].key
    BY <2>1 DEF GoodReq, ReqState
  <2> QED
    BY <1>1, <2>1, <2>2 DEF GoodReq
<1>4. req' = [req EXCEPT ![q] = x]
  <2>1. req \in [Requests -> ReqState] /\ req[q] \in ReqState
    BY DEF ProvInv, RequestsOK
  <2> QED
    BY <2>1 DEF PushFails, ReqState
<1> HIDE DEF x
<1> QED
  BY <1>2, <1>3, <1>4, RequestIsDone DEF PushFails

\* The failure is recorded, or not, and the request is over.
LEMMA PushRejectedKeeps ==
    ASSUME ProvInv, NEW q \in Requests, PushRejected(q)
    PROVE  [StoreNext]_peers /\ ProvInv'
<1>1. req[q].peer.row \in RowIds
  BY PushedPeer DEF PushRejected
<1>2. [StoreNext]_peers /\ ConfirmedByEdge'
  BY <1>1, FailureRecorded DEF PushRejected, ProvInv, edge
<1> QED
  BY <1>2, NothingUnderWay, RequestIsDone DEF PushRejected

\* A BeginRevoke of the rows R by any caller, or its failure.
LEMMA RevokeRecorded ==
    ASSUME ProvInv, NEW R, OrLogged(BeginRevoke(R)), UNCHANGED <<installed, removed>>
    PROVE  ConfirmedByEdge'
BY RevokeNoNews, SameTableNoNews, ConfirmedStays DEF ProvInv, OrLogged

\* The server spared is the one of the row the request has installed.
LEMMA SwitchServerKeeps ==
    ASSUME ProvInv, NEW q \in Requests, SwitchServer(q)
    PROVE  [StoreNext]_peers /\ ProvInv'
<1> DEFINE kept == peers[req[q].peer.row].server
<1>1. GoodReq(req[q], wire[q].call, peers, Registered, installed) /\ req[q].pc = "switch"
  BY DEF ProvInv, RequestsOK, SwitchServer
<1>2. /\ req[q].peer.row \in RowIds /\ req[q].peer.rev \in Nat
      /\ 1 <= req[q].peer.rev /\ req[q].peer.rev <= peers[req[q].peer.row].revision
      /\ req[q].device \in Devices
  BY <1>1 DEF GoodReq, Peer, Registered
<1>3. kept \in Servers
  BY <1>2 DEF ProvInv, StoreInv, StoreTypeOK, Row
<1>4. [StoreNext]_peers
  BY <1>2, <1>3 DEF SwitchServer, OrLogged, StoreNext
<1>5. ConfirmedByEdge'
  BY RevokeRecorded DEF SwitchServer, OrLogged, BeginRevokeOtherServers, edge
<1>6. Processes /\ World /\ (Processes' => ProvInv')
  BY <1>4, <1>5, CallerStep DEF SwitchServer, ProvInv, Processes
<1>7. /\ wire' = [wire EXCEPT ![q] = wire[q]] /\ wire[q].call = NoCall
      /\ GoodWire(wire[q], peers', installed', removed') /\ MayStray(q)
  BY <1>1, <1>6, GoodStays, CallersDiffer
     DEF SwitchServer, GoodReq, Processes, CallersOK, MayStray
<1>8. req' = [req EXCEPT ![q] = Idle] /\ UNCHANGED <<pass, sync>>
  BY DEF SwitchServer
<1> QED
  BY <1>4, <1>6, <1>7, <1>8, NothingUnderWay, RequestEdit

\* A request that gives up knows nothing any more,
LEMMA GiveUpKeeps ==
    ASSUME ProvInv, NEW q \in Requests, GiveUp(q)
    PROVE  [StoreNext]_peers /\ ProvInv'
BY NothingUnderWay, RequestWaitsForNothing DEF GiveUp

\* nor does one whose client hangs up; its call may still arrive.
LEMMA DisconnectKeeps ==
    ASSUME ProvInv, NEW q \in Requests, Disconnect(q)
    PROVE  [StoreNext]_peers /\ ProvInv'
<1>1. [StoreNext]_peers /\ ConfirmedByEdge'
  BY SameTableNoNews, ConfirmedStays DEF Disconnect, ProvInv, edge
<1> QED
  BY <1>1, NothingUnderWay, RequestIsDone DEF Disconnect

\* Every step of a request is a statement of the store, or none, and keeps the
\* invariant.
LEMMA ProvisionStepKeeps ==
    ASSUME ProvInv, NEW q \in Requests, ProvisionStep(q)
    PROVE  [StoreNext]_peers /\ ProvInv'
BY StartProvisionKeeps, LoadDeviceKeeps, EnsureOnKeeps, EnsureFailsKeeps, PushOkKeeps,
   PushFailsKeeps, PushRejectedKeeps, SwitchServerKeeps, GiveUpKeeps, DisconnectKeeps
   DEF ProvisionStep

-----------------------------------------------------------------------------
(***************************************************************************)
(* Reconciler.Once                                                         *)
(***************************************************************************)
\* A step of the pass of p that waits for nothing and sends nothing.
LEMMA PassEdit ==
    ASSUME ProvInv, NEW p \in Runners, NEW x \in PassState, pass' = [pass EXCEPT ![p] = x],
           x.pc = "sweep" => \A r \in RowIds : wire[<<p, r>>].call = NoCall,
           [StoreNext]_peers, ConfirmedByEdge',
           UNCHANGED <<device, entitled, req, sync, deleting, bootIDs, wire, stray, edge>>
    PROVE  ProvInv'
<1>1. World /\ (Processes' => ProvInv')
  BY CallerStep
<1>2. CallersOK /\ StrayOK /\ RequestsOK /\ JobsOK /\ PassesOK /\ SyncsOK
  BY DEF ProvInv
<1>3. /\ pass' \in [Runners -> PassState] /\ pass'[p] = x
      /\ \A o \in Runners : o # p => pass'[o] = pass[o]
  BY <1>2 DEF PassesOK
<1>4. /\ wire' \in [Callers -> WireState] /\ req' \in [Requests -> ReqState]
      /\ sync' \in [Runners -> SyncState]
  BY <1>2 DEF CallersOK, RequestsOK, SyncsOK
<1>5. \A o \in Runners :
         \/ /\ pass'[o].pc = pass[o].pc
            /\ \A r \in RowIds : \/ wire'[<<o, r>>].call = wire[<<o, r>>].call
                                 \/ wire'[<<o, r>>].call = NoCall
         \/ pass'[o].pc = "sweep" => \A r \in RowIds : wire'[<<o, r>>].call = NoCall
  BY <1>3
<1>6. Processes'
  BY <1>1, <1>2, <1>3, <1>4, <1>5, ProcessesKept DEF Processes
<1> QED
  BY <1>1, <1>6

\* A pass begins with none of its calls in flight.
LEMMA StartPassKeeps ==
    ASSUME ProvInv, NEW p \in Runners, StartPass(p)
    PROVE  [StoreNext]_peers /\ ProvInv'
<1>1. [StoreNext]_peers /\ ConfirmedByEdge'
  BY SameTableNoNews, ConfirmedStays DEF StartPass, ProvInv, edge
<1>2. [pc |-> "sweep", users |-> ExpiredUserIDs] \in PassState
  BY DEF PassState, ExpiredUserIDs
<1>3. \A r \in RowIds : wire[<<p, r>>].call = NoCall
  BY DEF StartPass, Jobs, Quiet
<1> QED
  BY <1>1, <1>2, <1>3, PassEdit DEF StartPass

\* The sweep withdraws the peers of a user whose time is over.
LEMMA SweepUserKeeps ==
    ASSUME ProvInv, NEW p \in Runners, NEW u \in Users, SweepUser(p, u)
    PROVE  [StoreNext]_peers /\ ProvInv'
<1> DEFINE x == [pass[p] EXCEPT !.users = @ \ {u}]
<1>1. [StoreNext]_peers
  BY DEF SweepUser, OrLogged, BeginRevokeForUser, DevicesOf, StoreNext
<1>2. ConfirmedByEdge'
  BY RevokeRecorded
     DEF SweepUser, OrLogged, BeginRevokeForUser, BeginRevokeForDevices, edge
<1>3. x \in PassState /\ x.pc = "sweep" /\ pass' = [pass EXCEPT ![p] = x]
  BY DEF SweepUser, ProvInv, PassesOK, PassState
<1>4. \A r \in RowIds : wire[<<p, r>>].call = NoCall
  BY DEF SweepUser, ProvInv, PassesOK
<1> HIDE DEF x
<1> QED
  BY <1>1, <1>2, <1>3, <1>4, PassEdit DEF SweepUser

\* Every due row gets a goroutine, with a call about that row as it is.
LEMMA ApplyDueKeeps ==
    ASSUME ProvInv, NEW p \in Runners, ApplyDue(p)
    PROVE  [StoreNext]_peers /\ ProvInv'
<1> DEFINE m(r) == Sent(IF peers[r].state = "pending"
                        THEN ApplyPeer(r, peers[r]) ELSE RemovePeer(r, peers[r]))
<1>1. /\ CallersOK /\ StrayOK /\ RequestsOK /\ JobsOK /\ PassesOK /\ SyncsOK
      /\ StoreInv /\ pass[p].pc = "sweep"
  BY DEF ProvInv, ApplyDue
<1>2. [StoreNext]_peers /\ World /\ (Processes' => ProvInv')
  BY SilentStep DEF ApplyDue
<1>3. ASSUME NEW r \in DueAssignments
      PROVE  m(r) \in WireState /\ GoodWire(m(r), peers, installed, removed)
             /\ GoodJob(m(r).call, r)
  <2>1. r \in RowIds /\ peers[r].state \in {"pending", "revoking"}
    BY DEF DueAssignments
  <2>2. GoodCall(m(r).call, peers) /\ m(r).reply = "none"
    BY <1>1, <2>1, CallIsGood DEF Sent, Live
  <2>3. m(r).call.op \in {"set", "remove"} /\ m(r).call.peers = {PeerOf(r, peers[r])}
    BY DEF Sent, ApplyPeer, RemovePeer
  <2>4. m(r) \in WireState
    BY <2>2 DEF Sent, WireState, GoodCall
  <2> QED
    BY <2>2, <2>3, <2>4 DEF GoodWire, GoodJob, PeerOf
<1>4. /\ \A c \in Callers : wire'[c] = IF c \in Jobs(p) /\ c[2] \in DueAssignments
                                       THEN m(c[2]) ELSE wire[c]
      /\ DOMAIN wire' = Callers /\ wire' = [c \in Callers |-> wire'[c]]
  BY DEF ApplyDue
<1> HIDE DEF m
<1>5. \A c \in Callers : wire'[c] \in WireState
  BY <1>1, <1>3, <1>4 DEF CallersOK
<1>6. wire' \in [Callers -> WireState]
  BY <1>4, <1>5
<1>7. \A c \in Callers : wire'[c] = wire[c] \/ GoodWire(wire'[c], peers', installed', removed')
  BY <1>2, <1>3, <1>4, GoodStays
<1>8. /\ \A q \in Requests : wire'[q] = wire[q]
      /\ \A o \in Runners : wire'[o] = wire[o]
      /\ \A o \in Runners, r \in RowIds : o # p => wire'[<<o, r>>] = wire[<<o, r>>]
  BY <1>4, CallersDiffer DEF Jobs
<1>9. \A r \in RowIds : wire'[<<p, r>>] = wire[<<p, r>>] \/ GoodJob(wire'[<<p, r>>].call, r)
  BY <1>3, <1>4, CallersDiffer
<1>10. /\ pass' \in [Runners -> PassState] /\ pass'[p].pc = "rest"
       /\ \A o \in Runners : o # p => pass'[o] = pass[o]
  BY <1>1 DEF PassesOK, PassState, ApplyDue
<1>11. /\ req' = req /\ sync' = sync /\ stray' = stray
       /\ req' \in [Requests -> ReqState] /\ sync' \in [Runners -> SyncState]
  BY <1>1 DEF ApplyDue, RequestsOK, SyncsOK
<1>12. \A o \in Runners, r \in RowIds :
          wire'[<<o, r>>].call = wire[<<o, r>>].call \/ GoodJob(wire'[<<o, r>>].call, r)
  BY <1>8, <1>9
<1>13. \A o \in Runners :
          \/ /\ pass'[o].pc = pass[o].pc
             /\ \A r \in RowIds : \/ wire'[<<o, r>>].call = wire[<<o, r>>].call
                                  \/ wire'[<<o, r>>].call = NoCall
          \/ pass'[o].pc = "sweep" => \A r \in RowIds : wire'[<<o, r>>].call = NoCall
  BY <1>8, <1>10
<1>14. Processes'
  BY <1>1, <1>2, <1>6, <1>7, <1>8, <1>10, <1>11, <1>12, <1>13, ProcessesKept DEF Processes
<1> QED
  BY <1>2, <1>14

\* What the goroutine of row r knows of the call it made.
LEMMA JobKnows ==
    ASSUME ProvInv, NEW p \in Runners, NEW r \in RowIds,
           Answered(<<p, r>>, "ok"), NEW peer \in wire[<<p, r>>].call.peers
    PROVE  LET call == wire[<<p, r>>].call IN
           /\ call.op \in {"set", "remove"}
           /\ peer.rev \in Nat /\ 1 <= peer.rev /\ peer.rev <= peers[r].revision
           /\ <<r, peer.rev>> \in IF call.op = "remove" THEN removed ELSE installed
<1> DEFINE call == wire[<<p, r>>].call
<1>1. GoodWire(wire[<<p, r>>], peers, installed, removed) /\ GoodJob(call, r)
  BY CallersDiffer DEF ProvInv, CallersOK, JobsOK
<1>2. /\ call.op \in {"set", "remove"} /\ peer.row = r
      /\ GoodCall(call, peers) /\ Heard(call, installed, removed)
  BY <1>1 DEF Answered, GoodWire, GoodJob
<1> HIDE DEF call
<1>3. peer \in Peer /\ Says(call, peer, peers)
  BY <1>2 DEF GoodCall, Call, call
<1>4. <<peer.row, peer.rev>> \in Confirmed(call)
  BY DEF Confirmed, call
<1> QED
  BY <1>2, <1>3, <1>4 DEF Peer, Says, Heard, call

\* A step that ends a goroutine.
LEMMA JobIsDone ==
    ASSUME ProvInv, NEW p \in Runners, NEW r \in RowIds,
           [StoreNext]_peers, ConfirmedByEdge',
           Finish(<<p, r>>) \/ Abandon({<<p, r>>}), UNCHANGED <<control, edge>>
    PROVE  ProvInv'
<1>1. Processes /\ CallersOK /\ <<p, r>> \in Callers
  BY CallersDiffer DEF ProvInv, Processes
<1>2. World /\ (Processes' => ProvInv')
  BY CallerStep DEF control
<1>3. wire' = [wire EXCEPT ![<<p, r>>] = Unused] /\ MayStray(<<p, r>>)
  BY <1>1, CallEnds
<1> QED
  BY <1>1, <1>2, <1>3, JobEdit DEF control

\* A goroutine records what the agent confirmed to it,
LEMMA JobOkKeeps ==
    ASSUME ProvInv, NEW p \in Runners, NEW r \in RowIds, JobOk(p, r)
    PROVE  [StoreNext]_peers /\ ProvInv'
<1>1. PICK peer \in wire[<<p, r>>].call.peers :
         IF wire[<<p, r>>].call.op = "set" THEN MarkApplied(r, peer.rev) ELSE MarkRevoked(r, peer.rev)
  BY DEF JobOk
<1>2. /\ wire[<<p, r>>].call.op \in {"set", "remove"}
      /\ peer.rev \in Nat /\ 1 <= peer.rev /\ peer.rev <= peers[r].revision
      /\ <<r, peer.rev>> \in IF wire[<<p, r>>].call.op = "remove" THEN removed ELSE installed
  BY JobKnows DEF JobOk
<1>3. [StoreNext]_peers /\ ConfirmedByEdge'
  BY <1>1, <1>2, SuccessRecorded DEF JobOk, ProvInv, OrLogged, edge
<1> QED
  BY <1>3, JobIsDone DEF JobOk

\* or that it has to be tried again.
LEMMA JobFailsKeeps ==
    ASSUME ProvInv, NEW p \in Runners, NEW r \in RowIds, JobFails(p, r)
    PROVE  [StoreNext]_peers /\ ProvInv'
<1>1. [StoreNext]_peers /\ ConfirmedByEdge'
  BY FailureRecorded DEF JobFails, ProvInv, edge
<1> QED
  BY <1>1, JobIsDone DEF JobFails

\* Every step of a pass is a statement of the store, or none, and keeps the
\* invariant.
LEMMA PassStepKeeps ==
    ASSUME ProvInv, NEW p \in Runners, PassStep(p)
    PROVE  [StoreNext]_peers /\ ProvInv'
BY StartPassKeeps, ApplyDueKeeps, SweepUserKeeps, JobOkKeeps, JobFailsKeeps DEF PassStep

-----------------------------------------------------------------------------
(***************************************************************************)
(* Reconciler.HealthSweep and Resync                                       *)
(***************************************************************************)
\* A count of peers is a number.
LEMMA CountIsNat == \A b : Count(b) \in Nat
<1>1. ASSUME NEW b PROVE Count(b) \in Nat
  <2>1. {k \in Keys : b[k] # Nil} \subseteq Keys
    OBVIOUS
  <2>2. IsFiniteSet({k \in Keys : b[k] # Nil})
    BY <2>1, KeysAssumption, FS_Subset
  <2> QED
    BY <2>2, FS_CardinalityType DEF Count
<1> QED
  BY <1>1

\* A resync step that neither sends a call nor ends one.
LEMMA SyncEdit ==
    ASSUME ProvInv, World, NEW w \in Runners, NEW x, sync' = [sync EXCEPT ![w] = x],
           GoodSync(x, NoCall, peers', installed'), sync[w].pc # "push",
           UNCHANGED <<req, pass, wire, stray>>
    PROVE  Processes'
<1>1. Processes /\ wire[w].call = NoCall /\ wire' = [wire EXCEPT ![w] = wire[w]]
  BY DEF ProvInv, Processes, SyncsOK, GoodSync, CallersOK
<1>2. GoodWire(wire[w], peers', installed', removed') /\ MayStray(w)
  BY GoodStays, CallersDiffer DEF ProvInv, CallersOK, MayStray
<1> QED
  BY <1>1, <1>2, RunnerEdit

\* An admin asks for a resync.
LEMMA AdminResyncKeeps ==
    ASSUME ProvInv, NEW w \in Admins, NEW s \in Servers, AdminResync(w, s)
    PROVE  [StoreNext]_peers /\ ProvInv'
<1> DEFINE x == [NoSync EXCEPT !.pc = "read", !.server = s]
<1>1. w \in Runners /\ sync[w].pc = "idle"
  BY DEF Runners, AdminResync
<1>2. [StoreNext]_peers /\ World /\ (Processes' => ProvInv')
  BY SilentStep DEF AdminResync
<1>3. GoodSync(x, NoCall, peers', installed')
  <2>1. NoSync \in SyncState
    BY NothingUnderWay
  <2>2. x \in SyncState /\ x.pc = "read" /\ x.server = s
    BY <2>1 DEF SyncState
  <2> QED
    BY <2>2 DEF GoodSync
<1>4. sync' = [sync EXCEPT ![w] = x]
  BY DEF AdminResync
<1> HIDE DEF x
<1> QED
  BY <1>1, <1>2, <1>3, <1>4, SyncEdit DEF AdminResync

\* The health sweep compares what the agent reported.
LEMMA CompareCountKeeps ==
    ASSUME ProvInv, CompareCount
    PROVE  [StoreNext]_peers /\ ProvInv'
<1> DEFINE zero == 0
           x == [sync[Ticker] EXCEPT !.pc = "read", !.count = zero]
<1>0. zero \in Int /\ zero = 0
  OBVIOUS
<1> HIDE DEF zero
<1>1. Ticker \in Runners /\ sync[Ticker].pc = "compare"
  BY DEF Runners, CompareCount
<1>2. [StoreNext]_peers /\ World /\ (Processes' => ProvInv')
  BY SilentStep DEF CompareCount
<1>3. GoodSync(sync[Ticker], wire[Ticker].call, peers, installed)
  BY <1>1 DEF ProvInv, SyncsOK
<1>4. GoodSync(x, NoCall, peers', installed')
  <2>1. sync[Ticker] \in SyncState /\ sync[Ticker].server \in Servers
    BY <1>1, <1>3 DEF GoodSync
  <2>2. x \in SyncState /\ x.pc = "read" /\ x.server \in Servers
    BY <1>0, <2>1 DEF SyncState
  <2> QED
    BY <2>2 DEF GoodSync
<1>5. sync' = [sync EXCEPT ![Ticker] = x] \/ sync' = [sync EXCEPT ![Ticker] = NoSync]
  BY <1>0 DEF CompareCount
<1>6. sync[Ticker].pc # "push" /\ UNCHANGED <<req, pass, wire, stray>>
  BY <1>1 DEF CompareCount
<1> HIDE DEF x
<1> QED
  BY <1>1, <1>2, <1>4, <1>5, <1>6, NothingUnderWay, SyncEdit

\* The instance id of the box is remembered.
LEMMA CheckHealthKeeps ==
    ASSUME ProvInv, NEW s \in Servers, CheckHealth(s)
    PROVE  [StoreNext]_peers /\ ProvInv'
<1>1. UNCHANGED <<peers, device, entitled, req, pass, deleting, wire, stray, edge>>
  BY DEF CheckHealth
<1>2. Registered' = Registered
  BY <1>1 DEF Registered
<1>3. [StoreNext]_peers /\ World
  BY <1>1, <1>2, WorldMoves DEF ProvInv, edge
<1>4. Ticker \in Runners /\ sync[Ticker].pc # "push"
  BY DEF Runners, CheckHealth
<1>5. PICK n \in PeerCounts(s) \cup {-1} : sync' = [sync EXCEPT ![Ticker] =
         IF bootIDs[s] = boot[s] THEN NoSync
         ELSE IF bootIDs[s] # Nil
         THEN [NoSync EXCEPT !.pc = "read", !.server = s]
         ELSE [NoSync EXCEPT !.pc = "compare", !.server = s, !.count = n]]
  BY DEF CheckHealth
<1>6. n \in Int
  BY CountIsNat DEF PeerCounts
<1> DEFINE read == [NoSync EXCEPT !.pc = "read", !.server = s]
           compare == [NoSync EXCEPT !.pc = "compare", !.server = s, !.count = n]
<1>7. /\ GoodSync(read, NoCall, peers', installed')
      /\ GoodSync(compare, NoCall, peers', installed')
  <2>1. NoSync \in SyncState
    BY NothingUnderWay
  <2>2. read \in SyncState /\ read.pc = "read" /\ read.server = s
    BY <2>1 DEF SyncState
  <2>3. compare \in SyncState /\ compare.pc = "compare" /\ compare.server = s
    BY <1>6, <2>1 DEF SyncState
  <2> QED
    BY <2>2, <2>3 DEF GoodSync
<1>8. \/ sync' = [sync EXCEPT ![Ticker] = NoSync]
      \/ sync' = [sync EXCEPT ![Ticker] = read]
      \/ sync' = [sync EXCEPT ![Ticker] = compare]
  BY <1>5
<1> HIDE DEF read, compare
<1>9. Processes'
  BY <1>1, <1>3, <1>4, <1>7, <1>8, NothingUnderWay, SyncEdit
<1>10. TablesOK'
  BY <1>1, <1>2 DEF ProvInv, TablesOK, BoxesOK, CheckHealth, edge
<1>11. (BoxesOK /\ HistoryOK)'
  BY <1>1 DEF ProvInv, BoxesOK, HistoryOK, edge
<1>12. ConfirmedByEdge'
  BY <1>1, SameTableNoNews, ConfirmedStays DEF ProvInv, edge
<1> QED
  BY <1>3, <1>9, <1>10, <1>11, <1>12 DEF World, Processes, ProvInv

\* Every live row of the server is in the call, at its present revision.
LEMMA ReadLiveKeeps ==
    ASSUME ProvInv, NEW w \in Runners, ReadLive(w)
    PROVE  [StoreNext]_peers /\ ProvInv'
<1> DEFINE zero == 0
           s == sync[w].server
           todo == {PeerOf(r, peers[r]) : r \in {x \in LiveRowsOn(s) : peers[x].state = "pending"}}
           x == [sync[w] EXCEPT !.pc = "push", !.count = zero, !.todo = todo]
           call == SyncPeers(s)
           m == Sent(call)
<1>0. zero \in Int /\ zero = 0
  OBVIOUS
<1> HIDE DEF zero
<1>1. sync[w].pc = "read" /\ GoodSync(sync[w], wire[w].call, peers, installed)
  BY DEF ProvInv, SyncsOK, ReadLive
<1>2. [StoreNext]_peers /\ World /\ (Processes' => ProvInv')
  BY SilentStep DEF ReadLive
<1>3. s \in Servers
  BY <1>1 DEF GoodSync
<1> HIDE DEF s
<1>4. ASSUME NEW r \in LiveRowsOn(s)
      PROVE  PeerOf(r, peers[r]) \in Peer /\ Says(call, PeerOf(r, peers[r]), peers)
  <2>1. r \in RowIds /\ Live(r) /\ peers[r].server = s
    BY DEF LiveRowsOn
  <2>2. /\ PeerOf(r, peers[r]) \in Peer
        /\ 1 <= peers[r].revision /\ peers[r].revision \in Nat
    BY <2>1, PeerIsTyped DEF Live, ProvInv
  <2> QED
    BY <2>1, <2>2 DEF Says, SyncPeers, PeerOf, Live, LiveRow
<1>5. /\ call.op = "sync" /\ call.server = s /\ call.replaces = Nil
      /\ call.peers = {PeerOf(r, peers[r]) : r \in LiveRowsOn(s)}
  BY DEF SyncPeers
<1>6. GoodCall(call, peers)
  <2>1. call \in Call
    BY <1>3, <1>4 DEF SyncPeers, Call
  <2> QED
    BY <1>4, <1>5, <2>1 DEF GoodCall
<1>7. todo \subseteq call.peers /\ todo \subseteq Peer
  BY <1>4, <1>5
<1> HIDE DEF call, todo
<1>8. m.call = call /\ m.reply = "none" /\ call # NoCall
  BY <1>5 DEF Sent, NoCall
<1>9. GoodWire(m, peers', installed', removed')
  BY <1>2, <1>6, <1>8, GoodStays DEF GoodWire, WireState, Sent, GoodCall
<1>10. GoodSync(x, m.call, peers', installed')
  <2>1. sync[w] \in SyncState
    BY <1>1 DEF GoodSync
  <2>2. x \in SyncState /\ x.pc = "push" /\ x.todo = todo
    BY <1>0, <1>7, <2>1 DEF SyncState
  <2> QED
    BY <1>5, <1>7, <1>8, <2>2 DEF GoodSync
<1>11. sync' = [sync EXCEPT ![w] = x] /\ wire' = [wire EXCEPT ![w] = m]
  BY <1>0 DEF ReadLive, s, todo, call
<1>12. MayStray(w) /\ UNCHANGED <<req, pass>>
  BY DEF ReadLive, MayStray
<1> HIDE DEF x, m
<1>13. Processes'
  BY <1>2, <1>9, <1>10, <1>11, <1>12, RunnerEdit DEF ProvInv, Processes
<1> QED
  BY <1>2, <1>13

\* A resync step that ends the call.
LEMMA SyncIsDone ==
    ASSUME ProvInv, NEW w \in Runners, NEW x, sync' = [sync EXCEPT ![w] = x],
           World => GoodSync(x, NoCall, peers', installed'),
           Finish(w) \/ Abandon({w}),
           UNCHANGED <<peers, device, entitled, req, pass, deleting, bootIDs, edge>>
    PROVE  [StoreNext]_peers /\ ProvInv'
<1>1. Processes /\ CallersOK /\ w \in Callers
  BY CallersDiffer DEF ProvInv, Processes
<1>2. [StoreNext]_peers /\ World /\ (Processes' => ProvInv')
  BY SilentStep
<1>3. wire' = [wire EXCEPT ![w] = Unused] /\ MayStray(w)
  BY <1>1, CallEnds
<1>4. Unused.call = NoCall /\ GoodWire(Unused, peers', installed', removed')
  BY NothingUnderWay
<1> QED
  BY <1>1, <1>2, <1>3, <1>4, RunnerEdit

\* All the rows to be marked were part of the call that was confirmed.
LEMMA SyncOkKeeps ==
    ASSUME ProvInv, NEW w \in Runners, SyncOk(w)
    PROVE  [StoreNext]_peers /\ ProvInv'
<1> DEFINE x == [sync[w] EXCEPT !.pc = "mark"]  call == wire[w].call
<1>1. /\ sync[w].pc = "push" /\ Answered(w, "ok")
      /\ GoodSync(sync[w], call, peers, installed)
      /\ GoodWire(wire[w], peers, installed, removed)
  BY CallersDiffer DEF ProvInv, SyncsOK, CallersOK, SyncOk
<1>2. /\ call.op = "sync" /\ sync[w].todo \subseteq call.peers
      /\ GoodCall(call, peers) /\ Confirmed(call) \subseteq installed
  BY <1>1 DEF Answered, GoodSync, GoodWire, Heard
<1>3. \A p \in sync[w].todo :
         1 <= p.rev /\ p.rev <= peers[p.row].revision /\ <<p.row, p.rev>> \in installed
  BY <1>2 DEF GoodCall, Says, Confirmed
<1>4. GoodSync(x, NoCall, peers, installed)
  BY <1>1, <1>3 DEF GoodSync, SyncState
<1>5. sync' = [sync EXCEPT ![w] = x] \/ sync' = [sync EXCEPT ![w] = NoSync]
  BY DEF SyncOk
<1> HIDE DEF x
<1>6. World => GoodSync(x, NoCall, peers', installed')
  BY <1>4, GoodStays
<1> QED
  BY <1>5, <1>6, NothingUnderWay, SyncIsDone DEF SyncOk

\* A resync that fails marks nothing.
LEMMA SyncFailsKeeps ==
    ASSUME ProvInv, NEW w \in Runners, SyncFails(w)
    PROVE  [StoreNext]_peers /\ ProvInv'
BY NothingUnderWay, SyncIsDone DEF SyncFails

\* A row is marked at the revision that was confirmed.
LEMMA MarkSyncedKeeps ==
    ASSUME ProvInv, NEW w \in Runners, MarkSynced(w)
    PROVE  [StoreNext]_peers /\ ProvInv'
<1>1. PICK p \in sync[w].todo :
         /\ OrLogged(MarkApplied(p.row, p.rev))
         /\ sync' = [sync EXCEPT ![w] = IF sync[w].todo = {p} THEN NoSync
                                        ELSE [@ EXCEPT !.todo = sync[w].todo \ {p}]]
  BY DEF MarkSynced
<1> DEFINE x == [sync[w] EXCEPT !.todo = sync[w].todo \ {p}]
<1>2. sync[w].pc = "mark" /\ GoodSync(sync[w], wire[w].call, peers, installed)
  BY DEF ProvInv, SyncsOK, MarkSynced
<1>3. /\ p.row \in RowIds /\ p.rev \in Nat
      /\ 1 <= p.rev /\ p.rev <= peers[p.row].revision /\ <<p.row, p.rev>> \in installed
  BY <1>2 DEF GoodSync, SyncState, Peer
<1>4. [StoreNext]_peers /\ ConfirmedByEdge'
  BY <1>1, <1>3, SuccessRecorded DEF MarkSynced, ProvInv, edge
<1>5. World /\ (Processes' => ProvInv')
  BY <1>4, CallerStep DEF MarkSynced
<1>6. GoodSync(x, NoCall, peers, installed)
  BY <1>2 DEF GoodSync, SyncState
<1>7. sync' = [sync EXCEPT ![w] = x] \/ sync' = [sync EXCEPT ![w] = NoSync]
  BY <1>1
<1> HIDE DEF x
<1>8. GoodSync(x, NoCall, peers', installed')
  BY <1>5, <1>6, GoodStays
<1>9. sync[w].pc # "push" /\ UNCHANGED <<req, pass, wire, stray>>
  BY <1>2 DEF MarkSynced
<1>10. Processes'
  BY <1>5, <1>7, <1>8, <1>9, NothingUnderWay, SyncEdit
<1> QED
  BY <1>4, <1>5, <1>10

\* Every step of a resync is a statement of the store, or none, and keeps the
\* invariant.
LEMMA SyncStepKeeps ==
    ASSUME ProvInv, NEW w \in Runners, SyncStep(w)
    PROVE  [StoreNext]_peers /\ ProvInv'
BY ReadLiveKeeps, SyncOkKeeps, SyncFailsKeeps, MarkSyncedKeeps DEF SyncStep

-----------------------------------------------------------------------------
(***************************************************************************)
(* The agents                                                              *)
(***************************************************************************)
\* Whatever a handler gets done leaves an interface.
LEMMA InterfacesStay ==
    ASSUME NEW b \in Interface, NEW call \in Call
    PROVE  Handle(b, call).done \in Interface /\ Failed(b, call) \subseteq Interface
<1>1. ASSUME NEW a \in Interface, NEW K PROVE Without(a, K) \in Interface
  BY DEF Without, Interface
<1>2. ASSUME NEW a \in Interface, NEW P \in SUBSET Peer PROVE With(a, P) \in Interface
  <2>1. ASSUME NEW k \in Keys, k \in KeysOf(P)
        PROVE  (CHOOSE p \in P : p.key = k).ip \in Addresses
    <3>1. \E p \in P : p.key = k
      BY <2>1 DEF KeysOf
    <3>2. (CHOOSE p \in P : p.key = k) \in P
      BY <3>1
    <3> QED
      BY <3>2 DEF Peer
  <2> QED
    BY <2>1 DEF With, Interface
<1>3. call.peers \subseteq Peer /\ Wanted(call.peers) \subseteq Peer
  BY DEF Call, Wanted
<1>4. CASE call.op = "set"
  <2>1. Without(b, {call.replaces} \ KeysOf(call.peers)) \in Interface
    BY <1>1
  <2>2. With(Without(b, {call.replaces} \ KeysOf(call.peers)), call.peers) \in Interface
    BY <1>2, <1>3, <2>1
  <2> QED
    BY <1>4, <2>1, <2>2 DEF Handle, Failed, SetPeer
<1>5. CASE call.op = "remove"
  BY <1>1, <1>5 DEF Handle, Failed, Remove
<1>6. CASE call.op = "sync"
  <2> DEFINE cleared == Without(b, Extra(b, call.peers))
  <2>1. cleared \in Interface
    BY <1>1
  <2>2. ASSUME NEW P \in SUBSET Wanted(call.peers) PROVE With(cleared, P) \in Interface
    BY <1>2, <1>3, <2>1
  <2>3. Handle(b, call) = [done |-> With(cleared, Wanted(call.peers)),
                           partial |-> {Without(b, K) : K \in SUBSET Extra(b, call.peers)}
                                       \cup {With(cleared, P) : P \in SUBSET Wanted(call.peers)}]
    BY <1>6 DEF Handle, Sync
  <2> HIDE DEF cleared
  <2> QED
    BY <1>1, <2>2, <2>3 DEF Failed
<1> QED
  BY <1>4, <1>5, <1>6 DEF Call

\* Only the edge changes, and the histories grow by pairs of rows and revisions.
LEMMA EdgeStep ==
    ASSUME ProvInv, UNCHANGED <<peers, control>>, BoxesOK', HistoryOK',
           installed \subseteq installed', removed \subseteq removed'
    PROVE  [StoreNext]_peers /\ World /\ (Processes' => ProvInv')
<1>1. Registered' = Registered
  BY DEF Registered, control
<1>2. [StoreNext]_peers /\ World
  BY <1>1, WorldMoves DEF ProvInv
<1>3. TablesOK'
  BY <1>1 DEF ProvInv, TablesOK, control
<1>4. ConfirmedByEdge'
  BY SameTableNoNews, ConfirmedStays DEF ProvInv
<1> QED
  BY <1>2, <1>3, <1>4 DEF World, Processes, ProvInv

\* The call of a caller that waits.
LEMMA WaitingCall ==
    ASSUME ProvInv, NEW c \in Callers, Waiting(c)
    PROVE  /\ wire[c] \in WireState /\ wire[c].call # NoCall
           /\ GoodCall(wire[c].call, peers) /\ wire[c].call \in Call
           /\ wire[c].call.server \in Servers
           /\ Confirmed(wire[c].call) \subseteq RowIds \X Nat
           /\ box[wire[c].call.server] \in Interface
<1>1. wire[c] \in WireState /\ wire[c].call # NoCall /\ GoodCall(wire[c].call, peers)
  BY DEF ProvInv, CallersOK, GoodWire, Waiting
<1>2. wire[c].call \in Call
  BY <1>1 DEF GoodCall
<1> QED
  BY <1>1, <1>2 DEF Call, Peer, Confirmed, ProvInv, BoxesOK

\* The agent has done it, and says so: the histories record it.
LEMMA AgentOkKeeps ==
    ASSUME ProvInv, NEW c \in Callers, AgentOk(c)
    PROVE  [StoreNext]_peers /\ ProvInv'
<1> DEFINE call == wire[c].call
<1>1. /\ wire[c] \in WireState /\ call # NoCall /\ GoodCall(call, peers) /\ call \in Call
      /\ call.server \in Servers /\ Confirmed(call) \subseteq RowIds \X Nat
      /\ box[call.server] \in Interface
  BY WaitingCall DEF AgentOk
<1> HIDE DEF call
<1>2. /\ box' = [box EXCEPT ![call.server] = Handle(box[call.server], call).done]
      /\ wire' = [wire EXCEPT ![c].reply = "ok"]
      /\ installed' = IF call.op = "remove" THEN installed ELSE installed \cup Confirmed(call)
      /\ removed' = IF call.op = "remove" THEN removed \cup Confirmed(call) ELSE removed
      /\ UNCHANGED <<peers, control, stray, boot>>
  BY DEF AgentOk, call
<1>3. BoxesOK'
  BY <1>1, <1>2, InterfacesStay DEF ProvInv, BoxesOK
<1>4. HistoryOK' /\ installed \subseteq installed' /\ removed \subseteq removed'
  BY <1>1, <1>2 DEF ProvInv, HistoryOK
<1>5. [StoreNext]_peers /\ World /\ (Processes' => ProvInv')
  BY <1>2, <1>3, <1>4, EdgeStep
<1>6. Heard(call, installed', removed')
  BY <1>2 DEF Heard
<1>7. /\ [wire[c] EXCEPT !.reply = "ok"] \in WireState
      /\ [wire[c] EXCEPT !.reply = "ok"].call = call
  BY <1>1 DEF WireState, call
<1>8. GoodWire([wire[c] EXCEPT !.reply = "ok"], peers', installed', removed')
  BY <1>1, <1>2, <1>6, <1>7 DEF GoodWire
<1>9. Processes'
  BY <1>2, <1>5, <1>8, ReplyEdit DEF ProvInv, Processes, control
<1> QED
  BY <1>5, <1>9

\* Any other answer, and what was done before it.
LEMMA OtherReplyKeeps ==
    ASSUME ProvInv, NEW c \in Callers, Waiting(c), NEW a \in {"failed", "rejected"},
           wire' = [wire EXCEPT ![c].reply = a], BoxesOK',
           UNCHANGED <<peers, control, stray, installed, removed>>
    PROVE  [StoreNext]_peers /\ ProvInv'
<1>1. wire[c] \in WireState /\ GoodCall(wire[c].call, peers)
  BY WaitingCall
<1>2. [StoreNext]_peers /\ World /\ (Processes' => ProvInv')
  BY EdgeStep DEF ProvInv, HistoryOK
<1>3. /\ [wire[c] EXCEPT !.reply = a] \in WireState
      /\ [wire[c] EXCEPT !.reply = a].call = wire[c].call
      /\ [wire[c] EXCEPT !.reply = a].reply = a
  BY <1>1 DEF WireState
<1>4. GoodWire([wire[c] EXCEPT !.reply = a], peers', installed', removed')
  BY <1>1, <1>3 DEF GoodWire
<1>5. Processes'
  BY <1>2, <1>4, ReplyEdit DEF ProvInv, Processes, control
<1> QED
  BY <1>2, <1>5

\* A failing handler of the agent confirms nothing,
LEMMA AgentFailsKeeps ==
    ASSUME ProvInv, NEW c \in Callers, AgentFails(c)
    PROVE  [StoreNext]_peers /\ ProvInv'
<1> DEFINE call == wire[c].call
<1>1. call \in Call /\ call.server \in Servers /\ box[call.server] \in Interface
  BY WaitingCall DEF AgentFails
<1>2. PICK b \in Failed(box[call.server], call) : box' = [box EXCEPT ![call.server] = b]
  BY DEF AgentFails
<1> HIDE DEF call
<1>3. BoxesOK'
  BY <1>1, <1>2, InterfacesStay DEF ProvInv, BoxesOK, AgentFails
<1> QED
  BY <1>3, OtherReplyKeeps DEF AgentFails

\* nor does one that rejects the call.
LEMMA AgentRejectsKeeps ==
    ASSUME ProvInv, NEW c \in Callers, AgentRejects(c)
    PROVE  [StoreNext]_peers /\ ProvInv'
BY OtherReplyKeeps DEF AgentRejects, edge, ProvInv, BoxesOK

\* A late call changes a box and nothing else: nobody hears of it.
LEMMA StrayArrivesKeeps ==
    ASSUME ProvInv, NEW call \in stray, StrayArrives(call)
    PROVE  [StoreNext]_peers /\ ProvInv'
<1>1. call \in Call
  BY DEF ProvInv, StrayOK, GoodCall
<1>2. call.server \in Servers /\ box[call.server] \in Interface
  BY <1>1 DEF Call, ProvInv, BoxesOK
<1>3. PICK b \in Failed(box[call.server], call) : box' = [box EXCEPT ![call.server] = b]
  BY DEF StrayArrives
<1>4. BoxesOK'
  BY <1>1, <1>2, <1>3, InterfacesStay DEF ProvInv, BoxesOK, StrayArrives
<1>5. [StoreNext]_peers /\ World /\ (Processes' => ProvInv')
  BY <1>4, EdgeStep DEF StrayArrives, ProvInv, HistoryOK
<1>6. Processes'
  BY <1>5, NoEdit DEF StrayArrives, ProvInv, Processes, control
<1> QED
  BY <1>5, <1>6

\* A box that is rebuilt is empty; what it once confirmed stays said.
LEMMA RebuildKeeps ==
    ASSUME ProvInv, NEW s \in Servers, Rebuild(s)
    PROVE  [StoreNext]_peers /\ ProvInv'
<1>1. BoxesOK'
  <2>1. boot \in [Servers -> 0 .. MaxRebuilds] /\ box \in [Servers -> Interface]
    BY DEF ProvInv, BoxesOK
  <2>2. boot[s] + 1 \in 0 .. MaxRebuilds
    BY <2>1, LimitsAssumption DEF Rebuild
  <2>3. [k \in Keys |-> Nil] \in Interface
    BY DEF Interface
  <2> QED
    BY <2>1, <2>2, <2>3 DEF BoxesOK, Rebuild
<1>2. [StoreNext]_peers /\ World /\ (Processes' => ProvInv')
  BY <1>1, EdgeStep DEF Rebuild, ProvInv, HistoryOK
<1>3. Processes'
  BY <1>2, NoEdit DEF Rebuild, ProvInv, Processes, control
<1> QED
  BY <1>2, <1>3

-----------------------------------------------------------------------------
(***************************************************************************)
(* Users, the clock, and the control plane restarting                      *)
(***************************************************************************)
\* A step on the devices, the subscriptions or the table that no process takes.
LEMMA OutsideStep ==
    ASSUME ProvInv, [StoreNext]_peers, ConfirmedByEdge', TablesOK',
           Registered \subseteq Registered',
           UNCHANGED <<req, pass, sync, wire, stray, edge>>
    PROVE  ProvInv'
<1>1. World
  BY WorldMoves DEF ProvInv, edge
<1>2. Processes'
  BY <1>1, NoEdit DEF ProvInv, Processes
<1>3. (BoxesOK /\ HistoryOK)'
  BY DEF ProvInv, BoxesOK, HistoryOK, edge
<1> QED
  BY <1>1, <1>2, <1>3 DEF World, Processes, ProvInv

\* A step on the devices and the subscriptions only.
LEMMA OwnersStep ==
    ASSUME ProvInv, TablesOK', Registered \subseteq Registered',
           UNCHANGED <<peers, req, pass, sync, wire, stray, edge>>
    PROVE  [StoreNext]_peers /\ ProvInv'
<1>1. [StoreNext]_peers /\ ConfirmedByEdge'
  BY SameTableNoNews, ConfirmedStays DEF ProvInv, edge
<1> QED
  BY <1>1, OutsideStep

\* A registered device is never forgotten: its row is retired, not deleted.
LEMMA DeviceStepsKeep ==
    ASSUME ProvInv,
           \/ \E u \in Users, k \in Keys : RegisterDevice(u, k)
           \/ \E d \in Devices : ReRegister(d) \/ (\E k \in Keys : RotateKey(d, k)) \/ DeleteEnd(d)
    PROVE  [StoreNext]_peers /\ ProvInv'
<1>1. TablesOK
  BY DEF ProvInv
<1>2. ASSUME NEW u \in Users, NEW k \in Keys, RegisterDevice(u, k)
      PROVE  TablesOK' /\ Registered \subseteq Registered'
  <2>1. PICK d \in Devices \ Registered :
           device' = [device EXCEPT ![d] = [user |-> u, key |-> k, revoked |-> FALSE]]
    BY <1>2 DEF RegisterDevice
  <2>2. device' \in [Devices -> DeviceState]
    BY <1>1, <2>1 DEF TablesOK, DeviceState
  <2>3. Registered \subseteq Registered'
    BY <1>1, <2>1 DEF TablesOK, Registered
  <2> QED
    BY <1>1, <1>2, <2>2, <2>3 DEF TablesOK, RegisterDevice
<1>3. ASSUME NEW d \in Registered, NEW x \in [user : Users, key : Keys, revoked : BOOLEAN],
             x.user = device[d].user, device' = [device EXCEPT ![d] = x],
             entitled' = entitled, bootIDs' = bootIDs, deleting' \subseteq deleting
      PROVE  TablesOK' /\ Registered \subseteq Registered'
  <2>1. device' \in [Devices -> DeviceState]
    BY <1>1, <1>3 DEF TablesOK, DeviceState
  <2>2. Registered \subseteq Registered'
    BY <1>1, <1>3 DEF TablesOK, Registered
  <2> QED
    BY <1>1, <1>3, <2>1, <2>2 DEF TablesOK
<1>4. \A d \in Registered :
         d \in Devices /\ device[d] \in [user : Users, key : Keys, revoked : BOOLEAN]
  <2>1. ASSUME NEW d \in Registered
        PROVE  d \in Devices /\ device[d] \in [user : Users, key : Keys, revoked : BOOLEAN]
    <3>1. d \in Devices /\ device[d].user # Nil /\ device[d] \in DeviceState
      BY <1>1 DEF TablesOK, Registered
    <3> QED
      BY <3>1 DEF DeviceState, NoDevice
  <2> QED
    BY <2>1
<1>5. ASSUME NEW d \in Devices, ReRegister(d)
      PROVE  TablesOK' /\ Registered \subseteq Registered'
  BY <1>3, <1>4, <1>5 DEF ReRegister
<1>6. ASSUME NEW d \in Devices, NEW k \in Keys, RotateKey(d, k)
      PROVE  TablesOK' /\ Registered \subseteq Registered'
  BY <1>3, <1>4, <1>6 DEF RotateKey
<1>7. ASSUME NEW d \in Devices, DeleteEnd(d)
      PROVE  TablesOK' /\ Registered \subseteq Registered'
  BY <1>1, <1>3, <1>4, <1>7 DEF DeleteEnd, TablesOK
<1>8. TablesOK' /\ Registered \subseteq Registered'
  BY <1>2, <1>5, <1>6, <1>7
<1>9. UNCHANGED <<peers, req, pass, sync, wire, stray, edge>>
  BY DEF RegisterDevice, ReRegister, RotateKey, DeleteEnd
<1> QED
  BY <1>8, <1>9, OwnersStep

\* The steps that leave the devices table alone.
LEMMA OtherUserStepsKeep ==
    ASSUME ProvInv,
           \/ \E u \in Users : Expire(u) \/ GrantTimeBlock(u)
           \/ \E d \in Devices : DeleteBegin(d) \/ DeleteFails(d) \/ Release(d)
           \/ \E r \in RowIds : RetryTimeReached(r)
    PROVE  [StoreNext]_peers /\ ProvInv'
<1>1. TablesOK
  BY DEF ProvInv
<1>2. device' = device
  BY DEF Expire, GrantTimeBlock, DeleteBegin, DeleteFails, Release, RetryTimeReached, control
<1>3. Registered' = Registered
  BY <1>2 DEF Registered
<1>4. CASE \E u \in Users : Expire(u) \/ GrantTimeBlock(u)
  <2>1. TablesOK' /\ UNCHANGED <<peers, req, pass, sync, wire, stray, edge>>
    BY <1>1, <1>2, <1>3, <1>4 DEF TablesOK, Expire, GrantTimeBlock
  <2> QED
    BY <1>3, <2>1, OwnersStep
<1>5. CASE \E d \in Devices : DeleteFails(d)
  <2>1. TablesOK' /\ UNCHANGED <<peers, req, pass, sync, wire, stray, edge>>
    BY <1>1, <1>2, <1>3, <1>5 DEF TablesOK, DeleteFails
  <2> QED
    BY <1>3, <2>1, OwnersStep
<1>6. ASSUME NEW d \in Devices, DeleteBegin(d) \/ Release(d)
      PROVE  [StoreNext]_peers /\ ProvInv'
  <2>1. BeginRevokeForDevices({d}) /\ d \in Registered
    BY <1>6 DEF DeleteBegin, Release
  <2>2. [StoreNext]_peers
    BY <2>1 DEF StoreNext
  <2>3. UNCHANGED <<req, pass, sync, wire, stray, edge>>
    BY <1>6 DEF DeleteBegin, Release, control
  <2>4. ConfirmedByEdge'
    BY <2>1, <2>3, RevokeRecorded DEF BeginRevokeForDevices, OrLogged, edge
  <2>5. TablesOK'
    BY <1>1, <1>2, <1>3, <1>6, <2>1 DEF TablesOK, DeleteBegin, Release, control
  <2> QED
    BY <1>3, <2>2, <2>3, <2>4, <2>5, OutsideStep
<1>7. ASSUME NEW r \in RowIds, RetryTimeReached(r)
      PROVE  [StoreNext]_peers /\ ProvInv'
  <2>1. BecomeDue(r) /\ UNCHANGED <<control, wire, stray, edge>>
    BY <1>7 DEF RetryTimeReached
  <2>2. [StoreNext]_peers
    BY <2>1 DEF StoreNext
  <2>3. ConfirmedByEdge'
    BY <2>1, ScheduleNoNews, ConfirmedStays DEF ProvInv, edge
  <2>4. TablesOK'
    BY <1>1, <1>3, <2>1 DEF TablesOK, control
  <2> QED
    BY <1>3, <2>1, <2>2, <2>3, <2>4, OutsideStep DEF control
<1> QED
  BY <1>4, <1>5, <1>6, <1>7

\* Every process forgets, every call is given up.
LEMMA RestartKeeps ==
    ASSUME ProvInv, Restart
    PROVE  [StoreNext]_peers /\ ProvInv'
<1>1. /\ CallersOK /\ StrayOK /\ RequestsOK /\ JobsOK /\ PassesOK /\ SyncsOK /\ TablesOK
      /\ UNCHANGED <<peers, device, entitled, edge>>
  BY DEF ProvInv, Restart
<1>2. Registered' = Registered
  BY <1>1 DEF Registered
<1>3. [StoreNext]_peers /\ World
  BY <1>1, <1>2, WorldMoves DEF ProvInv, edge
<1>4. wire' = [c \in Callers |-> Unused]
  BY DEF Restart, Abandon
<1>5. /\ wire' \in [Callers -> WireState]
      /\ \A c \in Callers : wire'[c].call = NoCall
      /\ \A c \in Callers : GoodWire(wire'[c], peers', installed', removed')
  BY <1>4, NothingUnderWay
<1>6. /\ req' \in [Requests -> ReqState]
      /\ \A q \in Requests : GoodReq(req'[q], wire'[q].call, peers', Registered', installed')
  <2>1. req' = [q \in Requests |-> Idle] /\ \A q \in Requests : wire'[q].call = NoCall
    BY <1>5, CallersDiffer DEF Restart
  <2>2. Idle \in ReqState /\ GoodReq(Idle, NoCall, peers', Registered', installed')
    BY NothingUnderWay
  <2> QED
    BY <2>1, <2>2
<1>7. /\ sync' \in [Runners -> SyncState]
      /\ \A w \in Runners : GoodSync(sync'[w], wire'[w].call, peers', installed')
  <2>1. sync' = [w \in Runners |-> NoSync] /\ \A w \in Runners : wire'[w].call = NoCall
    BY <1>5, CallersDiffer DEF Restart
  <2>2. NoSync \in SyncState /\ GoodSync(NoSync, NoCall, peers', installed')
    BY NothingUnderWay
  <2> QED
    BY <2>1, <2>2
<1>8. pass' \in [Runners -> PassState] /\ \A p \in Runners : pass'[p].pc = "rest"
  BY DEF Restart, PassState
<1>9. \A p \in Runners, r \in RowIds : GoodJob(wire'[<<p, r>>].call, r)
  BY <1>5, CallersDiffer DEF GoodJob
<1>10. \A call \in stray' : \/ call \in stray
                            \/ \E c \in Callers : wire[c].call # NoCall /\ call = wire[c].call
  BY DEF Restart, Abandon, Waiting
<1>11. Processes'
  BY <1>1, <1>3, <1>5, <1>6, <1>7, <1>8, <1>9, <1>10, ProcessesKept DEF Processes
<1>12. TablesOK'
  BY <1>1, <1>2 DEF TablesOK, Restart
<1>13. (BoxesOK /\ HistoryOK)'
  BY <1>1 DEF ProvInv, BoxesOK, HistoryOK, edge
<1>14. ConfirmedByEdge'
  BY <1>1, SameTableNoNews, ConfirmedStays DEF ProvInv, edge
<1> QED
  BY <1>3, <1>11, <1>12, <1>13, <1>14 DEF World, Processes, ProvInv

-----------------------------------------------------------------------------
(***************************************************************************)
(* The theorems                                                            *)
(***************************************************************************)
\* The control plane starts with empty tables and nothing under way.
LEMMA InitProvInv == Init => ProvInv
<1> SUFFICES ASSUME Init PROVE ProvInv
  OBVIOUS
<1>1. StoreInv
  BY InitStoreInv DEF Init
<1>2. TablesOK
  BY DEF Init, TablesOK, DeviceState, NoDevice
<1>3. wire = [c \in Callers |-> Unused]
  BY DEF Init
<1>4. CallersOK
  BY <1>3, NothingUnderWay DEF CallersOK
<1>5. RequestsOK
  <2>1. req = [q \in Requests |-> Idle] /\ \A q \in Requests : wire[q].call = NoCall
    BY <1>3, NothingUnderWay, CallersDiffer DEF Init
  <2>2. Idle \in ReqState /\ GoodReq(Idle, NoCall, peers, Registered, installed)
    BY NothingUnderWay
  <2> QED
    BY <2>1, <2>2 DEF RequestsOK
<1>6. SyncsOK
  <2>1. sync = [w \in Runners |-> NoSync] /\ \A w \in Runners : wire[w].call = NoCall
    BY <1>3, NothingUnderWay, CallersDiffer DEF Init
  <2>2. NoSync \in SyncState /\ GoodSync(NoSync, NoCall, peers, installed)
    BY NothingUnderWay
  <2> QED
    BY <2>1, <2>2 DEF SyncsOK
<1>7. JobsOK
  BY <1>3, NothingUnderWay, CallersDiffer DEF JobsOK, GoodJob
<1>8. PassesOK
  BY DEF Init, PassesOK, PassState
<1>9. StrayOK /\ HistoryOK
  BY DEF Init, StrayOK, HistoryOK
<1>10. BoxesOK
  BY LimitsAssumption DEF Init, BoxesOK, Interface
<1>11. ConfirmedByEdge
  BY DEF Init, StoreInit, ConfirmedByEdge, NoRow
<1> QED
  BY <1>1, <1>2, <1>4, <1>5, <1>6, <1>7, <1>8, <1>9, <1>10, <1>11 DEF ProvInv

\* Every step is a statement of the store, or leaves the table alone, and keeps
\* the invariant.
LEMMA ProvInvInductive == ProvInv /\ [Next]_vars => [StoreNext]_peers /\ ProvInv'
<1> SUFFICES ASSUME ProvInv, [Next]_vars PROVE [StoreNext]_peers /\ ProvInv'
  OBVIOUS
<1>1. ASSUME NEW w \in Admins, NEW s \in Servers, AdminResync(w, s)
      PROVE  [StoreNext]_peers /\ ProvInv'
  BY <1>1, AdminResyncKeeps
<1>2. CASE HealthStep
  BY <1>2, CheckHealthKeeps, CompareCountKeeps DEF HealthStep
<1>3. CASE AgentStep
  BY <1>3, AgentOkKeeps, AgentFailsKeeps, AgentRejectsKeeps, StrayArrivesKeeps, RebuildKeeps
     DEF AgentStep
<1>4. CASE UserStep
  BY <1>4, DeviceStepsKeep, OtherUserStepsKeep DEF UserStep
<1>5. ASSUME NEW r \in RowIds, RetryTimeReached(r)
      PROVE  [StoreNext]_peers /\ ProvInv'
  BY <1>5, OtherUserStepsKeep
<1>6. CASE UNCHANGED vars
  <2>1. TablesOK' /\ Registered' = Registered
    BY <1>6 DEF ProvInv, TablesOK, Registered, vars, control
  <2> QED
    BY <1>6, <2>1, OwnersStep DEF vars, control
<1> QED
  BY <1>1, <1>2, <1>3, <1>4, <1>5, <1>6, ProvisionStepKeeps, PassStepKeeps, SyncStepKeeps,
     RestartKeeps DEF Next

\* What each process knows of the table, the calls and their answers is right.
THEOREM ProvisioningCorrect == Spec => []ProvInv
BY InitProvInv, ProvInvInductive, PTL DEF Spec

\* The real callers, with their retries, late calls and restarts, only do to the
\* table what the abstract store allows any caller: they pass MarkApplied and
\* MarkRevoked a revision the row has had, provision registered devices on known
\* servers, and withdraw whole devices or other servers.
THEOREM CallersUseTheStore == Spec => StoreSpec
<1>1. Init => StoreInit
  BY DEF Init
<1> QED
  BY <1>1, ProvInvInductive, ProvisioningCorrect, PTL DEF Spec, StoreSpec

\* A call names its revision for ever: it is recognisably old, or it still says
\* what the table wants.
THEOREM CallsKeepTheirMeaning == Spec => []CallsNameTheirRevision
<1>1. ASSUME ProvInv PROVE CallsNameTheirRevision
  <2>1. ASSUME NEW call \in Outstanding, NEW p \in call.peers
        PROVE  GoodCall(call, peers)
    <3>1. CASE call \in stray
      BY <1>1, <3>1 DEF ProvInv, StrayOK
    <3>2. ASSUME NEW c \in Callers, call = wire[c].call PROVE GoodCall(call, peers)
      <4>1. call # NoCall
        BY <2>1 DEF NoCall
      <4> QED
        BY <1>1, <3>2, <4>1 DEF ProvInv, CallersOK, GoodWire
    <3> QED
      BY <3>1, <3>2 DEF Outstanding
  <2>2. ASSUME NEW call \in Outstanding, NEW p \in call.peers
        PROVE  Says(call, p, peers)
    BY <2>1, <2>2 DEF GoodCall
  <2> QED
    BY <2>2 DEF CallsNameTheirRevision, Says, Live, LiveRow
<1> QED
  BY <1>1, ProvisioningCorrect, PTL

\* Active and revoked mean that an agent has answered ok at that revision.
THEOREM RowsAreConfirmed == Spec => []ConfirmedByEdge
<1>1. ProvInv => ConfirmedByEdge
  BY DEF ProvInv
<1> QED
  BY <1>1, ProvisioningCorrect, PTL

\* The config Provision returns names a key and a row that an agent has installed.
THEOREM AnswersAreInstalled == Spec => []AnsweredWasInstalled
<1>1. ProvInv => AnsweredWasInstalled
  BY DEF ProvInv, RequestsOK, GoodReq, AnsweredWasInstalled
<1> QED
  BY <1>1, ProvisioningCorrect, PTL

\* Tables, processes and calls are of their types, and a process has a call
\* outstanding exactly when it waits for one.
THEOREM ProvisioningTypes == Spec => []TypeOK
<1>1. ASSUME ProvInv PROVE TypeOK
  <2>1. StoreTypeOK /\ entitled \subseteq Users /\ deleting \subseteq Registered
    BY <1>1 DEF ProvInv, StoreInv, TablesOK
  <2>2. \A d \in Devices :
          \/ device[d] = [user |-> Nil, key |-> Nil, revoked |-> FALSE]
          \/ device[d] \in [user : Users, key : Keys, revoked : BOOLEAN]
    BY <1>1 DEF ProvInv, TablesOK, DeviceState, NoDevice
  <2>3. \A q \in Requests :
          /\ req[q].pc \in {"idle", "entitled", "ready", "push", "switch"}
          /\ req[q].device \in Registered \cup {Nil} /\ req[q].key \in Keys \cup {Nil}
          /\ req[q].tried \subseteq Servers
          /\ req[q].peer = NoPeer \/ req[q].peer \in Peer
          /\ req[q].pc = "push" <=> ~Quiet(q)
    BY <1>1 DEF ProvInv, RequestsOK, ReqState, GoodReq, Quiet
  <2>4. \A p \in Runners :
          /\ pass[p].pc \in {"rest", "sweep"} /\ pass[p].users \subseteq Users
          /\ pass[p].pc = "sweep" => \A c \in Jobs(p) : Quiet(c)
    BY <1>1 DEF ProvInv, PassesOK, PassState, Jobs, Quiet
  <2>5. \A w \in Runners :
          /\ sync[w].pc \in {"idle", "compare", "read", "push", "mark"}
          /\ sync[w].server \in Servers \cup {Nil} /\ sync[w].count \in Int
          /\ sync[w].todo \subseteq Peer
          /\ sync[w].pc = "push" <=> ~Quiet(w)
    BY <1>1 DEF ProvInv, SyncsOK, SyncState, GoodSync, Quiet
  <2>6. \A c \in Callers :
          /\ wire[c].reply \in {"none", "ok", "failed", "rejected"}
          /\ wire[c].call = NoCall \/ wire[c].call \in Call
    BY <1>1 DEF ProvInv, CallersOK, WireState
  <2>7. stray \subseteq Call
    BY <1>1 DEF ProvInv, StrayOK, GoodCall
  <2>8. /\ bootIDs \in [Servers -> 0 .. MaxRebuilds \cup {Nil}]
        /\ box \in [Servers -> [Keys -> Addresses \cup {Nil, NoAddress}]]
        /\ boot \in [Servers -> 0 .. MaxRebuilds]
        /\ installed \subseteq RowIds \X Nat /\ removed \subseteq RowIds \X Nat
    BY <1>1 DEF ProvInv, TablesOK, BoxesOK, Interface, HistoryOK
  <2> QED
    BY <2>1, <2>2, <2>3, <2>4, <2>5, <2>6, <2>7, <2>8 DEF TypeOK
<1> QED
  BY <1>1, ProvisioningCorrect, PTL

-----------------------------------------------------------------------------
(***************************************************************************)
(* A location switch, when the device has no other provision in flight     *)
(***************************************************************************)
\* The request has ensured its row and has not yet withdrawn the others.
Between(q) == req[q].pc \in {"push", "switch"}

\* No two requests of one device are that far at one time.  Nothing in the code
\* sees to it; it is what the promise about location switches takes for granted.
OneInFlight ==
    \A p, q \in Requests :
        p # q /\ Between(p) /\ Between(q) => req[p].device # req[q].device

NoLive(d) == \A r \in RowIds : Live(r) => peers[r].device # d

\* The row the request has ensured is live until everything the device has is
\* withdrawn.
Spared == \A q \in Requests :
              Between(q) => Live(req[q].peer.row) \/ NoLive(req[q].device)

\* A step that withdraws nothing and installs nothing new.
Calm == \A r \in RowIds :
            /\ Live(r)' <=> Live(r)
            /\ Live(r) => peers'[r].device = peers[r].device

\* No request gets between the two steps.
Steady == \A q \in Requests : Between(q)' =>
              /\ Between(q)
              /\ req'[q].peer = req[q].peer /\ req'[q].device = req[q].device

\* What a request that is between the two steps knows.
LEMMA BetweenKnows ==
    ASSUME ProvInv, NEW q \in Requests, Between(q)
    PROVE  /\ req[q].peer.row \in RowIds /\ req[q].device \in Devices
           /\ peers[req[q].peer.row].device = req[q].device
           /\ peers[req[q].peer.row].state # "none"
<1>1. GoodReq(req[q], wire[q].call, peers, Registered, installed)
  BY DEF ProvInv, RequestsOK
<1>2. /\ req[q].peer \in Peer /\ 1 <= req[q].peer.rev
      /\ req[q].peer.rev <= peers[req[q].peer.row].revision
      /\ req[q].device \in Devices /\ peers[req[q].peer.row].device = req[q].device
  BY <1>1 DEF Between, GoodReq, Registered
<1>3. req[q].peer.row \in RowIds /\ req[q].peer.rev \in Nat
  BY <1>2 DEF Peer
<1>4. peers[req[q].peer.row].revision # 0
  BY <1>2, <1>3
<1> QED
  BY <1>2, <1>3, <1>4 DEF ProvInv, StoreInv, StoreTypeOK

\* A step that withdraws nothing, while no request gets between, spares every row.
LEMMA CalmSpares ==
    ASSUME ProvInv, Spared, Calm, Steady
    PROVE  Spared'
BY BetweenKnows DEF Spared, Calm, Steady, NoLive

\* The reports of the callers, and the clock, withdraw nothing.
LEMMA ReportsAreCalm ==
    ASSUME StoreInv, NEW r \in RowIds, NEW rev,
           \/ OrLogged(MarkApplied(r, rev)) \/ OrLogged(MarkRevoked(r, rev))
           \/ OrLogged(MarkAttemptFailed(r)) \/ BecomeDue(r)
    PROVE  Calm
<1>1. peers \in [RowIds -> Row]
  BY DEF StoreInv, StoreTypeOK
<1>2. CASE peers' = peers
  BY <1>2 DEF Calm, Live
<1>3. CASE MarkApplied(r, rev) /\ peers' # peers
  <2>1. peers[r].state = "pending" /\ peers' = [peers EXCEPT ![r] = Activated(peers[r], rev)]
    BY <1>3 DEF MarkApplied
  <2>2. /\ peers'[r].state = "active" /\ peers'[r].device = peers[r].device
        /\ \A q \in RowIds : q # r => peers'[q] = peers[q]
    BY <1>1, <2>1 DEF Activated, Row
  <2> QED
    BY <2>1, <2>2 DEF Calm, Live
<1>4. CASE MarkRevoked(r, rev) /\ peers' # peers
  <2>1. peers[r].state = "revoking" /\ peers' = [peers EXCEPT ![r] = Closed(peers[r], rev)]
    BY <1>4 DEF MarkRevoked
  <2>2. /\ peers'[r].state = "revoked"
        /\ \A q \in RowIds : q # r => peers'[q] = peers[q]
    BY <1>1, <2>1 DEF Closed, Row
  <2> QED
    BY <2>1, <2>2 DEF Calm, Live
<1>5. CASE MarkAttemptFailed(r) \/ BecomeDue(r)
  <2>1. PICK b \in BOOLEAN : peers' = [peers EXCEPT ![r] = Scheduled(peers[r], b)]
    BY <1>5 DEF MarkAttemptFailed, BecomeDue
  <2> QED
    BY <1>1, <2>1, ScheduledRow DEF Calm, Live, SameIdentity
<1> QED
  BY <1>2, <1>3, <1>4, <1>5 DEF OrLogged

\* The steps of a request other than EnsureOn and SwitchServer.
LEMMA RequestStepsAreCalm ==
    ASSUME ProvInv, NEW q \in Requests,
           \/ \E d \in Registered : StartProvision(q, d)
           \/ LoadDevice(q) \/ (\E s \in Servers : EnsureFails(q, s))
           \/ PushOk(q) \/ PushFails(q) \/ PushRejected(q) \/ GiveUp(q) \/ Disconnect(q)
    PROVE  Calm /\ Steady
<1>1. req \in [Requests -> ReqState] /\ req[q] \in ReqState
  BY DEF ProvInv, RequestsOK
<1>2. ASSUME req[q].pc = "push" PROVE req[q].peer.row \in RowIds
  BY <1>2, PushedPeer
<1>3. CASE PushOk(q) \/ PushFails(q) \/ PushRejected(q)
  <2>1. Calm
    BY <1>2, <1>3, ReportsAreCalm DEF ProvInv, PushOk, PushFails, PushRejected
  <2>2. Steady
    BY <1>1, <1>3 DEF Steady, Between, ReqState, PushOk, PushFails, PushRejected, Idle
  <2> QED
    BY <2>1, <2>2
<1>4. CASE \/ \E d \in Registered : StartProvision(q, d)
           \/ LoadDevice(q) \/ (\E s \in Servers : EnsureFails(q, s))
           \/ GiveUp(q) \/ Disconnect(q)
  <2>1. Calm
    BY <1>4 DEF Calm, Live, StartProvision, LoadDevice, EnsureFails, GiveUp, Disconnect
  <2>2. /\ req'[q].pc \in {"idle", "entitled", "ready"}
        /\ \A o \in Requests : o # q => req'[o] = req[o]
    <3>1. CASE \E d \in Registered : StartProvision(q, d)
      BY <1>1, <3>1 DEF StartProvision, Idle
    <3>2. CASE LoadDevice(q)
      BY <1>1, <3>2 DEF LoadDevice, ReqState, Idle
    <3>3. CASE \E s \in Servers : EnsureFails(q, s)
      BY <1>1, <3>3 DEF EnsureFails, Candidate, ReqState
    <3>4. CASE GiveUp(q) \/ Disconnect(q)
      BY <1>1, <3>4 DEF GiveUp, Disconnect, Idle
    <3> QED
      BY <1>4, <3>1, <3>2, <3>3, <3>4
  <2>3. Steady
    BY <2>2 DEF Steady, Between
  <2> QED
    BY <2>1, <2>3
<1> QED
  BY <1>3, <1>4

\* The row ensured is live, and no row stops being live.
LEMMA EnsureSpares ==
    ASSUME ProvInv, Spared, OneInFlight', NEW q \in Requests, NEW s \in Servers, EnsureOn(q, s)
    PROVE  Spared' /\ \A d \in Devices : HasLive(d) => HasLive(d)'
<1>1. GoodReq(req[q], wire[q].call, peers, Registered, installed) /\ req[q].pc = "ready"
  BY DEF ProvInv, RequestsOK, EnsureOn, Candidate
<1>2. /\ req[q].device \in Devices /\ req[q].key \in Keys /\ req[q] \in ReqState
      /\ req \in [Requests -> ReqState]
  BY <1>1 DEF GoodReq, Registered, ProvInv, RequestsOK
<1>3. PICK r \in RowIds :
         /\ EnsureAssignment(req[q].device, s, req[q].key, r)
         /\ req' = [req EXCEPT ![q] =
                      [@ EXCEPT !.pc = IF Applied(peers'[r]) THEN "switch" ELSE "push",
                                !.tried = req[q].tried \cup {s},
                                !.peer = PeerOf(r, peers'[r])]]
  BY DEF EnsureOn
<1>4. /\ req'[q].pc \in {"push", "switch"} /\ req'[q].device = req[q].device
      /\ req'[q].peer.row = r
      /\ \A o \in Requests : o # q => req'[o] = req[o]
  BY <1>2, <1>3 DEF ReqState, PeerOf
<1>5. peers'[r].device = req[q].device /\ Live(r)'
  BY <1>2, <1>3, EnsuredRow DEF ProvInv, Live
<1>6. \A o \in RowIds : o # r => peers'[o] = peers[o]
  BY <1>3 DEF EnsureAssignment, EnsureSame, EnsureRekey, EnsureNew, ProvInv, StoreInv, StoreTypeOK
<1>7. Live(r) => peers'[r].device = peers[r].device
  <2>1. CASE r \in RowsOf(req[q].device, s)
    BY <1>5, <2>1 DEF RowsOf
  <2>2. CASE r \notin RowsOf(req[q].device, s)
    BY <1>3, <2>2 DEF EnsureAssignment, EnsureSame, EnsureRekey, EnsureNew, NextRowId, Live
  <2> QED
    BY <2>1, <2>2
<1>8. ASSUME NEW o \in Requests, Between(o)'
      PROVE  Live(req[o].peer.row)' \/ NoLive(req[o].device)'
  <2>1. CASE o = q
    BY <1>4, <1>5, <2>1
  <2>2. CASE o # q
    <3>1. req'[o] = req[o] /\ Between(o) /\ req[o].device # req[q].device
      BY <1>4, <1>8, <2>2 DEF OneInFlight, Between
    <3>2. CASE Live(req[o].peer.row)
      BY <1>5, <1>6, <3>1, <3>2, BetweenKnows DEF Live
    <3>3. CASE NoLive(req[o].device)
      BY <1>5, <1>6, <3>1, <3>3 DEF NoLive, Live
    <3> QED
      BY <3>1, <3>2, <3>3 DEF Spared
  <2> QED
    BY <2>1, <2>2
<1>9. \A d \in Devices : HasLive(d) => HasLive(d)'
  BY <1>5, <1>6, <1>7 DEF HasLive, LiveRowsOf, Live
<1> QED
  BY <1>8, <1>9 DEF Spared

\* The row ensured is on the server that is spared.
LEMMA SwitchSpares ==
    ASSUME ProvInv, Spared, OneInFlight, NEW q \in Requests, SwitchServer(q)
    PROVE  Spared' /\ \A d \in Devices : HasLive(d) => HasLive(d)'
<1> DEFINE d == req[q].device  kept == peers[req[q].peer.row].server
<1>1. /\ Between(q) /\ req[q].peer.row \in RowIds /\ peers[req[q].peer.row].device = d
      /\ Live(req[q].peer.row) \/ NoLive(d)
  BY BetweenKnows DEF SwitchServer, Between, Spared
<1>2. \A r \in RowIds : \/ peers'[r] = peers[r]
                        \/ peers[r].device = d /\ peers[r].server # kept /\ ~Live(r)'
  BY RevokingRow DEF SwitchServer, OrLogged, BeginRevokeOtherServers, BeginRevoke, Live,
                     ProvInv, StoreInv, StoreTypeOK
<1>3. req'[q].pc = "idle" /\ \A o \in Requests : o # q => req'[o] = req[o]
  BY DEF SwitchServer, Idle, ProvInv, RequestsOK
<1>4. ASSUME NEW o \in Requests, Between(o)'
      PROVE  Live(req[o].peer.row)' \/ NoLive(req[o].device)'
  <2>1. o # q /\ req'[o] = req[o] /\ Between(o)
    BY <1>3, <1>4 DEF Between
  <2>2. req[o].device # d
    BY <1>1, <2>1 DEF OneInFlight
  <2>3. CASE Live(req[o].peer.row)
    BY <1>2, <2>1, <2>2, <2>3, BetweenKnows DEF Live
  <2>4. CASE NoLive(req[o].device)
    BY <1>2, <2>1, <2>2, <2>4 DEF NoLive, Live
  <2> QED
    BY <2>1, <2>3, <2>4 DEF Spared
<1>5. ASSUME NEW e \in Devices, HasLive(e) PROVE HasLive(e)'
  <2>1. CASE e = d
    <3>1. Live(req[q].peer.row)
      BY <1>1, <1>5, <2>1 DEF HasLive, LiveRowsOf, NoLive
    <3>2. peers'[req[q].peer.row] = peers[req[q].peer.row]
      BY <1>1, <1>2
    <3> QED
      BY <1>1, <2>1, <3>1, <3>2 DEF HasLive, LiveRowsOf, Live
  <2>2. CASE e # d
    BY <1>2, <1>5, <2>2 DEF HasLive, LiveRowsOf, Live
  <2> QED
    BY <2>1, <2>2
<1> QED
  BY <1>4, <1>5 DEF Spared

\* Withdrawing whole devices leaves them with nothing.
LEMMA WithdrawSpares ==
    ASSUME ProvInv, Spared, NEW D, OrLogged(BeginRevokeForDevices(D)), req' = req
    PROVE  Spared'
<1>1. CASE peers' = peers
  BY <1>1 DEF Spared, Between, NoLive, Live
<1>2. CASE BeginRevokeForDevices(D)
  <2>1. \A r \in RowIds : \/ peers[r].device \in D /\ ~Live(r)'
                          \/ peers[r].device \notin D /\ peers'[r] = peers[r]
    BY <1>2, RevokingRow
       DEF BeginRevokeForDevices, BeginRevoke, Live, ProvInv, StoreInv, StoreTypeOK
  <2>2. \A r \in RowIds : peers'[r].device = peers[r].device
    BY <1>2, RevokingRow
       DEF BeginRevokeForDevices, BeginRevoke, SameIdentity, ProvInv, StoreInv, StoreTypeOK
  <2>3. ASSUME NEW q \in Requests, Between(q)
        PROVE  Live(req[q].peer.row)' \/ NoLive(req[q].device)'
    <3>1. CASE req[q].device \in D
      BY <2>1, <2>2, <3>1 DEF NoLive
    <3>2. CASE req[q].device \notin D
      BY <2>1, <2>2, <2>3, <3>2, BetweenKnows DEF Spared, NoLive, Live
    <3> QED
      BY <3>1, <3>2
  <2> QED
    BY <2>3 DEF Spared, Between
<1> QED
  BY <1>1, <1>2 DEF OrLogged

\* A step of anything but a request.
LEMMA OthersSpare ==
    ASSUME ProvInv, Spared,
           \/ \E p \in Runners : PassStep(p) \/ SyncStep(p)
           \/ \E w \in Admins, s \in Servers : AdminResync(w, s)
           \/ HealthStep \/ AgentStep \/ UserStep
           \/ \E r \in RowIds : RetryTimeReached(r)
           \/ UNCHANGED vars
    PROVE  Spared' /\ req' = req
<1>1. ASSUME req' = req, peers' = peers \/ (\E D : OrLogged(BeginRevokeForDevices(D))) \/ Calm
      PROVE  Spared'
  <2>1. peers' = peers => Calm
    BY DEF Calm, Live
  <2>2. Steady
    BY <1>1 DEF Steady, Between
  <2> QED
    BY <1>1, <2>1, <2>2, CalmSpares, WithdrawSpares
<1>2. ASSUME NEW p \in Runners, PassStep(p) PROVE Spared' /\ req' = req
  <2>1. CASE StartPass(p) \/ ApplyDue(p)
    BY <1>1, <2>1 DEF StartPass, ApplyDue
  <2>2. CASE \E u \in Users : SweepUser(p, u)
    BY <1>1, <2>2 DEF SweepUser, BeginRevokeForUser
  <2>3. ASSUME NEW r \in RowIds, JobOk(p, r) \/ JobFails(p, r) PROVE Calm /\ req' = req
    BY <2>3, ReportsAreCalm DEF JobOk, JobFails, OrLogged, ProvInv, control
  <2> QED
    BY <1>1, <1>2, <2>1, <2>2, <2>3 DEF PassStep
<1>3. ASSUME NEW w \in Runners, SyncStep(w) PROVE Spared' /\ req' = req
  <2>1. CASE ReadLive(w) \/ SyncOk(w) \/ SyncFails(w)
    BY <1>1, <2>1 DEF ReadLive, SyncOk, SyncFails
  <2>2. CASE MarkSynced(w)
    <3>1. PICK p \in sync[w].todo : OrLogged(MarkApplied(p.row, p.rev))
      BY <2>2 DEF MarkSynced
    <3>2. p.row \in RowIds
      BY DEF ProvInv, SyncsOK, SyncState, Peer
    <3> QED
      BY <1>1, <2>2, <3>1, <3>2, ReportsAreCalm DEF ProvInv, MarkSynced
  <2> QED
    BY <1>3, <2>1, <2>2 DEF SyncStep
<1>4. CASE \/ \E w \in Admins, s \in Servers : AdminResync(w, s)
           \/ HealthStep \/ UNCHANGED vars
  BY <1>1, <1>4 DEF AdminResync, HealthStep, CheckHealth, CompareCount, vars, control
<1>5. CASE AgentStep
  BY <1>1, <1>5 DEF AgentStep, AgentOk, AgentFails, AgentRejects, StrayArrives, Rebuild, control
<1>6. CASE UserStep
  BY <1>1, <1>6
     DEF UserStep, RegisterDevice, ReRegister, RotateKey, DeleteBegin, DeleteEnd, DeleteFails,
         Release, Expire, GrantTimeBlock, OrLogged, control
<1>7. ASSUME NEW r \in RowIds, RetryTimeReached(r) PROVE Spared' /\ req' = req
  BY <1>1, <1>7, ReportsAreCalm DEF RetryTimeReached, ProvInv, control
<1> QED
  BY <1>2, <1>3, <1>4, <1>5, <1>6, <1>7

\* While no device has two requests between ensuring their row and withdrawing
\* the others, no step of Provision takes a device's last live row away,
\* whatever else is under way: late answers, sweeps, releases, deletions.
THEOREM SwitchKeepsOne == Spec /\ []OneInFlight => SwitchNeverStrands
<1> DEFINE Kept == \A d \in Devices : HasLive(d) => HasLive(d)'
<1>1. Init => Spared
  BY DEF Init, Spared, Between, Idle
<1>2. ASSUME ProvInv, Spared, OneInFlight, OneInFlight', [Next]_vars
      PROVE  Spared' /\ (req' # req => Kept)
  <2>1. ASSUME Calm PROVE Kept
    BY <2>1 DEF Calm, HasLive, LiveRowsOf
  <2>2. ASSUME NEW q \in Requests, ProvisionStep(q) PROVE Spared' /\ Kept
    BY <1>2, <2>1, <2>2, RequestStepsAreCalm, CalmSpares, EnsureSpares, SwitchSpares
       DEF ProvisionStep
  <2>3. CASE Restart
    <3>1. Calm
      BY <2>3 DEF Restart, Calm, Live
    <3>2. Steady
      BY <2>3 DEF Restart, Steady, Between, Idle
    <3> QED
      BY <1>2, <2>1, <3>1, <3>2, CalmSpares
  <2> QED
    BY <1>2, <2>2, <2>3, OthersSpare DEF Next
<1> QED
  BY <1>1, <1>2, ProvisioningCorrect, PTL DEF Spec, SwitchNeverStrands

=============================================================================
