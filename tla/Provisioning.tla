---------------------------- MODULE Provisioning ----------------------------
(***************************************************************************)
(* The callers of the desired-state table and the edge boxes they drive:   *)
(* Service.Provision, the Reconciler (expiry sweep, retry batch, health    *)
(* sweep, resync), the device and tunnel handlers that withdraw peers, and *)
(* the agents, over an HTTP call that may fail, time out or arrive late.   *)
(*                                                                         *)
(* A step is one SQL statement or transaction, or one agent handler (the   *)
(* agent runs them under a mutex).  Everything read in one step and used   *)
(* in a later one is kept in the caller's own state, as the Go code keeps  *)
(* it in local variables.                                                  *)
(*                                                                         *)
(* As in PeerAssignments, a Bug_ operator is a faulty variant of the       *)
(* definition that follows it, and no behaviour uses it.                   *)
(***************************************************************************)
EXTENDS PeerAssignments, Integers, FiniteSets

CONSTANTS
    Users,
    Requests,           \* provisioning requests the API serves concurrently
    Ticker,             \* the in-process loops: Reconciler.Run, runHealthSweep
    Admins,             \* admin calls in flight: reconcile-now and resync
    NoAddress,          \* an installed peer whose allowed-ips were taken away
    MaxInlineAttempts,  \* Service.maxInlineAttempts
    DeviceLimit,        \* plans.device_limit (one plan)
    MaxStray,           \* bound: calls abandoned by their caller, still on the wire
    MaxRebuilds,        \* bound: times a box is rebuilt
    Events              \* bound: the kinds of event, of AllEvents, an instance has

\* A goroutine that pushes a row is named by its runner and the row.
ASSUME ProcessAssumption ==
    /\ Ticker \notin Admins
    /\ Requests \cap (Admins \cup {Ticker}) = {}
    /\ ((Admins \cup {Ticker}) \X RowIds) \cap (Requests \cup Admins \cup {Ticker}) = {}
    /\ NoAddress \notin Addresses \cup {Nil} /\ Nil \notin Addresses

ASSUME LimitsAssumption ==
    /\ MaxInlineAttempts \in Nat \ {0} /\ DeviceLimit \in Nat
    /\ MaxStray \in Nat /\ MaxRebuilds \in Nat

AllEvents == {"expire", "release", "delete", "restart", "health", "reconcile", "resync"}

ASSUME EventsAssumption == Events \subseteq AllEvents

ASSUME NumberedAssumption == Devices \subseteq Nat /\ Addresses \subseteq Nat

\* A key is 32 bytes.
ASSUME KeysAssumption == IsFiniteSet(Keys)

VARIABLES
    device,     \* the devices table: id -> [user, key, revoked]
    entitled,   \* users with a live time block
    req,        \* per request: where Provision is, and its local variables
    pass,       \* per runner: Reconciler.Once
    sync,       \* per runner: HealthSweep and Resync
    deleting,   \* devices whose DELETE handler is between its two statements
    bootIDs,    \* Reconciler.bootIDs, in memory; Nil when not seen yet
    wire,       \* per caller: the agent call it is waiting for, and the reply
    stray,      \* calls their caller gave up on that may still be executed
    box,        \* per server: the peers of the WireGuard interface
    boot,       \* per server: its instance id
    installed,  \* history: (row, revision) an agent confirmed as installed
    removed     \* history: (row, revision) an agent confirmed as removed

control == <<device, entitled, req, pass, sync, deleting, bootIDs>>
edge    == <<box, boot, installed, removed>>
vars    == <<peers, control, wire, stray, edge>>

-----------------------------------------------------------------------------
(***************************************************************************)
(* Calls to an agent.  A peer on the wire is [row, rev, key, ip]; the      *)
(* agent uses key and ip only.  The row is known to the caller, not sent.  *)
(***************************************************************************)
Runners == Admins \cup {Ticker}
Callers == Requests \cup Runners \cup (Runners \X RowIds)

PeerOf(r, row) == [row |-> r, rev |-> row.revision, key |-> row.key, ip |-> row.ip]

ApplyPeer(r, row) == [op |-> "set", server |-> row.server,
                      peers |-> {PeerOf(r, row)}, replaces |-> row.prev]

RemovePeer(r, row) == [op |-> "remove", server |-> row.server,
                       peers |-> {PeerOf(r, row)}, replaces |-> Nil]

SyncPeers(s) == [op |-> "sync", server |-> s,
                 peers |-> {PeerOf(r, peers[r]) : r \in LiveRowsOn(s)}, replaces |-> Nil]

NoCall == [op |-> "none", server |-> Nil, peers |-> {}, replaces |-> Nil]

Quiet(c)     == wire[c].call = NoCall
Waiting(c)   == wire[c].call # NoCall /\ wire[c].reply = "none"
Sent(call)   == [call |-> call, reply |-> "none"]
Unused       == [call |-> NoCall, reply |-> "none"]
Answered(c, x) == wire[c].call # NoCall /\ wire[c].reply = x

\* The caller is done with the call.
Finish(c) == wire' = [wire EXCEPT ![c] = Unused] /\ UNCHANGED stray

\* The calls of C are abandoned: those not executed yet may still be, or not.
Abandon(C) ==
    LET late == {wire[c].call : c \in {x \in C : Waiting(x)}} IN
    /\ wire' = [c \in Callers |-> IF c \in C THEN Unused ELSE wire[c]]
    /\ stray' \in {stray \cup L : L \in SUBSET late}
    /\ Cardinality(stray') <= MaxStray

-----------------------------------------------------------------------------
(***************************************************************************)
(* The agent: each handler one step, as EdgeAgent is shown to allow.       *)
(***************************************************************************)
INSTANCE EdgeBox

Confirmed(call) == {<<p.row, p.rev>> : p \in call.peers}

AgentOk(c) ==
    LET call == wire[c].call IN
    /\ Waiting(c)
    /\ box' = [box EXCEPT ![call.server] = Handle(box[call.server], call).done]
    /\ wire' = [wire EXCEPT ![c].reply = "ok"]
    /\ installed' = IF call.op = "remove" THEN installed ELSE installed \cup Confirmed(call)
    /\ removed' = IF call.op = "remove" THEN removed \cup Confirmed(call) ELSE removed
    /\ UNCHANGED <<peers, control, stray, boot>>

AgentFails(c) ==
    LET call == wire[c].call IN
    /\ Waiting(c)
    /\ \E b \in Failed(box[call.server], call) : box' = [box EXCEPT ![call.server] = b]
    /\ wire' = [wire EXCEPT ![c].reply = "failed"]
    /\ UNCHANGED <<peers, control, stray, boot, installed, removed>>

\* 4xx: nothing was done (a wrong token, a request the agent cannot read).
\* Provision alone tells this from any other failure.
AgentRejects(c) ==
    /\ c \in Requests /\ Waiting(c)
    /\ wire' = [wire EXCEPT ![c].reply = "rejected"]
    /\ UNCHANGED <<peers, control, stray, edge>>

\* An abandoned call reaches its box after all.
StrayArrives(call) ==
    /\ call \in stray
    /\ stray' = stray \ {call}
    /\ \E b \in Failed(box[call.server], call) : box' = [box EXCEPT ![call.server] = b]
    /\ UNCHANGED <<peers, control, wire, boot, installed, removed>>

\* The box is reinstalled: no peers, a new instance id.
Rebuild(s) ==
    /\ boot[s] < MaxRebuilds
    /\ boot' = [boot EXCEPT ![s] = @ + 1]
    /\ box' = [box EXCEPT ![s] = [k \in Keys |-> Nil]]
    /\ UNCHANGED <<peers, control, wire, stray, installed, removed>>

-----------------------------------------------------------------------------
(***************************************************************************)
(* Service.Provision                                                       *)
(***************************************************************************)
NoPeer == [row |-> Nil, rev |-> 0, key |-> Nil, ip |-> Nil]

Idle == [pc |-> "idle", device |-> Nil, key |-> Nil, tried |-> {}, peer |-> NoPeer]

\* A statement whose failure is only logged by its caller.
OrLogged(statement) == statement \/ UNCHANGED peers

DevicesOf(u) == {d \in Devices : device[d].user = u}

\* checkDeviceLimit: within the limit, or among the oldest `limit` devices.
WithinLimit(d) ==
    LET limit  == IF DeviceLimit = 0 THEN 1 ELSE DeviceLimit
        inUse  == {e \in DevicesOf(device[d].user) : ~device[e].revoked}
    IN \/ Cardinality(inUse) <= limit
       \/ d \in inUse /\ Cardinality({e \in inUse : e < d}) < limit

\* The user of device d asks for a tunnel; the entitlement is read.
StartProvision(q, d) ==
    /\ req[q].pc = "idle"
    /\ device[d].user \in entitled
    /\ req' = [req EXCEPT ![q] = [Idle EXCEPT !.pc = "entitled", !.device = d]]
    /\ UNCHANGED <<peers, device, entitled, pass, sync, deleting, bootIDs, wire, stray, edge>>

\* The device, its key and the device limit are read.
LoadDevice(q) ==
    LET d == req[q].device IN
    /\ req[q].pc = "entitled"
    /\ req' = [req EXCEPT ![q] =
                 IF ~device[d].revoked /\ WithinLimit(d)
                 THEN [@ EXCEPT !.pc = "ready", !.key = device[d].key]
                 ELSE Idle]
    /\ UNCHANGED <<peers, device, entitled, pass, sync, deleting, bootIDs, wire, stray, edge>>

\* A server is a candidate until it was tried; the order is the selector's.
Candidate(q, s) ==
    /\ req[q].pc = "ready"
    /\ s \notin req[q].tried /\ Cardinality(req[q].tried) < MaxInlineAttempts

\* provisionOn up to the edge call: a row already applied needs none.
EnsureOn(q, s) ==
    /\ Candidate(q, s)
    /\ \E r \in RowIds :
          /\ EnsureAssignment(req[q].device, s, req[q].key, r)
          /\ req' = [req EXCEPT ![q] =
                       [@ EXCEPT !.pc = IF Applied(peers'[r]) THEN "switch" ELSE "push",
                                 !.tried = req[q].tried \cup {s},
                                 !.peer = PeerOf(r, peers'[r])]]
          /\ wire' = IF Applied(peers'[r]) THEN wire
                     ELSE [wire EXCEPT ![q] = Sent(ApplyPeer(r, peers'[r]))]
    /\ UNCHANGED <<device, entitled, pass, sync, deleting, bootIDs, stray, edge>>

\* No free address, or the transaction fails: on to the next candidate.
EnsureFails(q, s) ==
    /\ Candidate(q, s)
    /\ req' = [req EXCEPT ![q].tried = @ \cup {s}]
    /\ UNCHANGED <<peers, device, entitled, pass, sync, deleting, bootIDs, wire, stray, edge>>

\* The row is made active without the store's guards on state and revision.
Bug_PushOk(q) ==
    LET r == req[q].peer.row IN
    /\ req[q].pc = "push" /\ Answered(q, "ok")
    /\ peers' = [peers EXCEPT ![r] = Activated(peers[r], req[q].peer.rev)]
    /\ req' = [req EXCEPT ![q].pc = "switch"]
    /\ Finish(q)
    /\ UNCHANGED <<device, entitled, pass, sync, deleting, bootIDs, edge>>

PushOk(q) ==
    /\ req[q].pc = "push" /\ Answered(q, "ok")
    /\ OrLogged(MarkApplied(req[q].peer.row, req[q].peer.rev))
    /\ req' = [req EXCEPT ![q].pc = "switch"]
    /\ Finish(q)
    /\ UNCHANGED <<device, entitled, pass, sync, deleting, bootIDs, edge>>

\* The call is not given up when its failure is recorded.
Bug_PushFails(q) ==
    /\ req[q].pc = "push" /\ ~Answered(q, "rejected")
    /\ OrLogged(MarkAttemptFailed(req[q].peer.row))
    /\ req' = [req EXCEPT ![q].pc = "ready", ![q].peer = NoPeer]
    /\ UNCHANGED <<device, entitled, pass, sync, deleting, bootIDs, wire, stray, edge>>

\* An error status, a timeout, or an answer that got lost: on to the next one.
PushFails(q) ==
    /\ req[q].pc = "push" /\ ~Answered(q, "rejected")
    /\ OrLogged(MarkAttemptFailed(req[q].peer.row))
    /\ req' = [req EXCEPT ![q].pc = "ready", ![q].peer = NoPeer]
    /\ Abandon({q})
    /\ UNCHANGED <<device, entitled, pass, sync, deleting, bootIDs, edge>>

PushRejected(q) ==
    /\ req[q].pc = "push" /\ Answered(q, "rejected")
    /\ OrLogged(MarkAttemptFailed(req[q].peer.row))
    /\ req' = [req EXCEPT ![q] = Idle]
    /\ Finish(q)
    /\ UNCHANGED <<device, entitled, pass, sync, deleting, bootIDs, edge>>

\* The server just provisioned is not spared.
Bug_SwitchServer(q) ==
    /\ req[q].pc = "switch"
    /\ OrLogged(BeginRevokeForDevices({req[q].device}))
    /\ req' = [req EXCEPT ![q] = Idle]
    /\ UNCHANGED <<device, entitled, pass, sync, deleting, bootIDs, wire, stray, edge>>

\* The device's peers elsewhere are withdrawn, and the config is returned.
SwitchServer(q) ==
    LET kept == peers[req[q].peer.row].server IN
    /\ req[q].pc = "switch"
    /\ OrLogged(BeginRevokeOtherServers(req[q].device, kept))
    /\ req' = [req EXCEPT ![q] = Idle]
    /\ UNCHANGED <<device, entitled, pass, sync, deleting, bootIDs, wire, stray, edge>>

\* 503: every candidate failed.
GiveUp(q) ==
    /\ req[q].pc = "ready"
    /\ ~ \E s \in Servers : Candidate(q, s)
    /\ req' = [req EXCEPT ![q] = Idle]
    /\ UNCHANGED <<peers, device, entitled, pass, sync, deleting, bootIDs, wire, stray, edge>>

\* The client hangs up: the request context is cancelled, so everything the
\* handler would still do fails.
Disconnect(q) ==
    /\ req[q].pc # "idle"
    /\ req' = [req EXCEPT ![q] = Idle]
    /\ Abandon({q})
    /\ UNCHANGED <<peers, device, entitled, pass, sync, deleting, bootIDs, edge>>

-----------------------------------------------------------------------------
(***************************************************************************)
(* Reconciler.Once, by the ticker or by an admin's reconcile-now.          *)
(***************************************************************************)
Jobs(p) == {<<p, r>> : r \in RowIds}

\* Only rows still pending are withdrawn.
Bug_BeginRevokeForUser(u) ==
    BeginRevoke({r \in RowIds : peers[r].device \in DevicesOf(u) /\ peers[r].state = "pending"})

BeginRevokeForUser(u) == BeginRevokeForDevices(DevicesOf(u))

ExpiredUserIDs ==
    {u \in Users \ entitled : LiveRowsOf(DevicesOf(u)) # {}}

StartPass(p) ==
    /\ p = Ticker \/ ("reconcile" \in Events /\ sync[p].pc = "idle")
    /\ pass[p].pc = "rest" /\ \A c \in Jobs(p) : Quiet(c)
    /\ pass' = [pass EXCEPT ![p] = [pc |-> "sweep", users |-> ExpiredUserIDs]]
    /\ UNCHANGED <<peers, device, entitled, req, sync, deleting, bootIDs, wire, stray, edge>>

SweepUser(p, u) ==
    /\ pass[p].pc = "sweep" /\ u \in pass[p].users
    /\ OrLogged(BeginRevokeForUser(u))
    /\ pass' = [pass EXCEPT ![p].users = @ \ {u}]
    /\ UNCHANGED <<device, entitled, req, sync, deleting, bootIDs, wire, stray, edge>>

\* Removals are not part of the work queue.
Bug_DueAssignments == {r \in RowIds : peers[r].state = "pending" /\ peers[r].due}

DueAssignments ==
    {r \in RowIds : peers[r].state \in {"pending", "revoking"} /\ peers[r].due}

\* applyDue: every due row is read at once and pushed by a goroutine of its
\* own.  The row locks of the claim end with the read.
ApplyDue(p) ==
    /\ pass[p].pc = "sweep" /\ pass[p].users = {}
    /\ pass' = [pass EXCEPT ![p].pc = "rest"]
    /\ wire' = [c \in Callers |->
                  IF c \in Jobs(p) /\ c[2] \in DueAssignments
                  THEN LET r == c[2] IN
                       Sent(IF peers[r].state = "pending"
                            THEN ApplyPeer(r, peers[r]) ELSE RemovePeer(r, peers[r]))
                  ELSE wire[c]]
    /\ UNCHANGED <<peers, device, entitled, req, sync, deleting, bootIDs, stray, edge>>

\* The error of the call is shadowed.
Bug_JobOk(p, r) ==
    LET call == wire[<<p, r>>].call IN
    /\ Answered(<<p, r>>, "ok") \/ Answered(<<p, r>>, "failed")
    /\ \E peer \in call.peers :
          IF call.op = "set" THEN MarkApplied(r, peer.rev) ELSE MarkRevoked(r, peer.rev)
    /\ Finish(<<p, r>>)
    /\ UNCHANGED <<control, edge>>

\* applyOne, after the agent said ok.
JobOk(p, r) ==
    LET call == wire[<<p, r>>].call IN
    /\ Answered(<<p, r>>, "ok")
    /\ \E peer \in call.peers :
          IF call.op = "set" THEN MarkApplied(r, peer.rev) ELSE MarkRevoked(r, peer.rev)
    /\ Finish(<<p, r>>)
    /\ UNCHANGED <<control, edge>>

\* applyOne, when the call failed, timed out or was refused, or the answer was
\* not recorded.
JobFails(p, r) ==
    /\ ~Quiet(<<p, r>>)
    /\ OrLogged(MarkAttemptFailed(r))
    /\ Abandon({<<p, r>>})
    /\ UNCHANGED <<control, edge>>

-----------------------------------------------------------------------------
(***************************************************************************)
(* Reconciler.HealthSweep, one server of its loop at a time, and Resync,   *)
(* which an admin may also ask for.                                        *)
(***************************************************************************)
NoSync == [pc |-> "idle", server |-> Nil, count |-> 0, todo |-> {}]

\* The agent counts without taking its mutex: a handler may be half way.
PeerCounts(s) ==
    LET underWay == {wire[c].call : c \in {x \in Callers : Waiting(x)}} \cup stray IN
    {Count(b) : b \in {box[s]} \cup
                  UNION {Failed(box[s], call) : call \in {x \in underWay : x.server = s}}}

\* The answer of the box is compared with, and replaces, the id remembered.
\* An agent that cannot list its peers reports -1 of them.
CheckHealth(s) ==
    /\ "health" \in Events
    /\ sync[Ticker].pc = "idle"
    /\ bootIDs' = [bootIDs EXCEPT ![s] = boot[s]]
    /\ \E n \in PeerCounts(s) \cup {-1} : sync' = [sync EXCEPT ![Ticker] =
                  IF bootIDs[s] = boot[s] THEN NoSync
                  ELSE IF bootIDs[s] # Nil
                  THEN [NoSync EXCEPT !.pc = "read", !.server = s]
                  ELSE [NoSync EXCEPT !.pc = "compare", !.server = s, !.count = n]]
    /\ UNCHANGED <<peers, device, entitled, req, pass, deleting, wire, stray, edge>>

\* First sight of the box: resync only if it is visibly missing peers.
CompareCount ==
    /\ sync[Ticker].pc = "compare"
    /\ sync' = [sync EXCEPT ![Ticker] =
                  IF sync[Ticker].count >= Cardinality(LiveRowsOn(sync[Ticker].server))
                  THEN NoSync ELSE [@ EXCEPT !.pc = "read", !.count = 0]]
    /\ UNCHANGED <<peers, device, entitled, req, pass, deleting, bootIDs, wire, stray, edge>>

AdminResync(w, s) ==
    /\ "resync" \in Events
    /\ sync[w].pc = "idle" /\ pass[w].pc = "rest" /\ \A c \in Jobs(w) : Quiet(c)
    /\ sync' = [sync EXCEPT ![w] = [NoSync EXCEPT !.pc = "read", !.server = s]]
    /\ UNCHANGED <<peers, device, entitled, req, pass, deleting, bootIDs, wire, stray, edge>>

\* Resync: LivePeersForServer, then the call.
ReadLive(w) ==
    LET s == sync[w].server IN
    /\ sync[w].pc = "read"
    /\ wire' = [wire EXCEPT ![w] = Sent(SyncPeers(s))]
    /\ sync' = [sync EXCEPT ![w] =
                  [@ EXCEPT !.pc = "push", !.count = 0,
                            !.todo = {PeerOf(r, peers[r]) :
                                        r \in {x \in LiveRowsOn(s) : peers[x].state = "pending"}}]]
    /\ UNCHANGED <<peers, device, entitled, req, pass, deleting, bootIDs, stray, edge>>

\* The status of the answer is not looked at.
Bug_SyncOk(w) ==
    /\ sync[w].pc = "push" /\ wire[w].reply # "none"
    /\ sync' = [sync EXCEPT ![w] = IF sync[w].todo = {} THEN NoSync ELSE [@ EXCEPT !.pc = "mark"]]
    /\ Finish(w)
    /\ UNCHANGED <<peers, device, entitled, req, pass, deleting, bootIDs, edge>>

SyncOk(w) ==
    /\ sync[w].pc = "push" /\ Answered(w, "ok")
    /\ sync' = [sync EXCEPT ![w] = IF sync[w].todo = {} THEN NoSync ELSE [@ EXCEPT !.pc = "mark"]]
    /\ Finish(w)
    /\ UNCHANGED <<peers, device, entitled, req, pass, deleting, bootIDs, edge>>

\* One of the two reads or the call failed.  The error is logged, or shown to the
\* admin; nothing is recorded.
SyncFails(w) ==
    /\ sync[w].pc \in {"compare", "read", "push"}
    /\ sync' = [sync EXCEPT ![w] = NoSync]
    /\ Abandon({w})
    /\ UNCHANGED <<peers, device, entitled, req, pass, deleting, bootIDs, edge>>

\* The rows that were pending when they were read, one by one.
MarkSynced(w) ==
    /\ sync[w].pc = "mark"
    /\ \E p \in sync[w].todo :
          /\ OrLogged(MarkApplied(p.row, p.rev))
          /\ sync' = [sync EXCEPT ![w] = IF sync[w].todo = {p} THEN NoSync
                                         ELSE [@ EXCEPT !.todo = sync[w].todo \ {p}]]
    /\ UNCHANGED <<device, entitled, req, pass, deleting, bootIDs, wire, stray, edge>>

-----------------------------------------------------------------------------
(***************************************************************************)
(* Devices, subscriptions, the clock, and the control plane restarting.    *)
(***************************************************************************)
Registered == {d \in Devices : device[d].user # Nil}

\* UpsertDevice with a key no device has; ids follow created_at.
RegisterDevice(u, k) ==
    /\ \A e \in Registered : device[e].key # k
    /\ \E d \in Devices \ Registered :
          /\ \A e \in Devices \ Registered : d <= e
          /\ device' = [device EXCEPT ![d] = [user |-> u, key |-> k, revoked |-> FALSE]]
    /\ UNCHANGED <<peers, entitled, req, pass, sync, deleting, bootIDs, wire, stray, edge>>

\* UpsertDevice with a key the same user has registered: the device is back.
ReRegister(d) ==
    /\ d \in Registered /\ device[d].revoked
    /\ device' = [device EXCEPT ![d].revoked = FALSE]
    /\ UNCHANGED <<peers, entitled, req, pass, sync, deleting, bootIDs, wire, stray, edge>>

\* RotateDeviceKey; public_key is unique in the table.
RotateKey(d, k) ==
    /\ d \in Registered /\ ~device[d].revoked
    /\ \A e \in Registered : device[e].key # k
    /\ device' = [device EXCEPT ![d].key = k]
    /\ UNCHANGED <<peers, entitled, req, pass, sync, deleting, bootIDs, wire, stray, edge>>

\* handleDeleteDevice: withdraw the peers, then retire the row.
DeleteBegin(d) ==
    /\ "delete" \in Events
    /\ d \in Registered \ deleting
    /\ BeginRevokeForDevices({d})
    /\ deleting' = deleting \cup {d}
    /\ UNCHANGED <<device, entitled, req, pass, sync, bootIDs, wire, stray, edge>>

DeleteEnd(d) ==
    /\ d \in deleting
    /\ device' = [device EXCEPT ![d].revoked = TRUE]
    /\ deleting' = deleting \ {d}
    /\ UNCHANGED <<peers, entitled, req, pass, sync, bootIDs, wire, stray, edge>>

\* The second statement fails, or the client is gone by then.
DeleteFails(d) ==
    /\ d \in deleting
    /\ deleting' = deleting \ {d}
    /\ UNCHANGED <<peers, device, entitled, req, pass, sync, bootIDs, wire, stray, edge>>

\* handleRelease
Release(d) ==
    /\ "release" \in Events
    /\ d \in Registered
    /\ BeginRevokeForDevices({d})
    /\ UNCHANGED <<control, wire, stray, edge>>

Expire(u) ==
    /\ "expire" \in Events
    /\ u \in entitled
    /\ entitled' = entitled \ {u}
    /\ UNCHANGED <<peers, device, req, pass, sync, deleting, bootIDs, wire, stray, edge>>

GrantTimeBlock(u) ==
    /\ u \notin entitled
    /\ entitled' = entitled \cup {u}
    /\ UNCHANGED <<peers, device, req, pass, sync, deleting, bootIDs, wire, stray, edge>>

RetryTimeReached(r) ==
    /\ BecomeDue(r)
    /\ UNCHANGED <<control, wire, stray, edge>>

\* What the process keeps in memory is gone; the database and the boxes stay.
Restart ==
    /\ "restart" \in Events
    /\ req' = [q \in Requests |-> Idle]
    /\ pass' = [p \in Runners |-> [pc |-> "rest", users |-> {}]]
    /\ sync' = [w \in Runners |-> NoSync]
    /\ bootIDs' = [s \in Servers |-> Nil]
    /\ deleting' = {}
    /\ Abandon(Callers)
    /\ UNCHANGED <<peers, device, entitled, edge>>

-----------------------------------------------------------------------------
Init ==
    /\ StoreInit
    /\ device = [d \in Devices |-> [user |-> Nil, key |-> Nil, revoked |-> FALSE]]
    /\ entitled = {}
    /\ req = [q \in Requests |-> Idle]
    /\ pass = [p \in Runners |-> [pc |-> "rest", users |-> {}]]
    /\ sync = [w \in Runners |-> NoSync]
    /\ deleting = {}
    /\ bootIDs = [s \in Servers |-> Nil]
    /\ wire = [c \in Callers |-> Unused]
    /\ stray = {}
    /\ box = [s \in Servers |-> [k \in Keys |-> Nil]]
    /\ boot = [s \in Servers |-> 0]
    /\ installed = {} /\ removed = {}

ProvisionStep(q) ==
    \/ \E d \in Registered : StartProvision(q, d)
    \/ LoadDevice(q)
    \/ \E s \in Servers : EnsureOn(q, s) \/ EnsureFails(q, s)
    \/ PushOk(q) \/ PushFails(q) \/ PushRejected(q)
    \/ SwitchServer(q) \/ GiveUp(q) \/ Disconnect(q)

PassStep(p) ==
    \/ StartPass(p) \/ ApplyDue(p)
    \/ \E u \in Users : SweepUser(p, u)
    \/ \E r \in RowIds : JobOk(p, r) \/ JobFails(p, r)

SyncStep(w) == ReadLive(w) \/ SyncOk(w) \/ SyncFails(w) \/ MarkSynced(w)

HealthStep == (\E s \in Servers : CheckHealth(s)) \/ CompareCount

AgentStep ==
    \/ \E c \in Callers : AgentOk(c) \/ AgentFails(c) \/ AgentRejects(c)
    \/ \E call \in stray : StrayArrives(call)
    \/ \E s \in Servers : Rebuild(s)

UserStep ==
    \/ \E u \in Users, k \in Keys : RegisterDevice(u, k)
    \/ \E d \in Devices : \/ ReRegister(d) \/ \E k \in Keys : RotateKey(d, k)
                          \/ DeleteBegin(d) \/ DeleteEnd(d) \/ DeleteFails(d)
                          \/ Release(d)
    \/ \E u \in Users : Expire(u) \/ GrantTimeBlock(u)

Next ==
    \/ \E q \in Requests : ProvisionStep(q)
    \/ \E p \in Runners : PassStep(p)
    \/ \E w \in Runners : SyncStep(w)
    \/ \E w \in Admins, s \in Servers : AdminResync(w, s)
    \/ HealthStep
    \/ AgentStep
    \/ UserStep
    \/ \E r \in RowIds : RetryTimeReached(r)
    \/ Restart

Spec == Init /\ [][Next]_vars

-----------------------------------------------------------------------------
(***************************************************************************)
(* Invariants                                                              *)
(***************************************************************************)
Peer == [row : RowIds, rev : Nat, key : Keys, ip : Addresses]

Call == [op : {"set", "remove", "sync"}, server : Servers, peers : SUBSET Peer,
         replaces : Keys \cup {Nil}]

\* The state of every process and table is of its type, and a caller has a
\* call outstanding exactly when its program counter says that it waits.
TypeOK ==
    /\ StoreTypeOK
    /\ \A d \in Devices :
          \/ device[d] = [user |-> Nil, key |-> Nil, revoked |-> FALSE]
          \/ device[d] \in [user : Users, key : Keys, revoked : BOOLEAN]
    /\ entitled \subseteq Users /\ deleting \subseteq Registered
    /\ \A q \in Requests :
          /\ req[q].pc \in {"idle", "entitled", "ready", "push", "switch"}
          /\ req[q].device \in Registered \cup {Nil} /\ req[q].key \in Keys \cup {Nil}
          /\ req[q].tried \subseteq Servers
          /\ req[q].peer = NoPeer \/ req[q].peer \in Peer
          /\ req[q].pc = "push" <=> ~Quiet(q)
    /\ \A p \in Runners :
          /\ pass[p].pc \in {"rest", "sweep"} /\ pass[p].users \subseteq Users
          /\ pass[p].pc = "sweep" => \A c \in Jobs(p) : Quiet(c)
    /\ \A w \in Runners :
          /\ sync[w].pc \in {"idle", "compare", "read", "push", "mark"}
          /\ sync[w].server \in Servers \cup {Nil} /\ sync[w].count \in Int
          /\ sync[w].todo \subseteq Peer
          /\ sync[w].pc = "push" <=> ~Quiet(w)
    /\ bootIDs \in [Servers -> 0 .. MaxRebuilds \cup {Nil}]
    /\ \A c \in Callers :
          /\ wire[c].reply \in {"none", "ok", "failed", "rejected"}
          /\ wire[c].call = NoCall \/ wire[c].call \in Call
    /\ stray \subseteq Call
    /\ box \in [Servers -> [Keys -> Addresses \cup {Nil, NoAddress}]]
    /\ boot \in [Servers -> 0 .. MaxRebuilds]
    /\ installed \subseteq RowIds \X Nat /\ removed \subseteq RowIds \X Nat

Outstanding == {wire[c].call : c \in Callers} \cup stray

\* Whatever happened to a row since a call about it was sent, the call is
\* either recognisably old (a smaller revision) or still says exactly what the
\* table wants: same server, key and address, install for a live row and
\* remove for a withdrawn one.  So comparing revisions, as MarkApplied and
\* MarkRevoked do when the answer comes back, is enough.
CallsNameTheirRevision ==
    \A call \in Outstanding : \A p \in call.peers :
        LET row == peers[p.row] IN
        /\ p.rev <= row.revision
        /\ p.rev = row.revision =>
              /\ p.key = row.key /\ p.ip = row.ip /\ call.server = row.server
              /\ call.op = "remove" <=> ~Live(p.row)

\* A row is active, or revoked, only if an agent answered ok to installing, or
\* removing, that row at its current revision: never because of an answer to
\* an older call, a failure, or a resync the row was not part of.
ConfirmedByEdge ==
    \A r \in RowIds :
        /\ peers[r].state = "active" => <<r, peers[r].revision>> \in installed
        /\ peers[r].state = "revoked" => <<r, peers[r].revision>> \in removed

\* Provision returns a config only for a peer that an agent has confirmed with
\* the key and address of that config, on the fast path too.
AnsweredWasInstalled ==
    \A q \in Requests : req[q].pc = "switch" =>
        /\ <<req[q].peer.row, req[q].peer.rev>> \in installed
        /\ req[q].peer.key = req[q].key
        /\ peers[req[q].peer.row].device = req[q].device

(***************************************************************************)
(* Action properties                                                       *)
(***************************************************************************)
HasLive(d) == LiveRowsOf({d}) # {}

\* No step of Provision takes a device's last live assignment away: "a
\* location switch can never leave the device with nothing".
SwitchNeverStrands ==
    [][req' # req => \A d \in Devices : HasLive(d) => HasLive(d)']_vars

(***************************************************************************)
(* What the documentation says, where the code does otherwise              *)
(***************************************************************************)
BoxHas(s, k) == box[s][k] # Nil

\* The states of the table as the schema explains them: "active -> edge confirmed
\* the peer is installed", "revoked -> edge confirmed removal".  When no call is
\* on its way, the peer of an active row is on the box under its address, and
\* neither the key of a revoked row nor the one that key had replaced ("a
\* rotated-away key must stop working") is there, unless another row wants it.
BoxMatchesTable ==
    (\A c \in Callers : Quiet(c)) /\ stray = {} => \A r \in RowIds :
        /\ peers[r].state = "active" => box[peers[r].server][peers[r].key] = peers[r].ip
        /\ peers[r].state = "revoked" => \A k \in {peers[r].key, peers[r].prev} \cap Keys :
              \/ ~BoxHas(peers[r].server, k)
              \/ \E q \in LiveRowsOn(peers[r].server) : peers[q].key = k

-----------------------------------------------------------------------------
(***************************************************************************)
(* Liveness.  The loops of the ticker keep running, restarts or not; time  *)
(* passes; of the attempts made, boxes, network and database let           *)
(* infinitely many succeed.  Nothing is assumed of users and admins, or of *)
(* when requests come and go.                                              *)
(***************************************************************************)
ReconcilerFairness ==
    /\ WF_vars(StartPass(Ticker)) /\ SF_vars(ApplyDue(Ticker))
    /\ \A u \in Users : SF_vars(SweepUser(Ticker, u) /\ BeginRevokeForUser(u))
    /\ \A r \in RowIds :
          /\ WF_vars(RetryTimeReached(r))
          /\ SF_vars(ApplyDue(Ticker) /\ r \in DueAssignments)
          /\ SF_vars(AgentOk(<<Ticker, r>>))
          /\ SF_vars(JobOk(Ticker, r)) /\ WF_vars(JobFails(Ticker, r))

\* An inline push that fails postpones the reconciler's retry, so endless
\* requests whose answers all get lost would starve it.
RequestFairness ==
    \A q \in Requests :
        /\ SF_vars(AgentOk(q))
        /\ SF_vars(PushOk(q) /\ MarkApplied(req[q].peer.row, req[q].peer.rev))

SettleSpec == Spec /\ ReconcilerFairness /\ RequestFairness

\* "retried until it sticks": a pending or revoking row does not stay so, box
\* down, lost answers and restarts notwithstanding.
DesiredStateIsReached ==
    \A r \in RowIds :
        peers[r].state \in {"pending", "revoking"} ~> peers[r].state \in {"active", "revoked"}

\* A user whose time has run out for good ends up with no unfinished row,
\* whatever requests were in flight when it ran out.
ExpiryTakesPeersOff ==
    \A u \in Users :
        <>[](u \notin entitled) =>
            <>[](\A r \in RowIds : Held(r) => peers[r].device \notin DevicesOf(u))

=============================================================================
