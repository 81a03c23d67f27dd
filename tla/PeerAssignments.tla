-------------------------- MODULE PeerAssignments --------------------------
(***************************************************************************)
(* The desired-state table of the control plane: the peer_assignments      *)
(* table of server/migrations/0001_init.sql and the statements of          *)
(* server/internal/store/peers.go that write it.                           *)
(*                                                                         *)
(* Each operator below is one SQL transaction, so one step.  Callers of    *)
(* the store (a provisioning request, the reconciler, the resync) are not  *)
(* in this module: StoreNext lets ANY caller run ANY statement at ANY      *)
(* time, with any revision it may have read earlier.  What is shown here   *)
(* therefore holds whatever the callers do; module Provisioning brings in  *)
(* the real ones and is shown to refine StoreSpec.                         *)
(***************************************************************************)
EXTENDS Naturals

CONSTANTS
    Devices,        \* registered devices
    Servers,        \* edge servers
    Keys,           \* WireGuard public keys
    Addresses,      \* host addresses a server hands out (the same on each)
    RowIds,         \* ids of peer_assignments rows, numbered in insertion order
    Nil,            \* SQL NULL
    MaxRevision     \* bound: a row at this revision is not re-keyed again

ASSUME NilAssumption == Nil \notin Keys
ASSUME RowIdsAssumption == RowIds \subseteq Nat
ASSUME MaxRevisionAssumption == MaxRevision \in Nat \ {0}

VARIABLE peers      \* the table: row id -> row

(***************************************************************************)
(* Rows.  An id that was never inserted is a row in state "none".  `due`   *)
(* stands for next_attempt_at <= now(); attempts, last_error and the       *)
(* timestamps only feed the length of the delay and the logs.              *)
(***************************************************************************)
RowStates == {"none", "pending", "active", "revoking", "revoked"}

Row == [device : Devices \cup {Nil}, server : Servers \cup {Nil},
        key : Keys \cup {Nil}, prev : Keys \cup {Nil},
        ip : Addresses \cup {Nil}, state : RowStates,
        revision : Nat, applied : Nat, due : BOOLEAN]

NoRow == [device |-> Nil, server |-> Nil, key |-> Nil, prev |-> Nil,
          ip |-> Nil, state |-> "none", revision |-> 0, applied |-> 0,
          due |-> FALSE]

\* state <> 'revoked': the row occupies its address and its (device, server).
Held(r) == peers[r].state \in {"pending", "active", "revoking"}

\* state IN ('pending', 'active'): the control plane wants the peer installed.
Live(r) == peers[r].state \in {"pending", "active"}

(***************************************************************************)
(* The Bug_ operators are faulty variants of the definition that follows   *)
(* them: slips this code could plausibly have.  No behaviour uses them;    *)
(* they are there to see each property fail when the code is wrong.        *)
(***************************************************************************)
\* The key may have changed since the revision that was applied.
Bug_Applied(row) == row.state # "none" /\ row.applied >= 1

\* model.PeerAssignment.Applied
Applied(row) == row.state = "active" /\ row.applied >= row.revision

\* EnsureAssignment looks for pending and active rows only.
Bug_RowsOf(d, s) ==
    {r \in RowIds : Live(r) /\ peers[r].device = d /\ peers[r].server = s}

RowsOf(d, s) == {r \in RowIds : Held(r) /\ peers[r].device = d /\ peers[r].server = s}

LiveRowsOn(s) == {r \in RowIds : Live(r) /\ peers[r].server = s}

LiveRowsOf(D) == {r \in RowIds : Live(r) /\ peers[r].device \in D}

GREATEST(a, b) == IF a >= b THEN a ELSE b

StoreInit == peers = [r \in RowIds |-> NoRow]

-----------------------------------------------------------------------------
(***************************************************************************)
(* EnsureAssignment(d, s, k): "the desired state of (device, server) is    *)
(* this key, installed".  r is the row it returns.  The server row is      *)
(* locked FOR UPDATE for the whole transaction, so two calls for one       *)
(* server never interleave.                                                *)
(***************************************************************************)

\* A live row that already carries the key is returned untouched.
EnsureSame(d, s, k, r) ==
    /\ r \in RowsOf(d, s)
    /\ peers[r].key = k /\ peers[r].state # "revoking"
    /\ UNCHANGED peers

\* Resurrecting a revoking row keeps its revision.
Bug_Rekeyed(row, k) ==
    [row EXCEPT !.key = k, !.state = "pending", !.due = TRUE]

\* A live row with another key, or a revoking one: same address, new key,
\* next revision, pending again.  The superseded key is remembered, and the
\* oldest one wins until the edge confirms.
Rekeyed(row, k) ==
    [row EXCEPT !.key = k,
                !.prev = IF row.key = k THEN row.prev
                         ELSE IF row.prev # Nil THEN row.prev ELSE row.key,
                !.revision = row.revision + 1,
                !.state = "pending",
                !.due = TRUE]

EnsureRekey(d, s, k, r) ==
    /\ r \in RowsOf(d, s)
    /\ ~(peers[r].key = k /\ peers[r].state # "revoking")
    /\ peers[r].revision < MaxRevision
    /\ peers' = [peers EXCEPT ![r] = Rekeyed(peers[r], k)]

\* The address of a peer still being removed counts as free.
Bug_FreeAddresses(s) ==
    Addresses \ {peers[r].ip : r \in {q \in RowIds : Live(q) /\ peers[q].server = s}}

\* allocateIP: an address no held row of the server occupies.  The query has
\* no ORDER BY, so any of them may come back.
FreeAddresses(s) ==
    Addresses \ {peers[r].ip : r \in {q \in RowIds : Held(q) /\ peers[q].server = s}}

NextRowId(r) == /\ peers[r].state = "none"
                /\ \A q \in RowIds : peers[q].state = "none" => r <= q

EnsureNew(d, s, k, r) ==
    /\ RowsOf(d, s) = {}
    /\ NextRowId(r)
    /\ \E a \in FreeAddresses(s) :
          peers' = [peers EXCEPT ![r] =
                      [NoRow EXCEPT !.device = d, !.server = s, !.key = k,
                                    !.ip = a, !.state = "pending",
                                    !.revision = 1, !.due = TRUE]]

EnsureAssignment(d, s, k, r) ==
    \/ EnsureSame(d, s, k, r)
    \/ EnsureRekey(d, s, k, r)
    \/ EnsureNew(d, s, k, r)

-----------------------------------------------------------------------------
(***************************************************************************)
(* What the callers report back.  Each is an UPDATE whose WHERE clause may *)
(* match nothing, which is not an error.                                   *)
(***************************************************************************)
Activated(row, rev) == [row EXCEPT !.state = "active", !.prev = Nil,
                                   !.applied = GREATEST(row.applied, rev)]

Closed(row, rev) == [row EXCEPT !.state = "revoked",
                                !.applied = GREATEST(row.applied, rev)]

\* No revision guard: a late report about an old revision is believed.
Bug_MarkApplied(r, rev) ==
    peers' = IF peers[r].state = "pending"
             THEN [peers EXCEPT ![r] = Activated(peers[r], rev)]
             ELSE peers

MarkApplied(r, rev) ==
    peers' = IF peers[r].state = "pending" /\ peers[r].revision <= rev
             THEN [peers EXCEPT ![r] = Activated(peers[r], rev)]
             ELSE peers

\* No state guard: any row at or below the revision is closed.
Bug_MarkRevoked(r, rev) ==
    peers' = IF peers[r].state # "none" /\ peers[r].revision <= rev
             THEN [peers EXCEPT ![r] = Closed(peers[r], rev)]
             ELSE peers

MarkRevoked(r, rev) ==
    peers' = IF peers[r].state = "revoking" /\ peers[r].revision <= rev
             THEN [peers EXCEPT ![r] = Closed(peers[r], rev)]
             ELSE peers

Scheduled(row, b) == [row EXCEPT !.due = b]

\* A failed push is written as a state the table does not have.
Bug_MarkAttemptFailed(r) ==
    peers' = [peers EXCEPT ![r] = [peers[r] EXCEPT !.state = "failed"]]

\* Schedules the retry whatever the row has become meanwhile.
MarkAttemptFailed(r) ==
    peers' = [peers EXCEPT ![r] = Scheduled(peers[r], FALSE)]

\* The clock reaches next_attempt_at.
BecomeDue(r) ==
    /\ peers[r].state # "none" /\ ~peers[r].due
    /\ peers' = [peers EXCEPT ![r] = Scheduled(peers[r], TRUE)]

(***************************************************************************)
(* Withdrawing: every live row of R starts revoking under a new revision.  *)
(***************************************************************************)
\* Withdrawing keeps the revision.
Bug_Revoking(row) == [row EXCEPT !.state = "revoking", !.due = TRUE]

Revoking(row) == [row EXCEPT !.state = "revoking",
                             !.revision = row.revision + 1, !.due = TRUE]

BeginRevoke(R) ==
    peers' = [r \in RowIds |-> IF r \in R /\ Live(r) THEN Revoking(peers[r]) ELSE peers[r]]

BeginRevokeForDevices(D) == BeginRevoke({r \in RowIds : peers[r].device \in D})

BeginRevokeOtherServers(d, s) ==
    BeginRevoke({r \in RowIds : peers[r].device = d /\ peers[r].server # s})

\* Forces a re-push of every live peer of a server.
MarkServerPeersStale(s) ==
    /\ \A r \in LiveRowsOn(s) : peers[r].revision < MaxRevision
    /\ peers' = [r \in RowIds |->
                   IF Live(r) /\ peers[r].server = s
                   THEN Rekeyed(peers[r], peers[r].key)
                   ELSE peers[r]]

-----------------------------------------------------------------------------
StoreNext ==
    \/ \E d \in Devices, s \in Servers, k \in Keys, r \in RowIds :
          EnsureAssignment(d, s, k, r)
    \/ \E r \in RowIds : \E rev \in 1 .. peers[r].revision :
          MarkApplied(r, rev) \/ MarkRevoked(r, rev)
    \/ \E r \in RowIds : MarkAttemptFailed(r) \/ BecomeDue(r)
    \/ \E D \in SUBSET Devices : BeginRevokeForDevices(D)
    \/ \E d \in Devices, s \in Servers : BeginRevokeOtherServers(d, s)
    \/ \E s \in Servers : MarkServerPeersStale(s)

StoreSpec == StoreInit /\ [][StoreNext]_peers

-----------------------------------------------------------------------------
(***************************************************************************)
(* Invariants                                                              *)
(***************************************************************************)

\* Every row is a row of the table; an inserted one names its device, server,
\* key and address, and revisions start at 1.
StoreTypeOK ==
    /\ peers \in [RowIds -> Row]
    /\ \A r \in RowIds :
          IF peers[r].state = "none"
          THEN peers[r].revision = 0
          ELSE /\ peers[r].device \in Devices /\ peers[r].server \in Servers
               /\ peers[r].key \in Keys /\ peers[r].ip \in Addresses
               /\ peers[r].revision >= 1

\* A device holds at most one unfinished row per server, revoking rows
\* included: EnsureAssignment finds and resurrects it, so the insert never
\* meets the unique index peer_assignments_device_server_live_idx.
OneRowPerDeviceServer ==
    \A r, q \in RowIds :
        /\ Held(r) /\ Held(q)
        /\ peers[r].device = peers[q].device /\ peers[r].server = peers[q].server
        => r = q

\* Two unfinished rows of a server never share a tunnel address, also while
\* one of them is still being removed from the box: allocateIP and the unique
\* index peer_assignments_server_ip_live_idx.
AddressHeldOnce ==
    \A r, q \in RowIds :
        /\ Held(r) /\ Held(q)
        /\ peers[r].server = peers[q].server /\ peers[r].ip = peers[q].ip
        => r = q

\* applied_revision never runs ahead, and lags exactly while the row is
\* unconfirmed.  So a row is active only if the revision reported back is the
\* current one: "a slow reply about an old key can't mark a newer key live"
\* (MarkApplied), and Applied(), which lets Provision skip the edge, is state
\* = active.
AppliedTracksRevision ==
    \A r \in RowIds :
        /\ peers[r].applied <= peers[r].revision
        /\ peers[r].applied < peers[r].revision <=> peers[r].state \in {"pending", "revoking"}

(***************************************************************************)
(* Action properties                                                       *)
(***************************************************************************)

\* Whenever what the control plane wants of a row changes (its key, or whether
\* it is wanted at all), the revision grows: a (row, revision) pair a caller
\* has read names one key and one intent for ever.
DesiredChangeBumpsRevision ==
    [][\A r \in RowIds :
          /\ peers'[r].revision >= peers[r].revision
          /\ peers'[r].revision = peers[r].revision =>
                (peers'[r].key = peers[r].key /\ (Live(r)' <=> Live(r)))]_peers

\* A row only moves along none -> pending -> active, live -> revoking ->
\* revoked, with revoking and active resurrected to pending; revoked is final
\* and a row keeps its device, server and address for life ("the tunnel IP is
\* preserved so the reconnect is a re-handshake").
Lifecycle ==
    [][\A r \in RowIds :
          /\ <<peers[r].state, peers'[r].state>> \in
                {<<x, x>> : x \in RowStates} \cup
                ({"none", "active", "revoking"} \X {"pending"}) \cup
                {<<"pending", "active">>, <<"pending", "revoking">>,
                 <<"active", "revoking">>, <<"revoking", "revoked">>}
          /\ peers[r].state # "none" =>
                /\ peers'[r].device = peers[r].device
                /\ peers'[r].server = peers[r].server
                /\ peers'[r].ip = peers[r].ip]_peers

=============================================================================
