----------------------- MODULE PeerAssignmentsProofs -----------------------
(***************************************************************************)
(* Proofs about the desired-state table, for every set of devices,         *)
(* servers, keys, addresses and rows and every bound.                      *)
(*                                                                         *)
(* The conjunction of the invariants is inductive.  The argument is the    *)
(* same for all statements but one: a statement that inserts no row leaves *)
(* the rows that hold a (device, server) and an address among those that   *)
(* held them before (HeldOnlyIfHeld), so uniqueness is inherited; only     *)
(* EnsureNew adds a holder, and it looks at every holder first.            *)
(***************************************************************************)
EXTENDS PeerAssignments, TLAPS

StoreInv ==
    /\ StoreTypeOK
    /\ OneRowPerDeviceServer
    /\ AddressHeldOnce
    /\ AppliedTracksRevision

\* What every statement except the insert does to who holds what.
HeldOnlyIfHeld ==
    \A r \in RowIds :
        Held(r)' => /\ Held(r)
                    /\ peers'[r].device = peers[r].device
                    /\ peers'[r].server = peers[r].server
                    /\ peers'[r].ip = peers[r].ip

\* A statement that adds no holder cannot break the uniqueness of holders.
LEMMA UniquenessInherited ==
    ASSUME OneRowPerDeviceServer, AddressHeldOnce, HeldOnlyIfHeld
    PROVE  OneRowPerDeviceServer' /\ AddressHeldOnce'
BY DEF OneRowPerDeviceServer, AddressHeldOnce, HeldOnlyIfHeld

\* The initial, empty table satisfies the invariant.
LEMMA InitStoreInv == StoreInit => StoreInv
BY NilAssumption
   DEF StoreInit, StoreInv, StoreTypeOK, OneRowPerDeviceServer, AddressHeldOnce,
       AppliedTracksRevision, NoRow, Row, RowStates, Held

-----------------------------------------------------------------------------
(***************************************************************************)
(* What each statement writes into a row.                                  *)
(***************************************************************************)

\* The fields no statement ever writes again after the insert.
SameIdentity(row, new) ==
    /\ new.device = row.device /\ new.server = row.server /\ new.ip = row.ip

\* EnsureAssignment over an existing row: same identity, next revision, pending.
LEMMA RekeyedRow ==
    ASSUME NEW row \in Row, NEW k \in Keys \cup {Nil}
    PROVE  /\ Rekeyed(row, k) \in Row /\ SameIdentity(row, Rekeyed(row, k))
           /\ Rekeyed(row, k).key = k /\ Rekeyed(row, k).state = "pending"
           /\ Rekeyed(row, k).revision = row.revision + 1
           /\ Rekeyed(row, k).applied = row.applied
<1> DEFINE prev == IF row.key = k THEN row.prev
                   ELSE IF row.prev # Nil THEN row.prev ELSE row.key
<1>1. prev \in Keys \cup {Nil} /\ row.revision + 1 \in Nat
  BY DEF Row
<1>2. Rekeyed(row, k) = [row EXCEPT !.key = k, !.prev = prev,
                                    !.revision = row.revision + 1,
                                    !.state = "pending", !.due = TRUE]
  BY DEF Rekeyed
<1> HIDE DEF prev
<1> QED
  BY <1>1, <1>2 DEF SameIdentity, Row, RowStates

\* The BeginRevoke statements: same identity and key, next revision, revoking.
LEMMA RevokingRow ==
    ASSUME NEW row \in Row
    PROVE  /\ Revoking(row) \in Row /\ SameIdentity(row, Revoking(row))
           /\ Revoking(row).key = row.key /\ Revoking(row).state = "revoking"
           /\ Revoking(row).revision = row.revision + 1
           /\ Revoking(row).applied = row.applied
<1>1. row.revision + 1 \in Nat
  BY DEF Row
<1>2. Revoking(row) = [row EXCEPT !.state = "revoking",
                                  !.revision = row.revision + 1, !.due = TRUE]
  BY DEF Revoking
<1> QED
  BY <1>1, <1>2 DEF SameIdentity, Row, RowStates

\* MarkApplied and MarkRevoked at or above the revision confirmed so far: only
\* the state, applied_revision and the remembered key change.
LEMMA MarkedRow ==
    ASSUME NEW row \in Row, NEW rev \in Nat, row.applied <= rev
    PROVE  /\ Activated(row, rev) \in Row /\ SameIdentity(row, Activated(row, rev))
           /\ Activated(row, rev).key = row.key /\ Activated(row, rev).state = "active"
           /\ Activated(row, rev).revision = row.revision
           /\ Activated(row, rev).applied = rev
           /\ Closed(row, rev) \in Row /\ SameIdentity(row, Closed(row, rev))
           /\ Closed(row, rev).key = row.key /\ Closed(row, rev).state = "revoked"
           /\ Closed(row, rev).revision = row.revision
           /\ Closed(row, rev).applied = rev
<1>1. GREATEST(row.applied, rev) = rev
  BY DEF GREATEST, Row
<1> QED
  BY <1>1 DEF Activated, Closed, SameIdentity, Row, RowStates

\* Rescheduling (MarkAttemptFailed, the clock) touches next_attempt_at only.
LEMMA ScheduledRow ==
    ASSUME NEW row \in Row, NEW b \in BOOLEAN
    PROVE  /\ Scheduled(row, b) \in Row /\ SameIdentity(row, Scheduled(row, b))
           /\ Scheduled(row, b).key = row.key /\ Scheduled(row, b).state = row.state
           /\ Scheduled(row, b).revision = row.revision
           /\ Scheduled(row, b).applied = row.applied
BY DEF Scheduled, SameIdentity, Row

-----------------------------------------------------------------------------
(***************************************************************************)
(* RowStep(r) is what a statement that inserts nothing may do to row r;    *)
(* the statements are shown to take such steps, and such steps are shown   *)
(* to keep the invariant and to satisfy the action properties.             *)
(***************************************************************************)
RowStep(r) ==
    LET old == peers[r]  new == peers'[r] IN
    /\ new \in Row /\ SameIdentity(old, new)
    /\ \/ new.state = old.state /\ new.key = old.key
          /\ new.revision = old.revision /\ new.applied = old.applied
       \/ /\ Held(r) /\ new.state = "pending" /\ new.key \in Keys
          /\ new.revision = old.revision + 1 /\ new.applied = old.applied
       \/ /\ Live(r) /\ new.state = "revoking" /\ new.key = old.key
          /\ new.revision = old.revision + 1 /\ new.applied = old.applied
       \/ /\ \/ old.state = "pending" /\ new.state = "active"
             \/ old.state = "revoking" /\ new.state = "revoked"
          /\ new.key = old.key
          /\ new.revision = old.revision /\ new.applied = old.revision

TableStep == peers' \in [RowIds -> Row] /\ \A r \in RowIds : RowStep(r)

\* A step that inserts nothing keeps the invariant.
LEMMA TableStepKeepsStoreInv == StoreInv /\ TableStep => StoreInv'
<1> SUFFICES ASSUME StoreInv, TableStep PROVE StoreInv'
  OBVIOUS
<1> USE DEF StoreInv, TableStep
<1>1. StoreTypeOK'
  BY DEF RowStep, SameIdentity, StoreTypeOK, Held, Live, Row
<1>2. HeldOnlyIfHeld
  BY DEF HeldOnlyIfHeld, RowStep, SameIdentity, Held, Live
<1>3. AppliedTracksRevision'
  BY DEF RowStep, AppliedTracksRevision, StoreTypeOK, Held, Live, Row
<1> QED
  BY <1>1, <1>2, <1>3, UniquenessInherited

\* Leaving the table alone is such a step.
LEMMA IdleIsTableStep == StoreTypeOK /\ UNCHANGED peers => TableStep
BY DEF StoreTypeOK, TableStep, RowStep, SameIdentity

\* One row changed, by a RowStep: a table step.
LEMMA OneRowTableStep ==
    ASSUME StoreTypeOK, NEW r \in RowIds, NEW new \in Row,
           peers' = [peers EXCEPT ![r] = new], RowStep(r)
    PROVE  TableStep
BY DEF StoreTypeOK, TableStep, RowStep, SameIdentity

\* EnsureAssignment without a row: the row inserted is the only holder of its
\* (device, server) because RowsOf was empty, and of its address because
\* allocateIP excludes every held one.
LEMMA InsertKeepsStoreInv ==
    ASSUME StoreInv, NEW d \in Devices, NEW s \in Servers, NEW k \in Keys,
           NEW r \in RowIds, EnsureNew(d, s, k, r)
    PROVE  StoreInv'
<1> USE DEF StoreInv
<1>1. PICK a \in FreeAddresses(s) :
         peers' = [peers EXCEPT ![r] =
                     [NoRow EXCEPT !.device = d, !.server = s, !.key = k,
                                   !.ip = a, !.state = "pending",
                                   !.revision = 1, !.due = TRUE]]
  BY DEF EnsureNew
<1>2. peers \in [RowIds -> Row] /\ a \in Addresses
  BY DEF StoreTypeOK, FreeAddresses
<1>3. /\ peers'[r].device = d /\ peers'[r].server = s /\ peers'[r].key = k
      /\ peers'[r].ip = a /\ peers'[r].state = "pending"
      /\ peers'[r].revision = 1 /\ peers'[r].applied = 0
      /\ peers'[r] \in Row
      /\ \A q \in RowIds \ {r} : peers'[q] = peers[q]
  BY <1>1, <1>2 DEF NoRow, Row, RowStates
<1>4. StoreTypeOK'
  <2>1. peers' \in [RowIds -> Row]
    BY <1>1, <1>2, <1>3
  <2> QED
    BY <2>1, <1>2, <1>3 DEF StoreTypeOK
<1>5. \A q \in RowIds \ {r} : Held(q)' =>
         /\ Held(q)
         /\ ~(peers[q].device = d /\ peers[q].server = s)
         /\ ~(peers[q].server = s /\ peers[q].ip = a)
  BY <1>3 DEF Held, EnsureNew, RowsOf, FreeAddresses
<1>6. OneRowPerDeviceServer'
  BY <1>3, <1>5 DEF OneRowPerDeviceServer
<1>7. AddressHeldOnce'
  BY <1>3, <1>5 DEF AddressHeldOnce
<1>8. AppliedTracksRevision'
  BY <1>3 DEF AppliedTracksRevision
<1> QED
  BY <1>4, <1>6, <1>7, <1>8

-----------------------------------------------------------------------------
(***************************************************************************)
(* Every other statement takes a TableStep.                                *)
(***************************************************************************)
\* EnsureAssignment over an existing row.
LEMMA RekeyIsTableStep ==
    ASSUME StoreInv, NEW d \in Devices, NEW s \in Servers, NEW k \in Keys,
           NEW r \in RowIds, EnsureRekey(d, s, k, r)
    PROVE  TableStep
<1> USE DEF StoreInv
<1>1. peers[r] \in Row /\ Held(r) /\ peers' = [peers EXCEPT ![r] = Rekeyed(peers[r], k)]
  BY DEF EnsureRekey, StoreTypeOK, RowsOf
<1>2. peers'[r] = Rekeyed(peers[r], k)
  BY <1>1 DEF StoreTypeOK
<1>3. RowStep(r)
  BY <1>1, <1>2, RekeyedRow DEF RowStep
<1> QED
  BY <1>1, <1>3, RekeyedRow, OneRowTableStep

\* MarkApplied and MarkRevoked with a revision the row has had: the guards
\* revision <= $2 let only the current one through.
LEMMA MarkIsTableStep ==
    ASSUME StoreInv, NEW r \in RowIds, NEW rev \in 1 .. peers[r].revision,
           MarkApplied(r, rev) \/ MarkRevoked(r, rev)
    PROVE  TableStep
<1> USE DEF StoreInv
<1>1. peers[r] \in Row /\ peers[r].revision \in Nat /\ rev \in Nat
  BY DEF StoreTypeOK, Row
<1>2. CASE peers' = peers
  BY <1>2, IdleIsTableStep
<1>3. CASE peers' # peers
  <2>1. /\ rev = peers[r].revision /\ peers[r].applied <= rev
        /\ \/ /\ peers[r].state = "pending"
              /\ peers' = [peers EXCEPT ![r] = Activated(peers[r], rev)]
           \/ /\ peers[r].state = "revoking"
              /\ peers' = [peers EXCEPT ![r] = Closed(peers[r], rev)]
    BY <1>1, <1>3 DEF MarkApplied, MarkRevoked, AppliedTracksRevision
  <2>2. CASE /\ peers[r].state = "pending"
             /\ peers' = [peers EXCEPT ![r] = Activated(peers[r], rev)]
    <3>1. peers'[r] = Activated(peers[r], rev)
      BY <2>2 DEF StoreTypeOK
    <3>2. RowStep(r)
      BY <1>1, <2>1, <2>2, <3>1, MarkedRow DEF RowStep
    <3> QED
      BY <1>1, <2>1, <2>2, <3>2, MarkedRow, OneRowTableStep
  <2>3. CASE /\ peers[r].state = "revoking"
             /\ peers' = [peers EXCEPT ![r] = Closed(peers[r], rev)]
    <3>1. peers'[r] = Closed(peers[r], rev)
      BY <2>3 DEF StoreTypeOK
    <3>2. RowStep(r)
      BY <1>1, <2>1, <2>3, <3>1, MarkedRow DEF RowStep
    <3> QED
      BY <1>1, <2>1, <2>3, <3>2, MarkedRow, OneRowTableStep
  <2> QED
    BY <2>1, <2>2, <2>3
<1> QED
  BY <1>2, <1>3

\* MarkAttemptFailed, and the clock reaching next_attempt_at.
LEMMA ScheduleIsTableStep ==
    ASSUME StoreInv, NEW r \in RowIds, MarkAttemptFailed(r) \/ BecomeDue(r)
    PROVE  TableStep
<1> USE DEF StoreInv
<1>1. peers[r] \in Row
  BY DEF StoreTypeOK
<1>2. PICK b \in BOOLEAN : peers' = [peers EXCEPT ![r] = Scheduled(peers[r], b)]
  BY DEF MarkAttemptFailed, BecomeDue
<1>3. peers'[r] = Scheduled(peers[r], b)
  BY <1>2 DEF StoreTypeOK
<1>4. RowStep(r)
  BY <1>1, <1>3, ScheduledRow DEF RowStep
<1> QED
  BY <1>1, <1>2, <1>4, ScheduledRow, OneRowTableStep

\* Every BeginRevoke statement, whatever rows it selects.
LEMMA RevokeIsTableStep ==
    ASSUME StoreInv, NEW R, BeginRevoke(R)
    PROVE  TableStep
<1> USE DEF StoreInv
<1>1. ASSUME NEW r \in RowIds PROVE RowStep(r)
  <2>1. peers[r] \in Row
    BY DEF StoreTypeOK
  <2>2. CASE r \in R /\ Live(r)
    <3>1. peers'[r] = Revoking(peers[r])
      BY <2>2 DEF BeginRevoke
    <3> QED
      BY <2>1, <2>2, <3>1, RevokingRow DEF RowStep
  <2>3. CASE ~(r \in R /\ Live(r))
    <3>1. peers'[r] = peers[r]
      BY <2>3 DEF BeginRevoke
    <3> QED
      BY <2>1, <3>1 DEF RowStep, SameIdentity
  <2> QED
    BY <2>2, <2>3
<1>2. peers' \in [RowIds -> Row]
  BY <1>1 DEF BeginRevoke, RowStep
<1> QED
  BY <1>1, <1>2 DEF TableStep

\* MarkServerPeersStale.
LEMMA StaleIsTableStep ==
    ASSUME StoreInv, NEW s \in Servers, MarkServerPeersStale(s)
    PROVE  TableStep
<1> USE DEF StoreInv
<1>1. ASSUME NEW r \in RowIds PROVE RowStep(r)
  <2>1. peers[r] \in Row /\ peers[r].key \in Keys \cup {Nil} /\ (Live(r) => peers[r].key \in Keys)
    BY DEF StoreTypeOK, Row, Live
  <2>2. CASE Live(r) /\ peers[r].server = s
    <3>1. peers'[r] = Rekeyed(peers[r], peers[r].key)
      BY <2>2 DEF MarkServerPeersStale
    <3> QED
      BY <2>1, <2>2, <3>1, RekeyedRow DEF RowStep, Live, Held
  <2>3. CASE ~(Live(r) /\ peers[r].server = s)
    <3>1. peers'[r] = peers[r]
      BY <2>3 DEF MarkServerPeersStale
    <3> QED
      BY <2>1, <3>1 DEF RowStep, SameIdentity
  <2> QED
    BY <2>2, <2>3
<1>2. peers' \in [RowIds -> Row]
  BY <1>1 DEF MarkServerPeersStale, RowStep
<1> QED
  BY <1>1, <1>2 DEF TableStep

-----------------------------------------------------------------------------
(***************************************************************************)
(* The theorems                                                            *)
(***************************************************************************)

\* Every statement is an insert or a TableStep.
LEMMA StoreStepCases ==
    ASSUME StoreInv, [StoreNext]_peers
    PROVE  \/ TableStep
           \/ \E d \in Devices, s \in Servers, k \in Keys, r \in RowIds : EnsureNew(d, s, k, r)
<1>1. CASE UNCHANGED peers
  BY <1>1, IdleIsTableStep DEF StoreInv
<1>2. ASSUME NEW d \in Devices, NEW s \in Servers, NEW k \in Keys, NEW r \in RowIds,
             EnsureAssignment(d, s, k, r)
      PROVE  TableStep \/ EnsureNew(d, s, k, r)
  BY <1>2, RekeyIsTableStep, IdleIsTableStep DEF StoreInv, EnsureAssignment, EnsureSame
<1>3. ASSUME NEW r \in RowIds, NEW rev \in 1 .. peers[r].revision,
             MarkApplied(r, rev) \/ MarkRevoked(r, rev)
      PROVE  TableStep
  BY <1>3, MarkIsTableStep
<1>4. ASSUME NEW r \in RowIds, MarkAttemptFailed(r) \/ BecomeDue(r)
      PROVE  TableStep
  BY <1>4, ScheduleIsTableStep
<1>5. ASSUME NEW D \in SUBSET Devices, BeginRevokeForDevices(D)
      PROVE  TableStep
  BY <1>5, RevokeIsTableStep DEF BeginRevokeForDevices
<1>6. ASSUME NEW d \in Devices, NEW s \in Servers, BeginRevokeOtherServers(d, s)
      PROVE  TableStep
  BY <1>6, RevokeIsTableStep DEF BeginRevokeOtherServers
<1>7. ASSUME NEW s \in Servers, MarkServerPeersStale(s)
      PROVE  TableStep
  BY <1>7, StaleIsTableStep
<1> QED
  BY <1>1, <1>2, <1>3, <1>4, <1>5, <1>6, <1>7 DEF StoreNext

\* The invariant is inductive: every statement of the store keeps it.
LEMMA StoreInvInductive == StoreInv /\ [StoreNext]_peers => StoreInv'
BY StoreStepCases, TableStepKeepsStoreInv, InsertKeepsStoreInv

\* The table is well formed, holders are unique and applied_revision tracks
\* revision, whatever the callers of the store do.
THEOREM StoreCorrect == StoreSpec => []StoreInv
BY InitStoreInv, StoreInvInductive, PTL DEF StoreSpec

\* Every row is a row of the table, whatever is reported late, twice or not at all:
\* an inserted one names its device, server, key and address.
THEOREM TableIsTyped == StoreSpec => []StoreTypeOK
BY StoreCorrect, PTL DEF StoreInv

\* No two unfinished rows of a server share a tunnel address: allocateIP under
\* the server lock is enough, without help from the unique index.
THEOREM AddressesUnique == StoreSpec => []AddressHeldOnce
BY StoreCorrect, PTL DEF StoreInv

\* A device has one unfinished row per server: EnsureAssignment never meets its
\* unique index.
THEOREM AssignmentsUnique == StoreSpec => []OneRowPerDeviceServer
BY StoreCorrect, PTL DEF StoreInv

\* A row is active only when its current revision is the one reported back, for
\* any late, repeated or reordered report: the guard of MarkApplied suffices.
THEOREM OnlyCurrentRevisionApplied == StoreSpec => []AppliedTracksRevision
BY StoreCorrect, PTL DEF StoreInv

\* What an insert does to the row it creates and to the others.
LEMMA InsertRow ==
    ASSUME StoreTypeOK, NEW d \in Devices, NEW s \in Servers, NEW k \in Keys,
           NEW r \in RowIds, EnsureNew(d, s, k, r)
    PROVE  /\ peers[r].state = "none"
           /\ peers'[r].state = "pending" /\ peers'[r].revision = 1
           /\ \A q \in RowIds \ {r} : peers'[q] = peers[q]
BY DEF EnsureNew, NextRowId, StoreTypeOK, NoRow

\* A (row, revision) pair names one key and one intent for ever, which is what
\* lets MarkApplied and MarkRevoked compare revisions instead of keys.
THEOREM RevisionNamesIntent == StoreSpec => DesiredChangeBumpsRevision
<1> DEFINE Grows(r) ==
      /\ peers'[r].revision >= peers[r].revision
      /\ peers'[r].revision = peers[r].revision =>
            (peers'[r].key = peers[r].key /\ (Live(r)' <=> Live(r)))
<1>1. ASSUME StoreInv, TableStep, NEW r \in RowIds PROVE Grows(r)
  BY <1>1 DEF StoreInv, StoreTypeOK, Row, TableStep, RowStep, Live
<1>2. ASSUME StoreInv, NEW d \in Devices, NEW s \in Servers, NEW k \in Keys,
             NEW q \in RowIds, EnsureNew(d, s, k, q), NEW r \in RowIds
      PROVE  Grows(r)
  <2>1. /\ peers[r].revision \in Nat
        /\ peers[q].state = "none" /\ peers[q].revision = 0
        /\ peers'[q].revision = 1
        /\ r # q => peers'[r] = peers[r]
    BY <1>2, InsertRow DEF StoreInv, StoreTypeOK, Row
  <2> QED
    BY <2>1 DEF Live
<1>3. StoreInv /\ [StoreNext]_peers => [\A r \in RowIds : Grows(r)]_peers
  BY <1>1, <1>2, StoreStepCases
<1> QED
  BY <1>3, StoreCorrect, PTL DEF StoreSpec, DesiredChangeBumpsRevision

\* Rows follow their life cycle and keep device, server and address for life.
THEOREM RowsFollowLifecycle == StoreSpec => Lifecycle
<1> DEFINE Moves(r) ==
      /\ <<peers[r].state, peers'[r].state>> \in
            {<<x, x>> : x \in RowStates} \cup
            ({"none", "active", "revoking"} \X {"pending"}) \cup
            {<<"pending", "active">>, <<"pending", "revoking">>,
             <<"active", "revoking">>, <<"revoking", "revoked">>}
      /\ peers[r].state # "none" =>
            /\ peers'[r].device = peers[r].device
            /\ peers'[r].server = peers[r].server
            /\ peers'[r].ip = peers[r].ip
<1>1. ASSUME StoreInv, TableStep, NEW r \in RowIds PROVE Moves(r)
  BY <1>1 DEF StoreInv, StoreTypeOK, Row, RowStates, TableStep, RowStep, SameIdentity, Live, Held
<1>2. ASSUME StoreInv, NEW d \in Devices, NEW s \in Servers, NEW k \in Keys,
             NEW q \in RowIds, EnsureNew(d, s, k, q), NEW r \in RowIds
      PROVE  Moves(r)
  BY <1>2, InsertRow DEF StoreInv, StoreTypeOK, Row, RowStates
<1>3. StoreInv /\ [StoreNext]_peers => [\A r \in RowIds : Moves(r)]_peers
  BY <1>1, <1>2, StoreStepCases
<1> QED
  BY <1>3, StoreCorrect, PTL DEF StoreSpec, Lifecycle

=============================================================================
