--------------------------- MODULE PaymentsProofs ---------------------------
(***************************************************************************)
(* Proofs about Payments, for any number of users, references, handlers    *)
(* and goroutines.                                                         *)
(***************************************************************************)
EXTENDS Payments, TLAPS

WorkRecord == [pc : Places, event : Events \cup {Nil}, ref : Refs \cup {Nil}, after : SUBSET Refs]

\* Places a worker may be in without anything being promised of its payment.
Uncommitted == {"idle", "record", "mark", "ask", "find"}

\* Idle is a record of a worker, in a place without promises.
LEMMA IdleIsWork == Idle \in WorkRecord /\ Idle.pc = "idle"
BY DEF Idle, WorkRecord, Places

\* Where settleCharge returns to is a record of a worker, in a place without
\* promises.
LEMMA ReturnIsWork ==
    ASSUME PaymentsInv, NEW w \in Workers, ~At(w, "idle")
    PROVE  /\ Return(w) \in WorkRecord
           /\ Return(w).pc \in Uncommitted
           /\ Return(w).pc # "idle" => Return(w).ref \in Refs /\ Return(w).event \in Events
<1>1. work[w] \in WorkRecord /\ work[w].ref \in Refs /\ work[w].event \in Events
  BY DEF PaymentsInv, PaymentsTypeOK, WorkRecord
<1>2. CASE work[w].event = "verify"
  BY <1>2, IdleIsWork DEF Return, Uncommitted
<1>3. CASE work[w].event # "verify"
  <2>1. Return(w) = [work[w] EXCEPT !.pc = "mark", !.after = {}]
    BY <1>3 DEF Return
  <2> QED
    BY <1>1, <2>1 DEF WorkRecord, Uncommitted, Places
<1> QED
  BY <1>2, <1>3

\* A step that moves one worker to a place without promises, or to "settle" with
\* a payment that is on record and paid in full, and at most files receipts
\* besides, keeps the invariant.
LEMMA MovingOnKeepsInv ==
    ASSUME PaymentsInv, NEW w \in Workers, NEW n \in WorkRecord,
           work' = [work EXCEPT ![w] = n],
           n.pc \in Uncommitted \cup {"settle"},
           n.pc # "idle" => n.ref \in Refs /\ n.event \in Events,
           n.pc = "settle" => Known(n.ref) /\ charge[n.ref] >= Price,
           receipts' \subseteq Events \X Refs, handled' \subseteq Events \X Refs,
           UNCHANGED <<payments, blocks, opened, charge>>
    PROVE  PaymentsInv'
<1>1. /\ work'[w] = n
      /\ \A v \in Workers : v # w => work'[v] = work[v]
      /\ work' \in [Workers -> WorkRecord]
  BY DEF PaymentsInv, PaymentsTypeOK, WorkRecord
<1>2. PaymentsTypeOK'
  BY <1>1 DEF PaymentsInv, PaymentsTypeOK, WorkRecord, At, Known, Uncommitted
<1>3. GrantedOnce' /\ OnlyPaidTime'
  BY DEF PaymentsInv, GrantedOnce, OnlyPaidTime
<1>4. SettlerGrants'
  <2>1. n.pc \notin {"base", "insert"}
    BY DEF Uncommitted
  <2> QED
    BY <1>1, <2>1 DEF PaymentsInv, SettlerGrants, Granting
<1>5. SettledIsPaid'
  BY <1>1 DEF PaymentsInv, SettledIsPaid, Uncommitted
<1> QED
  BY <1>2, <1>3, <1>4, <1>5 DEF PaymentsInv

\* A worker that gives up makes such a step.
LEMMA IdleKeepsInv ==
    ASSUME PaymentsInv, NEW w \in Workers, work' = [work EXCEPT ![w] = Idle],
           receipts' \subseteq Events \X Refs, handled' \subseteq Events \X Refs,
           UNCHANGED <<payments, blocks, opened, charge>>
    PROVE  PaymentsInv'
<1>1. Idle.pc \in Uncommitted \cup {"settle"}
  BY IdleIsWork DEF Uncommitted
<1> QED
  BY <1>1, IdleIsWork, MovingOnKeepsInv

\* So does a worker that returns from settleCharge.
LEMMA ReturnKeepsInv ==
    ASSUME PaymentsInv, NEW w \in Workers, ~At(w, "idle"),
           work' = [work EXCEPT ![w] = Return(w)],
           receipts' \subseteq Events \X Refs, handled' \subseteq Events \X Refs,
           UNCHANGED <<payments, blocks, opened, charge>>
    PROVE  PaymentsInv'
<1>1. /\ Return(w) \in WorkRecord
      /\ Return(w).pc \in Uncommitted \cup {"settle"}
      /\ Return(w).pc # "settle"
      /\ Return(w).pc # "idle" => Return(w).ref \in Refs /\ Return(w).event \in Events
  BY ReturnIsWork DEF Uncommitted
<1> QED
  BY <1>1, MovingOnKeepsInv

\* So does one that only moves on.
LEMMA MoveKeepsInv ==
    ASSUME PaymentsInv, NEW w \in Workers, NEW pc \in {"find", "mark", "settle"},
           work' = [work EXCEPT ![w] = [work[w] EXCEPT !.pc = pc]],
           work[w].ref \in Refs, work[w].event \in Events,
           pc = "settle" => Known(work[w].ref) /\ charge[work[w].ref] >= Price,
           receipts' \subseteq Events \X Refs, handled' \subseteq Events \X Refs,
           UNCHANGED <<payments, blocks, opened, charge>>
    PROVE  PaymentsInv'
<1> DEFINE n == [work[w] EXCEPT !.pc = pc]
<1>1. work[w] \in WorkRecord
  BY DEF PaymentsInv, PaymentsTypeOK, WorkRecord
<1>2. /\ n \in WorkRecord /\ n.pc = pc
      /\ n.ref = work[w].ref /\ n.event = work[w].event
  BY <1>1 DEF WorkRecord, Places
<1>3. n.pc \in Uncommitted \cup {"settle"}
  BY <1>2 DEF Uncommitted
<1>4. work' = [work EXCEPT ![w] = n]
  OBVIOUS
<1> HIDE DEF n
<1> QED
  BY <1>2, <1>3, <1>4, MovingOnKeepsInv

\* Nothing is promised of nothing: the invariant holds before the first payment.
LEMMA InitInv == PaymentsInit => PaymentsInv
<1> SUFFICES ASSUME PaymentsInit PROVE PaymentsInv
  OBVIOUS
<1>1. \A w \in Workers : work[w] = Idle /\ work[w].pc = "idle"
  BY DEF PaymentsInit, Idle
<1>2. \A ref \in Refs : payments[ref].status = "none"
  BY DEF PaymentsInit, Unknown
<1>3. PaymentsTypeOK
  BY <1>1, IdleIsWork DEF PaymentsInit, PaymentsTypeOK, WorkRecord, At, Idle
<1> QED
  BY <1>1, <1>2, <1>3 DEF PaymentsInit, PaymentsInv, GrantedOnce, OnlyPaidTime,
                          SettlerGrants, SettledIsPaid, Granting

\* A payment with a block is settled.
LEMMA BlockIsSettled ==
    ASSUME PaymentsInv, NEW b \in blocks
    PROVE  b.ref \in Refs /\ payments[b.ref].status = "success"
<1>1. payments[b.ref] = [user |-> b.user, status |-> "success"]
  BY DEF PaymentsInv, OnlyPaidTime
<1>2. b.ref \in Refs
  BY DEF PaymentsInv, PaymentsTypeOK
<1> QED
  BY <1>1, <1>2

\* A new payment has no worker, no charge and no block.
LEMMA InitializeKeepsInv ==
    ASSUME PaymentsInv, NEW u \in Users, NEW ref \in Refs, InitializeRow(u, ref)
    PROVE  PaymentsInv'
<1> DEFINE row == [user |-> u, status |-> "pending"]
<1>1. /\ payments' = [payments EXCEPT ![ref] = row]
      /\ payments[ref] = Unknown
      /\ UNCHANGED <<receipts, handled, blocks, work, opened, charge>>
  BY DEF InitializeRow, UpsertPayment, Known, paystack
<1>2. row # Unknown /\ row.status = "pending" /\ Unknown.status = "none"
  BY PaymentsAssumption DEF Unknown
<1>3. /\ payments'[ref] = row
      /\ \A r \in Refs : r # ref => payments'[r] = payments[r]
  BY <1>1 DEF PaymentsInv, PaymentsTypeOK
<1>4. PaymentsTypeOK'
  <2>1. payments' \in [Refs -> {Unknown} \cup [user : Users, status : {"pending", "success"}]]
    BY <1>1 DEF PaymentsInv, PaymentsTypeOK
  <2>2. \A r \in Refs : payments[r] # Unknown => payments'[r] # Unknown
    BY <1>2, <1>3
  <2> QED
    BY <1>1, <2>1, <2>2 DEF PaymentsInv, PaymentsTypeOK, At, Known
<1>5. GrantedOnce'
  BY <1>1 DEF PaymentsInv, GrantedOnce
<1>6. OnlyPaidTime'
  <2>1. \A b \in blocks : b.ref \in Refs /\ b.ref # ref
    BY <1>1, <1>2, BlockIsSettled
  <2> QED
    BY <1>1, <1>3, <2>1 DEF PaymentsInv, OnlyPaidTime
<1>7. SettlerGrants'
  <2>1. \A w \in Workers : Granting(w) => work[w].ref \in Refs /\ work[w].ref # ref
    BY <1>1, <1>2 DEF PaymentsInv, PaymentsTypeOK, SettlerGrants, Granting, At
  <2> QED
    BY <1>1, <1>3, <2>1 DEF PaymentsInv, SettlerGrants, Granting
<1>8. SettledIsPaid'
  BY <1>1, <1>2, <1>3 DEF PaymentsInv, SettledIsPaid
<1> QED
  BY <1>4, <1>5, <1>6, <1>7, <1>8 DEF PaymentsInv

\* Only a reference with no charge is charged, so what was paid stays paid.
LEMMA ChargedKeepsInv ==
    ASSUME PaymentsInv, NEW ref \in Refs, NEW a \in Amounts, Charged(ref, a)
    PROVE  PaymentsInv'
<1>1. /\ charge' = [charge EXCEPT ![ref] = a] /\ charge[ref] = 0
      /\ a \in Nat /\ Price \in Nat \ {0}
      /\ UNCHANGED <<payments, receipts, handled, blocks, work, opened>>
  BY PaymentsAssumption DEF Charged
<1>2. /\ charge' \in [Refs -> Nat]
      /\ \A r \in Refs : charge[r] >= Price => charge'[r] >= Price
  BY <1>1 DEF PaymentsInv, PaymentsTypeOK
<1>3. PaymentsTypeOK'
  BY <1>1, <1>2 DEF PaymentsInv, PaymentsTypeOK, At, Known
<1>4. GrantedOnce' /\ SettlerGrants'
  BY <1>1 DEF PaymentsInv, GrantedOnce, SettlerGrants, Granting
<1>5. OnlyPaidTime'
  BY <1>1, <1>2 DEF PaymentsInv, PaymentsTypeOK, OnlyPaidTime
<1>6. SettledIsPaid'
  BY <1>1, <1>2 DEF PaymentsInv, PaymentsTypeOK, SettledIsPaid, At
<1> QED
  BY <1>3, <1>4, <1>5, <1>6 DEF PaymentsInv

\* The worker whose update settles the payment becomes the only one to grant it:
\* before, the status said that nobody was and that there is no block.
LEMMA SettleKeepsInv ==
    ASSUME PaymentsInv, NEW w \in Workers, SettlePayment(w)
    PROVE  PaymentsInv'
<1> DEFINE ref == work[w].ref
           n   == [work[w] EXCEPT !.pc = "base"]
<1>1. /\ work[w] \in WorkRecord /\ ref \in Refs /\ Known(ref) /\ charge[ref] >= Price
      /\ work[w].event \in Events
      /\ work[w].pc = "settle"
  BY DEF PaymentsInv, PaymentsTypeOK, SettledIsPaid, SettlePayment, At, WorkRecord
<1>2. /\ payments' = [payments EXCEPT ![ref].status = "success"]
      /\ UNCHANGED <<receipts, handled, blocks, opened, charge>>
  BY DEF SettlePayment, paystack
<1>3. payments[ref] \in [user : Users, status : {"pending", "success"}]
  BY <1>1 DEF PaymentsInv, PaymentsTypeOK, Known
<1>4. CASE payments[ref].status = "success"
  <2>1. payments' = payments
    BY <1>1, <1>2, <1>3, <1>4 DEF PaymentsInv, PaymentsTypeOK
  <2>2. work' = [work EXCEPT ![w] = Return(w)]
    BY <1>4 DEF SettlePayment
  <2>3. ~At(w, "idle")
    BY <1>1 DEF At
  <2>4. receipts' \subseteq Events \X Refs /\ handled' \subseteq Events \X Refs
    BY <1>2 DEF PaymentsInv, PaymentsTypeOK
  <2> QED
    BY <1>2, <2>1, <2>2, <2>3, <2>4, ReturnKeepsInv
<1>5. CASE payments[ref].status # "success"
  <2>1. /\ work' = [work EXCEPT ![w] = n]
        /\ n \in WorkRecord /\ n.pc = "base" /\ n.ref = ref /\ n.event \in Events
    BY <1>1, <1>5 DEF SettlePayment, WorkRecord, Places
  <2>2. /\ work'[w] = n /\ \A v \in Workers : v # w => work'[v] = work[v]
        /\ work' \in [Workers -> WorkRecord]
    BY <2>1 DEF PaymentsInv, PaymentsTypeOK, WorkRecord
  <2>3. /\ payments'[ref].user = payments[ref].user /\ payments'[ref].status = "success"
        /\ payments'[ref] \in [user : Users, status : {"pending", "success"}]
        /\ payments'[ref] # Unknown
        /\ \A r \in Refs : r # ref => payments'[r] = payments[r]
        /\ payments' \in [Refs -> {Unknown} \cup [user : Users, status : {"pending", "success"}]]
    BY <1>1, <1>2, <1>3 DEF PaymentsInv, PaymentsTypeOK, Unknown
  <2>4. \A b \in blocks : b.ref \in Refs /\ b.ref # ref
    BY <1>5, BlockIsSettled
  <2>5. \A v \in Workers : Granting(v) => work[v].ref \in Refs /\ work[v].ref # ref
    BY <1>5 DEF PaymentsInv, PaymentsTypeOK, SettlerGrants, Granting, At
  <2> HIDE DEF ref, n
  <2>6. PaymentsTypeOK'
    <3>1. \A v \in Workers : /\ work'[v].pc # "idle" => work'[v].ref \in Refs /\ work'[v].event \in Events
                             /\ work'[v].pc \in {"settle", "base", "insert"} =>
                                  payments'[work'[v].ref] # Unknown
      BY <1>1, <2>1, <2>2, <2>3 DEF PaymentsInv, PaymentsTypeOK, At, Known
    <3> QED
      BY <1>2, <2>2, <2>3, <3>1 DEF PaymentsInv, PaymentsTypeOK, At, Known, WorkRecord
  <2>7. GrantedOnce' /\ OnlyPaidTime'
    BY <1>2, <2>3, <2>4 DEF PaymentsInv, GrantedOnce, OnlyPaidTime
  <2>8. SettlerGrants'
    <3>1. \A v \in Workers : Granting(v)' => v = w \/ (Granting(v) /\ work'[v] = work[v])
      BY <2>2 DEF Granting
    <3> QED
      BY <1>2, <2>1, <2>2, <2>3, <2>4, <2>5, <3>1 DEF PaymentsInv, SettlerGrants, Granting
  <2>9. SettledIsPaid'
    BY <1>1, <1>2, <2>1, <2>2, <2>3 DEF PaymentsInv, SettledIsPaid
  <2> QED
    BY <2>6, <2>7, <2>8, <2>9 DEF PaymentsInv
<1> QED
  BY <1>4, <1>5

\* GrantTimeBlock reads before it inserts; the worker stays the only one to
\* grant.
LEMMA GrantBaseKeepsInv ==
    ASSUME PaymentsInv, NEW w \in Workers, GrantBase(w)
    PROVE  PaymentsInv'
<1> DEFINE after == {b.ref : b \in BlocksOf(UserOf(work[w].ref))}
           n     == [work[w] EXCEPT !.pc = "insert", !.after = after]
<1>1. /\ work[w] \in WorkRecord /\ work[w].pc = "base" /\ work[w].ref \in Refs
      /\ after \in SUBSET Refs
      /\ UNCHANGED <<payments, receipts, handled, blocks, opened, charge>>
  BY DEF GrantBase, PaymentsInv, PaymentsTypeOK, At, WorkRecord, BlocksOf, paystack
<1>2. work' = [work EXCEPT ![w] = n]
  <2>1. work' = [work EXCEPT ![w].pc = "insert", ![w].after = after]
    BY DEF GrantBase
  <2> HIDE DEF after
  <2> QED
    BY <2>1 DEF PaymentsInv, PaymentsTypeOK
<1> HIDE DEF after
<1>3. n \in WorkRecord /\ n.pc = "insert" /\ n.ref = work[w].ref /\ n.event = work[w].event
  BY <1>1 DEF WorkRecord, Places
<1> HIDE DEF n
<1>4. /\ work'[w] = n /\ \A v \in Workers : v # w => work'[v] = work[v]
      /\ work' \in [Workers -> WorkRecord]
  BY <1>2, <1>3 DEF PaymentsInv, PaymentsTypeOK, WorkRecord
<1>5. \A v \in Workers : /\ work'[v].ref = work[v].ref
                         /\ Granting(v)' <=> Granting(v)
  BY <1>1, <1>3, <1>4 DEF Granting
<1>6. PaymentsTypeOK'
  BY <1>1, <1>3, <1>4 DEF PaymentsInv, PaymentsTypeOK, At, Known, WorkRecord
<1>7. GrantedOnce' /\ OnlyPaidTime'
  BY <1>1 DEF PaymentsInv, GrantedOnce, OnlyPaidTime
<1>8. SettlerGrants'
  BY <1>1, <1>5 DEF PaymentsInv, SettlerGrants
<1>9. SettledIsPaid'
  BY <1>1, <1>3, <1>4 DEF PaymentsInv, SettledIsPaid
<1> QED
  BY <1>6, <1>7, <1>8, <1>9 DEF PaymentsInv

\* The new block is the first of its reference, because its worker was the one
\* to settle the payment, and nobody else is about to grant it.
LEMMA GrantKeepsInv ==
    ASSUME PaymentsInv, NEW w \in Workers, GrantTimeBlock(w)
    PROVE  PaymentsInv'
<1> DEFINE ref == work[w].ref
           new == [user |-> UserOf(ref), ref |-> ref, after |-> work[w].after]
<1>1. /\ work[w] \in WorkRecord /\ work[w].pc = "insert" /\ ref \in Refs
      /\ Granting(w) /\ ~At(w, "idle")
  BY DEF GrantTimeBlock, PaymentsInv, PaymentsTypeOK, At, WorkRecord, Granting
<1>2. /\ blocks' = blocks \cup {new}
      /\ work' = [work EXCEPT ![w] = Return(w)]
      /\ UNCHANGED <<payments, receipts, handled, opened, charge>>
  BY DEF GrantTimeBlock, paystack
<1>3. /\ payments[ref] \in [user : Users, status : {"pending", "success"}]
      /\ payments[ref].status = "success" /\ charge[ref] >= Price
      /\ \A b \in blocks : b.ref # ref
  BY <1>1 DEF PaymentsInv, PaymentsTypeOK, SettlerGrants, SettledIsPaid, Known
<1>4. /\ new \in [user : Users, ref : Refs, after : SUBSET Refs]
      /\ new.ref = ref /\ new.user = payments[ref].user
  BY <1>1, <1>3 DEF UserOf, WorkRecord
<1>5. /\ Return(w) \in WorkRecord
      /\ Return(w).pc \in Uncommitted
      /\ Return(w).pc # "idle" => Return(w).ref \in Refs /\ Return(w).event \in Events
  BY <1>1, ReturnIsWork
<1>6. /\ work'[w] = Return(w) /\ \A v \in Workers : v # w => work'[v] = work[v]
      /\ work' \in [Workers -> WorkRecord]
  BY <1>2, <1>5 DEF PaymentsInv, PaymentsTypeOK, WorkRecord
<1>7. \A v \in Workers : Granting(v)' => v # w /\ Granting(v) /\ work[v].ref # ref
  BY <1>1, <1>5, <1>6 DEF PaymentsInv, SettlerGrants, Granting, Uncommitted
<1>8. payments[ref] = [user |-> new.user, status |-> "success"]
  BY <1>3, <1>4
<1> HIDE DEF ref, new
<1>9. PaymentsTypeOK'
  BY <1>2, <1>4, <1>5, <1>6 DEF PaymentsInv, PaymentsTypeOK, At, Known, WorkRecord, Uncommitted
<1>10. GrantedOnce'
  BY <1>2, <1>3, <1>4 DEF PaymentsInv, GrantedOnce
<1>11. OnlyPaidTime'
  BY <1>2, <1>3, <1>4, <1>8 DEF PaymentsInv, OnlyPaidTime
<1>12. SettlerGrants'
  BY <1>2, <1>4, <1>6, <1>7 DEF PaymentsInv, SettlerGrants, Granting
<1>13. SettledIsPaid'
  BY <1>2, <1>5, <1>6 DEF PaymentsInv, SettledIsPaid, Uncommitted
<1> QED
  BY <1>9, <1>10, <1>11, <1>12, <1>13 DEF PaymentsInv

\* The steps on the way to settleCharge, and the end of a webhook's work.
LEMMA ApproachKeepsInv ==
    ASSUME PaymentsInv, NEW w \in Workers,
           \/ \E event \in {"charge.success", "other"}, ref \in Refs : Webhook(w, event, ref)
           \/ \E u \in Users, ref \in Refs : Verify(w, u, ref)
           \/ RecordWebhookEvent(w) \/ MarkWebhookHandled(w) \/ AskPaystack(w)
           \/ FindPayment(w) \/ LookupFails(w) \/ WorkFails(w)
    PROVE  PaymentsInv'
<1>0. /\ work[w] \in WorkRecord
      /\ ~At(w, "idle") => work[w].ref \in Refs /\ work[w].event \in Events
      /\ receipts \subseteq Events \X Refs /\ handled \subseteq Events \X Refs
  BY DEF PaymentsInv, PaymentsTypeOK, WorkRecord
<1>1. ASSUME NEW event \in {"charge.success", "other"}, NEW ref \in Refs, Webhook(w, event, ref)
      PROVE  PaymentsInv'
  <2> DEFINE n == [Idle EXCEPT !.pc = "record", !.event = event, !.ref = ref]
  <2>1. n \in WorkRecord /\ n.pc = "record" /\ n.ref = ref /\ n.event \in Events
    BY DEF Idle, WorkRecord, Places, Events
  <2>2. n.pc \in Uncommitted \cup {"settle"} /\ n.pc # "settle"
    BY <2>1 DEF Uncommitted
  <2>3. /\ work' = [work EXCEPT ![w] = n]
        /\ UNCHANGED <<payments, receipts, handled, blocks, opened, charge>>
    BY <1>1 DEF Webhook, paystack
  <2> HIDE DEF n
  <2> QED
    BY <1>0, <2>1, <2>2, <2>3, MovingOnKeepsInv
<1>2. ASSUME NEW u \in Users, NEW ref \in Refs, Verify(w, u, ref) PROVE PaymentsInv'
  <2> DEFINE n == [Idle EXCEPT !.pc = "ask", !.event = "verify", !.ref = ref]
  <2>1. n \in WorkRecord /\ n.pc = "ask" /\ n.ref = ref /\ n.event \in Events
    BY DEF Idle, WorkRecord, Places, Events
  <2>2. n.pc \in Uncommitted \cup {"settle"} /\ n.pc # "settle"
    BY <2>1 DEF Uncommitted
  <2>3. /\ work' = [work EXCEPT ![w] = n]
        /\ UNCHANGED <<payments, receipts, handled, blocks, opened, charge>>
    BY <1>2 DEF Verify, paystack
  <2> HIDE DEF n
  <2> QED
    BY <1>0, <2>1, <2>2, <2>3, MovingOnKeepsInv
<1>3. CASE RecordWebhookEvent(w)
  <2>1. /\ work[w].ref \in Refs /\ work[w].event \in Events
        /\ receipts' = receipts \cup {EventID(w)}
        /\ UNCHANGED <<payments, handled, blocks, opened, charge>>
    BY <1>0, <1>3 DEF RecordWebhookEvent, At, paystack
  <2>2. receipts' \subseteq Events \X Refs /\ handled' \subseteq Events \X Refs
    BY <1>0, <2>1 DEF EventID
  <2>3. CASE work' = [work EXCEPT ![w] = Idle]
    BY <2>1, <2>2, <2>3, IdleKeepsInv
  <2>4. ASSUME NEW pc \in {"find", "mark"}, work' = [work EXCEPT ![w] = [work[w] EXCEPT !.pc = pc]]
        PROVE  PaymentsInv'
    BY <1>0, <2>1, <2>2, <2>4, MoveKeepsInv
  <2>5. \/ work' = [work EXCEPT ![w] = Idle]
        \/ \E pc \in {"find", "mark"} : work' = [work EXCEPT ![w] = [work[w] EXCEPT !.pc = pc]]
    BY <1>3 DEF RecordWebhookEvent
  <2> QED
    BY <2>3, <2>4, <2>5
<1>4. CASE MarkWebhookHandled(w)
  <2>1. /\ work[w].ref \in Refs /\ work[w].event \in Events
        /\ handled' = handled \cup {EventID(w)} /\ work' = [work EXCEPT ![w] = Idle]
        /\ UNCHANGED <<payments, receipts, blocks, opened, charge>>
    BY <1>0, <1>4 DEF MarkWebhookHandled, At, paystack
  <2>2. receipts' \subseteq Events \X Refs /\ handled' \subseteq Events \X Refs
    BY <1>0, <2>1 DEF EventID
  <2> QED
    BY <2>1, <2>2, IdleKeepsInv
<1>5. CASE AskPaystack(w)
  <2>1. /\ work[w].ref \in Refs /\ work[w].event \in Events
        /\ UNCHANGED <<payments, receipts, handled, blocks, opened, charge>>
        /\ \/ work' = [work EXCEPT ![w] = Idle]
           \/ work' = [work EXCEPT ![w] = [work[w] EXCEPT !.pc = "find"]]
    BY <1>0, <1>5 DEF AskPaystack, At, paystack
  <2>2. CASE work' = [work EXCEPT ![w] = Idle]
    BY <1>0, <2>1, <2>2, IdleKeepsInv
  <2>3. CASE work' = [work EXCEPT ![w] = [work[w] EXCEPT !.pc = "find"]]
    BY <1>0, <2>1, <2>3, MoveKeepsInv
  <2> QED
    BY <2>1, <2>2, <2>3
<1>6. CASE FindPayment(w)
  <2>1. /\ ~At(w, "idle") /\ work[w].ref \in Refs /\ work[w].event \in Events
        /\ UNCHANGED <<payments, receipts, handled, blocks, opened, charge>>
        /\ \/ work' = [work EXCEPT ![w] = Return(w)]
           \/ /\ Known(work[w].ref) /\ charge[work[w].ref] >= Price
              /\ work' = [work EXCEPT ![w] = [work[w] EXCEPT !.pc = "settle"]]
    BY <1>0, <1>6 DEF FindPayment, At, paystack
  <2>2. CASE work' = [work EXCEPT ![w] = Return(w)]
    BY <1>0, <2>1, <2>2, ReturnKeepsInv
  <2>3. CASE /\ Known(work[w].ref) /\ charge[work[w].ref] >= Price
             /\ work' = [work EXCEPT ![w] = [work[w] EXCEPT !.pc = "settle"]]
    BY <1>0, <2>1, <2>3, MoveKeepsInv
  <2> QED
    BY <2>1, <2>2, <2>3
<1>7. CASE WorkFails(w)
  BY <1>0, <1>7, IdleKeepsInv DEF WorkFails, paystack
<1>8. CASE LookupFails(w)
  BY <1>0, <1>8, ReturnKeepsInv DEF LookupFails, At, paystack
<1> QED
  BY <1>1, <1>2, <1>3, <1>4, <1>5, <1>6, <1>7, <1>8

\* A process that ends leaves no worker, and so nothing promised of any.
LEMMA ProcessEndsKeepsInv ==
    ASSUME PaymentsInv, ProcessEnds PROVE PaymentsInv'
<1>1. /\ \A w \in Workers : work'[w] = Idle /\ work'[w].pc = "idle"
      /\ work' \in [Workers -> WorkRecord]
      /\ UNCHANGED <<payments, receipts, handled, blocks, opened, charge>>
  BY IdleIsWork DEF ProcessEnds, paystack
<1>2. PaymentsTypeOK'
  BY <1>1 DEF PaymentsInv, PaymentsTypeOK, At, Known, WorkRecord
<1>3. GrantedOnce' /\ OnlyPaidTime'
  BY <1>1 DEF PaymentsInv, GrantedOnce, OnlyPaidTime
<1>4. SettlerGrants' /\ SettledIsPaid'
  BY <1>1 DEF PaymentsInv, SettlerGrants, SettledIsPaid, Granting
<1> QED
  BY <1>2, <1>3, <1>4 DEF PaymentsInv

\* The inductive step, one case per action.
LEMMA NextInv == PaymentsInv /\ [PaymentsNext]_vars => PaymentsInv'
<1> SUFFICES ASSUME PaymentsInv, [PaymentsNext]_vars PROVE PaymentsInv'
  OBVIOUS
<1>1. CASE \E u \in Users, ref \in Refs : InitializeRow(u, ref)
  BY <1>1, InitializeKeepsInv
<1>2. CASE \E ref \in Refs : OpenCheckout(ref)
  BY <1>2 DEF OpenCheckout, PaymentsInv, PaymentsTypeOK, GrantedOnce, OnlyPaidTime,
              SettlerGrants, SettledIsPaid, Granting, At, Known
<1>3. CASE \E ref \in Refs, a \in Amounts : Charged(ref, a)
  BY <1>3, ChargedKeepsInv
<1>4. CASE \E w \in Workers :
             \/ \E event \in {"charge.success", "other"}, ref \in Refs : Webhook(w, event, ref)
             \/ \E u \in Users, ref \in Refs : Verify(w, u, ref)
             \/ RecordWebhookEvent(w) \/ MarkWebhookHandled(w) \/ AskPaystack(w)
             \/ FindPayment(w) \/ LookupFails(w) \/ WorkFails(w)
  BY <1>4, ApproachKeepsInv
<1>5. CASE \E w \in Workers : SettlePayment(w)
  BY <1>5, SettleKeepsInv
<1>6. CASE \E w \in Workers : GrantBase(w)
  BY <1>6, GrantBaseKeepsInv
<1>7. CASE \E w \in Workers : GrantTimeBlock(w)
  BY <1>7, GrantKeepsInv
<1>8. CASE ProcessEnds
  BY <1>8, ProcessEndsKeepsInv
<1>9. CASE UNCHANGED vars
  BY <1>9 DEF vars, PaymentsInv, PaymentsTypeOK, GrantedOnce, OnlyPaidTime,
              SettlerGrants, SettledIsPaid, Granting, At, Known
<1> QED
  BY <1>1, <1>2, <1>3, <1>4, <1>5, <1>6, <1>7, <1>8, <1>9 DEF PaymentsNext, WorkStep

\* The inductive invariant of payments: types, one block per charge, only paid
\* time, one granter per settled payment.
THEOREM PaymentsCorrect == PaymentsSpec => []PaymentsInv
  BY InitInv, NextInv, PTL DEF PaymentsSpec

\* settleCharge grants at most once per reference, under any overlap of webhooks
\* and verifications, redeliveries, failures and restarts.
THEOREM ChargesBuyOneBlock == PaymentsSpec => []GrantedOnce
<1>1. PaymentsInv => GrantedOnce
  BY DEF PaymentsInv
<1> QED
  BY <1>1, PaymentsCorrect, PTL

\* Nobody gets time for a charge that is unknown, short or somebody else's.
THEOREM TimeIsPaidFor == PaymentsSpec => []OnlyPaidTime
<1>1. PaymentsInv => OnlyPaidTime
  BY DEF PaymentsInv
<1> QED
  BY <1>1, PaymentsCorrect, PTL

\* A step that leaves payments and blocks alone, and takes a granting worker at
\* most from one place of granting to the other or to Idle, cuts off whatever it
\* loses.
LEMMA QuietStepLosesByCut ==
    ASSUME UNCHANGED <<payments, blocks>>,
           \A w \in Workers : Granting(w) =>
               \/ work'[w] = Idle
               \/ Granting(w)' /\ work'[w].ref = work[w].ref,
           NEW ref \in Refs, Lost(ref)', ~Lost(ref)
    PROVE  \E w \in Workers : Granting(w) /\ work[w].ref = ref /\ work'[w] = Idle
<1>1. PICK w \in Workers : Granting(w) /\ work[w].ref = ref
  BY DEF Lost
<1>2. ~(Granting(w)' /\ work'[w].ref = ref)
  BY DEF Lost
<1> QED
  BY <1>1, <1>2

\* A worker that moves while it was not granting leaves those that grant alone.
LEMMA OthersGrantOn ==
    ASSUME PaymentsTypeOK, NEW w \in Workers, ~Granting(w), NEW n,
           work' = [work EXCEPT ![w] = n]
    PROVE  \A v \in Workers : Granting(v) => Granting(v)' /\ work'[v].ref = work[v].ref
<1> TAKE v \in Workers
<1> HAVE Granting(v)
<1>1. v # w
  OBVIOUS
<1>2. work'[v] = work[v]
  BY <1>1 DEF PaymentsTypeOK
<1> QED
  BY <1>2 DEF Granting

\* The steps of the way to settleCharge, and those that put an end to work.
LEMMA ApproachLosesByCut ==
    ASSUME PaymentsTypeOK, NEW w \in Workers,
           \/ \E event \in {"charge.success", "other"}, ref \in Refs : Webhook(w, event, ref)
           \/ \E u \in Users, ref \in Refs : Verify(w, u, ref)
           \/ RecordWebhookEvent(w) \/ MarkWebhookHandled(w) \/ AskPaystack(w)
           \/ FindPayment(w) \/ LookupFails(w) \/ WorkFails(w) \/ GrantBase(w)
    PROVE  /\ UNCHANGED <<payments, blocks>>
           /\ \A v \in Workers : Granting(v) =>
                 \/ work'[v] = Idle
                 \/ Granting(v)' /\ work'[v].ref = work[v].ref
<1>1. CASE WorkFails(w)
  <2>1. /\ work'[w] = Idle
        /\ \A v \in Workers : v # w => work'[v] = work[v]
    BY <1>1 DEF WorkFails, PaymentsTypeOK
  <2> QED
    BY <1>1, <2>1 DEF WorkFails, Granting
<1>2. CASE GrantBase(w)
  <2>1. /\ work'[w].pc = "insert" /\ work'[w].ref = work[w].ref
        /\ \A v \in Workers : v # w => work'[v] = work[v]
    BY <1>2 DEF GrantBase, PaymentsTypeOK
  <2> QED
    BY <1>2, <2>1 DEF GrantBase, Granting
<1>3. CASE ~WorkFails(w) /\ ~GrantBase(w)
  <2>1. UNCHANGED <<payments, blocks>>
    BY <1>3 DEF Webhook, Verify, RecordWebhookEvent, MarkWebhookHandled, AskPaystack,
                FindPayment, LookupFails
  <2>2. ~Granting(w)
    BY <1>3 DEF Webhook, Verify, RecordWebhookEvent, MarkWebhookHandled, AskPaystack,
                FindPayment, LookupFails, At, Granting
  <2>3. \E n : work' = [work EXCEPT ![w] = n]
    <3>1. CASE \E event \in {"charge.success", "other"}, ref \in Refs : Webhook(w, event, ref)
      BY <3>1 DEF Webhook
    <3>2. CASE \E u \in Users, ref \in Refs : Verify(w, u, ref)
      BY <3>2 DEF Verify
    <3>3. CASE RecordWebhookEvent(w)
      BY <3>3 DEF RecordWebhookEvent
    <3>4. CASE MarkWebhookHandled(w)
      BY <3>4 DEF MarkWebhookHandled
    <3>5. CASE AskPaystack(w)
      BY <3>5 DEF AskPaystack
    <3>6. CASE FindPayment(w)
      BY <3>6 DEF FindPayment
    <3>7. CASE LookupFails(w)
      BY <3>7 DEF LookupFails
    <3> QED
      BY <1>3, <3>1, <3>2, <3>3, <3>4, <3>5, <3>6, <3>7
  <2>4. PICK n : work' = [work EXCEPT ![w] = n]
    BY <2>3
  <2> QED
    BY <2>1, <2>2, <2>4, OthersGrantOn
<1> QED
  BY <1>1, <1>2, <1>3

\* Whoever settles goes on to grant, and whoever does not leaves nothing lost
\* that was not lost before.
LEMMA SettleLosesNothing ==
    ASSUME PaymentsTypeOK, NEW w \in Workers, SettlePayment(w),
           NEW ref \in Refs, Lost(ref)'
    PROVE  Lost(ref)
<1>1. /\ At(w, "settle") /\ work[w].ref \in Refs
      /\ \A v \in Workers : v # w => work'[v] = work[v]
      /\ \A r \in Refs : r # work[w].ref => payments'[r] = payments[r]
      /\ blocks' = blocks
  BY DEF SettlePayment, PaymentsTypeOK, At
<1>2. \A v \in Workers : Granting(v) => Granting(v)' /\ work'[v].ref = work[v].ref
  BY <1>1 DEF Granting, At
<1>3. payments[ref].status = "success"
  <2>1. SUFFICES ASSUME ref = work[w].ref, payments[ref].status # "success" PROVE FALSE
    BY <1>1 DEF Lost
  <2>2. work'[w].pc = "base" /\ work'[w].ref = ref
    BY <2>1 DEF SettlePayment, PaymentsTypeOK
  <2> QED
    BY <2>2 DEF Lost, Granting
<1> QED
  BY <1>1, <1>2, <1>3 DEF Lost

\* The insert leaves its block behind.
LEMMA GrantLosesNothing ==
    ASSUME PaymentsTypeOK, NEW w \in Workers, GrantTimeBlock(w),
           NEW ref \in Refs, Lost(ref)'
    PROVE  Lost(ref)
<1>1. /\ \A v \in Workers : v # w => work'[v] = work[v]
      /\ blocks \subseteq blocks' /\ payments' = payments
      /\ \E b \in blocks' : b.ref = work[w].ref
  <2> DEFINE b == [user |-> UserOf(work[w].ref), ref |-> work[w].ref, after |-> work[w].after]
  <2>1. blocks' = blocks \cup {b} /\ b.ref = work[w].ref
    BY DEF GrantTimeBlock
  <2>2. payments' = payments /\ \A v \in Workers : v # w => work'[v] = work[v]
    BY DEF GrantTimeBlock, PaymentsTypeOK
  <2> QED
    BY <2>1, <2>2
<1>2. work[w].ref # ref
  BY <1>1 DEF Lost
<1> QED
  BY <1>1, <1>2 DEF Lost, Granting

\* Steps that leave the workers and the blocks alone, and settle nothing.
LEMMA OutsideLosesNothing ==
    ASSUME PaymentsTypeOK,
           \/ \E u \in Users, ref \in Refs : InitializeRow(u, ref)
           \/ \E ref \in Refs : OpenCheckout(ref)
           \/ \E ref \in Refs, a \in Amounts : Charged(ref, a)
           \/ UNCHANGED vars,
           NEW ref \in Refs, Lost(ref)'
    PROVE  Lost(ref)
<1>1. work' = work /\ blocks' = blocks
  BY DEF InitializeRow, OpenCheckout, Charged, vars
<1>2. payments'[ref].status = "success" => payments[ref].status = "success"
  <2>1. CASE \E u \in Users, r \in Refs : InitializeRow(u, r)
    <3>1. PICK u \in Users, r \in Refs : InitializeRow(u, r)
      BY <2>1
    <3>2. /\ payments'[r].status = "pending"
          /\ ref # r => payments'[ref] = payments[ref]
      BY <3>1 DEF InitializeRow, UpsertPayment, PaymentsTypeOK
    <3> QED
      BY <3>2
  <2>2. CASE UNCHANGED payments
    BY <2>2
  <2> QED
    BY <2>1, <2>2 DEF OpenCheckout, Charged, vars
<1> QED
  BY <1>1, <1>2 DEF Lost, Granting

\* A settled charge loses its block only as its worker is cut off.
THEOREM OnlyACutLosesABlock == PaymentsSpec => LostOnlyIfCutOff
<1> DEFINE Step == \A ref \in Refs : Lost(ref)' /\ ~Lost(ref) =>
                      \E w \in Workers : Granting(w) /\ work[w].ref = ref /\ work'[w] = Idle
<1>1. PaymentsInv /\ [PaymentsNext]_vars => [Step]_vars
  <2> SUFFICES ASSUME PaymentsTypeOK, [PaymentsNext]_vars,
                      NEW ref \in Refs, Lost(ref)', ~Lost(ref)
               PROVE  \E w \in Workers : Granting(w) /\ work[w].ref = ref /\ work'[w] = Idle
    BY DEF PaymentsInv
  <2>1. CASE \E w \in Workers :
               \/ \E event \in {"charge.success", "other"}, r \in Refs : Webhook(w, event, r)
               \/ \E u \in Users, r \in Refs : Verify(w, u, r)
               \/ RecordWebhookEvent(w) \/ MarkWebhookHandled(w) \/ AskPaystack(w)
               \/ FindPayment(w) \/ LookupFails(w) \/ WorkFails(w) \/ GrantBase(w)
    BY <2>1, ApproachLosesByCut, QuietStepLosesByCut
  <2>2. CASE \E w \in Workers : SettlePayment(w)
    BY <2>2, SettleLosesNothing
  <2>3. CASE \E w \in Workers : GrantTimeBlock(w)
    BY <2>3, GrantLosesNothing
  <2>4. CASE ProcessEnds
    <3>1. UNCHANGED <<payments, blocks>> /\ \A w \in Workers : work'[w] = Idle
      BY <2>4 DEF ProcessEnds
    <3> QED
      BY <3>1, QuietStepLosesByCut
  <2>5. CASE \/ \E u \in Users, r \in Refs : InitializeRow(u, r)
             \/ \E r \in Refs : OpenCheckout(r)
             \/ \E r \in Refs, a \in Amounts : Charged(r, a)
             \/ UNCHANGED vars
    BY <2>5, OutsideLosesNothing
  <2> QED
    BY <2>1, <2>2, <2>3, <2>4, <2>5 DEF PaymentsNext, WorkStep
<1>2. LostOnlyIfCutOff <=> [][Step]_vars
  BY DEF LostOnlyIfCutOff
<1> QED
  BY <1>1, <1>2, PaymentsCorrect, PTL DEF PaymentsSpec

=============================================================================
