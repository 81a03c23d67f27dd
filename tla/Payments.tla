------------------------------ MODULE Payments ------------------------------
(***************************************************************************)
(* How a charge turns into time: handleInitializePayment, the webhook, the *)
(* client's verify, and settleCharge, through which both go.               *)
(*                                                                         *)
(* One step is one SQL statement or one call to Paystack.  Plans are left  *)
(* out but for the price; a time block is told by the charge it was bought *)
(* with and by the blocks it starts after.  Paystack is external: it knows *)
(* which checkouts were opened and what was paid, and it delivers an event *)
(* any number of times.                                                    *)
(***************************************************************************)
EXTENDS Naturals

CONSTANTS
    Users,
    Refs,       \* payment references
    Workers,    \* bound: verify handlers and webhook goroutines at one time
    Price,      \* payments.amount_kobo (one plan)
    Amounts,    \* what a payer may send
    Nil         \* no user, no reference

ASSUME PaymentsAssumption ==
    /\ Nil \notin Users \cup Refs
    /\ Price \in Nat \ {0} /\ Amounts \subseteq Nat \ {0}

VARIABLES
    payments,   \* the payments table: reference -> [user, status]
    receipts,   \* webhook_events: (event type, reference) pairs on record
    handled,    \* those of them with handled_at set
    blocks,     \* subscriptions: [user, ref, after]
    work,       \* per worker: where it is, and its local variables
    opened,     \* Paystack: checkouts initialised
    charge      \* Paystack: what was paid for a reference, 0 if nothing

vars == <<payments, receipts, handled, blocks, work, opened, charge>>
paystack == <<opened, charge>>

Idle    == [pc |-> "idle", event |-> Nil, ref |-> Nil, after |-> {}]
Unknown == [user |-> Nil, status |-> "none"]

Known(ref)    == payments[ref] # Unknown
UserOf(ref)   == payments[ref].user
BlocksOf(u)   == {b \in blocks : b.user = u}
At(w, pc)     == work[w].pc = pc
Goto(w, pc)   == work' = [work EXCEPT ![w].pc = pc]

-----------------------------------------------------------------------------
(***************************************************************************)
(* handleInitializePayment.  The row is there before Paystack is called,   *)
(* and stays, pending, if that call fails.  References are random and not  *)
(* used twice; an upsert of a known one would leave its row as it is.      *)
(***************************************************************************)
UpsertPayment(u, ref) ==
    payments' = [payments EXCEPT ![ref] =
                   IF Known(ref) THEN @ ELSE [user |-> u, status |-> "pending"]]

InitializeRow(u, ref) ==
    /\ ~Known(ref) /\ charge[ref] = 0
    /\ UpsertPayment(u, ref)
    /\ UNCHANGED <<receipts, handled, blocks, work, paystack>>

OpenCheckout(ref) ==
    /\ Known(ref) /\ ref \notin opened
    /\ opened' = opened \cup {ref}
    /\ UNCHANGED <<payments, receipts, handled, blocks, work, charge>>

\* Paystack's side: a checkout is paid, or a charge that was never initialised
\* here (a payment link) is.
Charged(ref, amount) ==
    /\ ref \in opened \/ ~Known(ref)
    /\ charge[ref] = 0
    /\ charge' = [charge EXCEPT ![ref] = amount]
    /\ UNCHANGED <<payments, receipts, handled, blocks, work, opened>>

-----------------------------------------------------------------------------
(***************************************************************************)
(* handlePaystackWebhook answers at once and leaves the work to a          *)
(* goroutine, processWebhook.  The event id is the type and the            *)
(* transaction, so a redelivery has the id of the first delivery.          *)
(***************************************************************************)
Webhook(w, event, ref) ==
    /\ At(w, "idle") /\ charge[ref] > 0
    /\ work' = [work EXCEPT ![w] = [Idle EXCEPT !.pc = "record", !.event = event, !.ref = ref]]
    /\ UNCHANGED <<payments, receipts, handled, blocks, paystack>>

EventID(w) == <<work[w].event, work[w].ref>>

\* A receipt seen before ends the work.
RecordWebhookEvent(w) ==
    /\ At(w, "record")
    /\ receipts' = receipts \cup {EventID(w)}
    /\ work' = [work EXCEPT ![w] =
                  IF EventID(w) \in receipts THEN Idle
                  ELSE [@ EXCEPT !.pc = IF work[w].event = "charge.success"
                                        THEN "find" ELSE "mark"]]
    /\ UNCHANGED <<payments, handled, blocks, paystack>>

MarkWebhookHandled(w) ==
    /\ At(w, "mark")
    /\ handled' = handled \cup {EventID(w)}
    /\ work' = [work EXCEPT ![w] = Idle]
    /\ UNCHANGED <<payments, receipts, blocks, paystack>>

-----------------------------------------------------------------------------
(***************************************************************************)
(* handleVerifyPayment, for the user the payment belongs to                *)
(***************************************************************************)
Verify(w, u, ref) ==
    /\ At(w, "idle") /\ UserOf(ref) = u
    /\ work' = [work EXCEPT ![w] = [Idle EXCEPT !.pc = "ask", !.event = "verify", !.ref = ref]]
    /\ UNCHANGED <<payments, receipts, handled, blocks, paystack>>

\* The answer is turned into an event like the webhook's, and goes through the
\* webhook's bookkeeping.
Bug_AskPaystack(w) ==
    /\ At(w, "ask")
    /\ work' = [work EXCEPT ![w] =
                  IF charge[@.ref] = 0 THEN Idle
                  ELSE [@ EXCEPT !.pc = "record", !.event = "charge.success"]]
    /\ UNCHANGED <<payments, receipts, handled, blocks, paystack>>

AskPaystack(w) ==
    /\ At(w, "ask")
    /\ work' = [work EXCEPT ![w] =
                  IF charge[@.ref] = 0 THEN Idle ELSE [@ EXCEPT !.pc = "find"]]
    /\ UNCHANGED <<payments, receipts, handled, blocks, paystack>>

-----------------------------------------------------------------------------
(***************************************************************************)
(* settleCharge                                                            *)
(***************************************************************************)

\* Where a caller goes on once settleCharge has returned without an error.
Return(w) ==
    IF work[w].event = "verify" THEN Idle ELSE [work[w] EXCEPT !.pc = "mark", !.after = {}]

\* Any charge of a payment on record is good enough.
Bug_FindPayment(w) ==
    /\ At(w, "find")
    /\ work' = [work EXCEPT ![w] =
                  IF Known(@.ref) THEN [@ EXCEPT !.pc = "settle"] ELSE Return(w)]
    /\ UNCHANGED <<payments, receipts, handled, blocks, paystack>>

\* PaymentByRef; an unknown reference and an underpaid one grant nothing.
FindPayment(w) ==
    /\ At(w, "find")
    /\ work' = [work EXCEPT ![w] =
                  IF Known(@.ref) /\ charge[@.ref] >= Price
                  THEN [@ EXCEPT !.pc = "settle"] ELSE Return(w)]
    /\ UNCHANGED <<payments, receipts, handled, blocks, paystack>>

\* Any error of that read is taken for an unknown reference.
LookupFails(w) ==
    /\ At(w, "find")
    /\ work' = [work EXCEPT ![w] = Return(w)]
    /\ UNCHANGED <<payments, receipts, handled, blocks, paystack>>

\* The status is not looked at.
Bug_SettlePayment(w) ==
    /\ At(w, "settle")
    /\ payments' = [payments EXCEPT ![work[w].ref].status = "success"]
    /\ Goto(w, "base")
    /\ UNCHANGED <<receipts, handled, blocks, paystack>>

\* Whoever is told of a settled charge by Paystack leaves the block to the webhook.
Bug_LeaveToWebhook(w) ==
    /\ At(w, "settle")
    /\ payments' = [payments EXCEPT ![work[w].ref].status = "success"]
    /\ work' = [work EXCEPT ![w] =
                  IF payments[@.ref].status # "success" /\ @.event # "verify"
                  THEN [@ EXCEPT !.pc = "base"] ELSE Return(w)]
    /\ UNCHANGED <<receipts, handled, blocks, paystack>>

\* The update finds the row only if it was not settled before.
SettlePayment(w) ==
    /\ At(w, "settle")
    /\ payments' = [payments EXCEPT ![work[w].ref].status = "success"]
    /\ work' = [work EXCEPT ![w] =
                  IF payments[@.ref].status # "success"
                  THEN [@ EXCEPT !.pc = "base"] ELSE Return(w)]
    /\ UNCHANGED <<receipts, handled, blocks, paystack>>

\* GrantTimeBlock: the latest end is read in the statement's snapshot, without
\* a lock; the new block starts there.
GrantBase(w) ==
    /\ At(w, "base")
    /\ work' = [work EXCEPT ![w].pc = "insert",
                            ![w].after = {b.ref : b \in BlocksOf(UserOf(work[w].ref))}]
    /\ UNCHANGED <<payments, receipts, handled, blocks, paystack>>

GrantTimeBlock(w) ==
    /\ At(w, "insert")
    /\ blocks' = blocks \cup
         {[user |-> UserOf(work[w].ref), ref |-> work[w].ref, after |-> work[w].after]}
    /\ work' = [work EXCEPT ![w] = Return(w)]
    /\ UNCHANGED <<payments, receipts, handled, paystack>>

\* An error of the database or of Paystack, the goroutine's timeout, or a client
\* that hangs up while its verify runs; or the process ends.
WorkFails(w) ==
    /\ ~At(w, "idle")
    /\ work' = [work EXCEPT ![w] = Idle]
    /\ UNCHANGED <<payments, receipts, handled, blocks, paystack>>

ProcessEnds ==
    /\ \E w \in Workers : ~At(w, "idle")
    /\ work' = [w \in Workers |-> Idle]
    /\ UNCHANGED <<payments, receipts, handled, blocks, paystack>>

-----------------------------------------------------------------------------
PaymentsInit ==
    /\ payments = [ref \in Refs |-> Unknown]
    /\ receipts = {} /\ handled = {} /\ blocks = {}
    /\ work = [w \in Workers |-> Idle]
    /\ opened = {} /\ charge = [ref \in Refs |-> 0]

WorkStep(w) ==
    \/ RecordWebhookEvent(w) \/ MarkWebhookHandled(w) \/ AskPaystack(w)
    \/ FindPayment(w) \/ SettlePayment(w) \/ GrantBase(w) \/ GrantTimeBlock(w)

PaymentsNext ==
    \/ \E ref \in Refs : \/ \E u \in Users : InitializeRow(u, ref)
                         \/ OpenCheckout(ref)
                         \/ \E a \in Amounts : Charged(ref, a)
    \/ \E w \in Workers, ref \in Refs :
         \/ \E event \in {"charge.success", "other"} : Webhook(w, event, ref)
         \/ \E u \in Users : Verify(w, u, ref)
    \/ \E w \in Workers : WorkStep(w) \/ LookupFails(w) \/ WorkFails(w)
    \/ ProcessEnds

PaymentsSpec == PaymentsInit /\ [][PaymentsNext]_vars

-----------------------------------------------------------------------------
(***************************************************************************)
(* Properties                                                              *)
(***************************************************************************)
Events == {"charge.success", "other", "verify"}

Places == {"idle", "record", "mark", "ask", "find", "settle", "base", "insert"}

\* Types.  A worker that is not idle works on a reference, and one that went
\* past FindPayment on one that is on record.
PaymentsTypeOK ==
    /\ payments \in [Refs -> {Unknown} \cup [user : Users, status : {"pending", "success"}]]
    /\ receipts \subseteq Events \X Refs /\ handled \subseteq Events \X Refs
    /\ blocks \subseteq [user : Users, ref : Refs, after : SUBSET Refs]
    /\ work \in [Workers -> [pc : Places, event : Events \cup {Nil},
                            ref : Refs \cup {Nil}, after : SUBSET Refs]]
    /\ \A w \in Workers : /\ ~At(w, "idle") => work[w].ref \in Refs /\ work[w].event \in Events
                          /\ work[w].pc \in {"settle", "base", "insert"} => Known(work[w].ref)
    /\ opened \subseteq Refs /\ charge \in [Refs -> Nat]

\* A charge buys one block, however often it is delivered and verified, and
\* however these overlap and fail.
GrantedOnce ==
    \A b, c \in blocks : b.ref = c.ref => b = c

\* Time is granted to the user who initialised the payment, and only for a
\* charge that Paystack has in full.
OnlyPaidTime ==
    \A b \in blocks : /\ charge[b.ref] >= Price
                      /\ payments[b.ref] = [user |-> b.user, status |-> "success"]

\* Why GrantedOnce holds: the worker whose update settled the payment is the
\* only one on its way to grant its block.
Granting(w) == work[w].pc \in {"base", "insert"}

SettlerGrants ==
    /\ \A w \in Workers : Granting(w) =>
         /\ payments[work[w].ref].status = "success"
         /\ \A b \in blocks : b.ref # work[w].ref
    /\ \A v, w \in Workers : Granting(v) /\ Granting(w) /\ work[v].ref = work[w].ref => v = w

\* What is settled is paid for.
SettledIsPaid ==
    /\ \A w \in Workers :
         work[w].pc \in {"settle", "base", "insert"} => charge[work[w].ref] >= Price
    /\ \A ref \in Refs : payments[ref].status = "success" => charge[ref] >= Price

\* Settled, with no block and nobody on the way to grant one.
Lost(ref) ==
    /\ payments[ref].status = "success"
    /\ ~ \E w \in Workers : Granting(w) /\ work[w].ref = ref
    /\ ~ \E b \in blocks : b.ref = ref

\* Settling and granting are two statements.  A settled charge loses its block
\* only as the worker that settled it is cut off between them: no overlap of
\* webhooks and verifications, and no redelivery, makes both leave it to the other.
LostOnlyIfCutOff ==
    [][\A ref \in Refs : Lost(ref)' /\ ~Lost(ref) =>
          \E w \in Workers : Granting(w) /\ work[w].ref = ref /\ work'[w] = Idle]_vars

PaymentsInv ==
    PaymentsTypeOK /\ GrantedOnce /\ OnlyPaidTime /\ SettlerGrants /\ SettledIsPaid

-----------------------------------------------------------------------------
(***************************************************************************)
(* Liveness.  Work under way gets on or fails.  The payer comes back and   *)
(* asks again; of infinitely many tries some of each step go through.      *)
(***************************************************************************)
For(ref) == {w \in Workers : work[w].ref = ref}

PaymentsFairness ==
    /\ \A w \in Workers : WF_vars(WorkStep(w))
    /\ \A ref \in Refs :
         /\ SF_vars(\E w \in Workers, u \in Users : Verify(w, u, ref))
         /\ SF_vars(\E w \in For(ref) : AskPaystack(w))
         /\ SF_vars(\E w \in For(ref) : FindPayment(w))
         /\ SF_vars(\E w \in For(ref) : SettlePayment(w))
         /\ SF_vars(\E w \in For(ref) : GrantBase(w) \/ GrantTimeBlock(w))

FairPaymentsSpec == PaymentsSpec /\ PaymentsFairness

Owed(ref) == Known(ref) /\ charge[ref] >= Price

\* "Rescues a user whose webhook has not landed": a charge that is due is settled
\* in the end, even if its webhook is lost or its processing broke off.
PaidIsSettled ==
    \A ref \in Refs : Owed(ref) ~> payments[ref].status = "success"

=============================================================================
