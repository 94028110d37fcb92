----------------------------- MODULE Subscriptions -----------------------------
(***************************************************************************)
(* One subscription of SubscriptionsService: its checkout, the webhooks by *)
(* which Stripe reports what became of it, its cancellation, and its       *)
(* activation once the contract is signed.                                 *)
(*                                                                         *)
(* Stripe is external: what it does to the initial charge and to the       *)
(* monthly subscriptions created for this row, and the events it sends.    *)
(* It repeats an event until it is answered with 200, may send it again    *)
(* after that, and promises no order (unless Ordered).  The webhook        *)
(* handlers, the requests and the end of createCheckoutSession share the   *)
(* row, and every await is a point where another one runs.                 *)
(*                                                                         *)
(* A repository.save(entity) is two accesses: "load" compares the entity   *)
(* with the stored row, "write" updates what differed.  cancel and         *)
(* activateAfterContractSigned load the payments along with the            *)
(* subscription, so their save also detaches the payments that are in the  *)
(* table and not in the list they loaded.                                  *)
(*                                                                         *)
(* Stripe is configured throughout: there is no checkout without it, so    *)
(* the branch of cancel that changes the row alone is left out, and so are *)
(* prices, dates, reasons, the customer and session ids.  The invoice      *)
(* number of a payment is its position in the sequence payments.           *)
(***************************************************************************)
EXTENDS Integers, Sequences

CONSTANTS
  Handlers,          \* processes that run requests and webhooks
  Creator,           \* the process that runs createCheckoutSession
  MaxRequests,       \* bound: calls of cancel and activateAfterContractSigned
  MaxEvents,         \* bound: events Stripe sends on its own
  MaxRedeliveries,   \* bound: events delivered again after their answer
  MaxFailures,       \* bound: accesses that throw
  Ordered,           \* whether Stripe's events arrive in order
  InitialPaymentTypes,  \* the ways of paying that are considered
  TotalInstallments  \* installmentCount of the plan

ASSUME ProcessAssumption == Creator \notin Handlers
ASSUME BoundsAssumption == /\ MaxRequests \in Nat
                           /\ MaxEvents \in Nat
                           /\ MaxRedeliveries \in Nat
                           /\ MaxFailures \in Nat
ASSUME PlanAssumption == /\ Ordered \in BOOLEAN
                         /\ InitialPaymentTypes \subseteq {"single", "installments"}
                         /\ TotalInstallments \in Nat \ {0}

Process == Handlers \cup {Creator}
StripeId == 1 .. MaxRequests

Status == {"pending_payment", "pending_contract", "active", "cancelled",
           "suspended", "expired", "past_due"}
InitialPaymentStatus == {"pending", "partial", "completed", "failed"}
Row == [status : Status,
        initialPaymentType : {"single", "installments"},
        initialPaymentStatus : InitialPaymentStatus,
        stripeSubscriptionId : StripeId \cup {0},
        contractSigned : BOOLEAN]
Column == {"status", "initialPaymentType", "initialPaymentStatus",
           "stripeSubscriptionId", "contractSigned"}
Payment == [status : {"completed", "failed"}, linked : BOOLEAN]

\* Stripe's side of a monthly subscription; "none" before it is created.
StripeStatus == {"none", "incomplete", "incomplete_expired", "active",
                 "past_due", "unpaid", "canceled"}

CheckoutEvent == {"checkout.session.completed", "payment_intent.payment_failed"}
InvoiceEvent == {"invoice.payment_succeeded", "invoice.payment_failed"}
EventType == CheckoutEvent \cup InvoiceEvent
             \cup {"customer.subscription.updated", "customer.subscription.deleted"}
RequestType == {"createCheckoutSession", "cancelNow", "cancelAtPeriodEnd", "activate"}

\* A webhook event, number n of those Stripe sent about subscription sub, with
\* its status then; or what a request runs.
Task == [type : EventType \cup RequestType \cup {"none"}, sub : StripeId \cup {0},
         status : StripeStatus, n : Nat]
Request(type) == [type |-> type, sub |-> 0, status |-> "none", n |-> 0]

VARIABLES
  row,         \* the row of table subscriptions
  payments,    \* table payments, in the order of the invoice numbers
  charge,      \* the initial payment at Stripe: "closed", "open" or "paid"
  stripe,      \* stripe[s]: the monthly subscription s at Stripe
  inbox,       \* events sent and not yet answered with 200
  answered,    \* events answered with 200
  sent,        \* the number of events sent
  proc,        \* proc[p]: where process p is, and its memory
  signed,      \* observer: activate was accepted once
  requests, redeliveries, failures   \* counters for the bounds

vars == <<row, payments, charge, stripe, inbox, answered, sent, proc, signed,
          requests, redeliveries, failures>>

\* Parts of vars, for UNCHANGED.
tables == <<row, payments>>
atStripe == <<charge, stripe>>
events == <<inbox, answered, sent>>
counters == <<requests, redeliveries, failures>>

Created(type) ==
  [status |-> "pending_payment", initialPaymentType |-> type,
   initialPaymentStatus |-> "pending", stripeSubscriptionId |-> 0,
   contractSigned |-> FALSE]

\* Requests find the subscription with findById.
LoadsPayments(task) == task.type \in {"cancelNow", "cancelAtPeriodEnd", "activate"}

\* What a process remembers: its task, the entity, the payments it loaded, what
\* its save will change, and the invoice number it generated.
Memory == [pc : {"idle", "session", "intent", "stripe", "load", "write",
                 "count", "insert"},
           task : Task, entity : Row, loaded : SUBSET Nat,
           diff : SUBSET Column, orphans : SUBSET Nat, number : Nat]
Started(pc, task, entity) ==
  [pc |-> pc, task |-> task, entity |-> entity,
   loaded |-> IF LoadsPayments(task) THEN DOMAIN payments ELSE {},
   diff |-> {}, orphans |-> {}, number |-> 0]
Idle == [pc |-> "idle", task |-> Request("none"), entity |-> Created("single"),
         loaded |-> {}, diff |-> {}, orphans |-> {}, number |-> 0]

\* createCheckoutSession has inserted the row and is about to open the session.
Init ==
  /\ \E type \in InitialPaymentTypes : row = Created(type)
  /\ payments = <<>>
  /\ charge = "closed"
  /\ stripe = [s \in StripeId |-> "none"]
  /\ inbox = {} /\ answered = {} /\ sent = 0
  /\ proc = [p \in Process |->
               IF p = Creator
               THEN [Idle EXCEPT !.pc = "session", !.entity = row,
                       !.task = Request("createCheckoutSession")]
               ELSE Idle]
  /\ signed = FALSE
  /\ requests = 0 /\ redeliveries = 0 /\ failures = 0

-----------------------------------------------------------------------------
(* Stripe.                                                                  *)

Event(type, s, status, n) == [type |-> type, sub |-> s, status |-> status, n |-> n]

\* Stripe sends the events that report subscription s and its new status.
Reports(s, status, types) ==
  /\ inbox' = inbox \cup {Event(types[i], s, status, sent + i) : i \in DOMAIN types}
  /\ sent' = sent + Len(types)
  /\ UNCHANGED answered

StripeActs == sent < MaxEvents /\ UNCHANGED <<tables, proc, signed, counters>>

CheckoutPaid ==
  /\ StripeActs
  /\ charge = "open" /\ charge' = "paid"
  /\ Reports(0, "none", <<"checkout.session.completed">>)
  /\ UNCHANGED stripe

CardDeclined ==
  /\ StripeActs
  /\ charge = "open"
  /\ Reports(0, "none", <<"payment_intent.payment_failed">>)
  /\ UNCHANGED atStripe

Becomes(s, status, types) ==
  /\ StripeActs
  /\ stripe' = [stripe EXCEPT ![s] = status]
  /\ Reports(s, status, types)
  /\ UNCHANGED charge

\* An invoice of s is paid: the first, the next, or an overdue one.
InvoicePaid(s) ==
  /\ stripe[s] \in {"incomplete", "active", "past_due", "unpaid"}
  /\ Becomes(s, "active",
             <<"invoice.payment_succeeded", "customer.subscription.updated">>)

InvoiceUnpaid(s) ==
  /\ stripe[s] = "active"
  /\ Becomes(s, "past_due",
             <<"invoice.payment_failed", "customer.subscription.updated">>)

\* Stripe stops trying to collect.
GiveUp(s) ==
  \/ /\ stripe[s] = "past_due"
     /\ Becomes(s, "unpaid", <<"customer.subscription.updated">>)
  \/ /\ stripe[s] = "incomplete"
     /\ Becomes(s, "incomplete_expired", <<"customer.subscription.updated">>)

\* The subscription ends, as asked for by cancelAtPeriodEnd or by Stripe's rules.
Ends(s) ==
  /\ stripe[s] \in {"active", "past_due", "unpaid"}
  /\ Becomes(s, "canceled", <<"customer.subscription.deleted">>)

-----------------------------------------------------------------------------
(* A process starts, and ends.                                              *)

Begins(p, pc, task, entity) ==
  /\ proc[p].pc = "idle"
  /\ proc' = [proc EXCEPT ![p] = Started(pc, task, entity)]

\* A faulty variant of Answer: the controller never says 200.
AnswerNever(task) == UNCHANGED events

\* The process has answered; an event answered with 200 is not sent again,
\* unless by mistake.
Answer(task) ==
  IF task.type \in EventType
  THEN inbox' = inbox \ {task} /\ answered' = answered \cup {task} /\ UNCHANGED sent
  ELSE UNCHANGED events

\* Stripe delivers an event, or delivers it again.
Arrives(e) ==
  \/ /\ e \in inbox
     /\ Ordered => \A f \in inbox : e.n <= f.n
     /\ UNCHANGED redeliveries
  \/ /\ e \in answered
     /\ redeliveries < MaxRedeliveries
     /\ redeliveries' = redeliveries + 1

Goes(p, next) == proc' = [proc EXCEPT ![p].pc = next]

-----------------------------------------------------------------------------
(* handleWebhook: each handler reads the row and changes its copy.          *)

Handles(p, e, pc, entity) ==
  /\ Arrives(e)
  /\ Begins(p, pc, e, entity)
  /\ UNCHANGED <<tables, atStripe, events, signed, requests, failures>>

\* The first payment is all of it, or the first of several instalments.
HandleCheckoutCompleted(p, e) ==
  /\ e.type = "checkout.session.completed"
  /\ Handles(p, e, "intent",
       IF row.initialPaymentType = "single" \/ 1 >= TotalInstallments
       THEN [row EXCEPT !.initialPaymentStatus = "completed",
               !.status = "pending_contract"]
       ELSE [row EXCEPT !.initialPaymentStatus = "partial"])

HandlePaymentFailed(p, e) ==
  /\ e.type = "payment_intent.payment_failed"
  /\ Handles(p, e, "load", [row EXCEPT !.initialPaymentStatus = "failed"])

\* The other handlers look the row up by the id of the Stripe subscription.
Known(e) == e.sub # 0 /\ row.stripeSubscriptionId = e.sub

HandleInvoicePaymentSucceeded(p, e) ==
  /\ e.type = "invoice.payment_succeeded" /\ Known(e)
  /\ Handles(p, e, "load", [row EXCEPT !.status = "active"])

HandleInvoicePaymentFailed(p, e) ==
  /\ e.type = "invoice.payment_failed" /\ Known(e)
  /\ Handles(p, e, "load", [row EXCEPT !.status = "past_due"])

\* A faulty variant of HandleSubscriptionUpdated: Stripe's word is kept.
HandleUpdatedAsTold(p, e) ==
  /\ e.type = "customer.subscription.updated" /\ Known(e)
  /\ Handles(p, e, "load", [row EXCEPT !.status = e.status])

HandleSubscriptionUpdated(p, e) ==
  /\ e.type = "customer.subscription.updated" /\ Known(e)
  /\ Handles(p, e, "load", [row EXCEPT !.status =
       CASE e.status = "active" -> "active"
         [] e.status = "past_due" -> "past_due"
         [] e.status = "canceled" -> "cancelled"
         [] e.status = "unpaid" -> "suspended"
         [] OTHER -> @])

\* A faulty variant of HandleSubscriptionDeleted: the status is suspended.
HandleDeletedAsSuspended(p, e) ==
  /\ e.type = "customer.subscription.deleted" /\ Known(e)
  /\ Handles(p, e, "load", [row EXCEPT !.status = "suspended"])

HandleSubscriptionDeleted(p, e) ==
  /\ e.type = "customer.subscription.deleted" /\ Known(e)
  /\ Handles(p, e, "load", [row EXCEPT !.status = "cancelled"])

\* No row has the Stripe subscription, or the invoice does not name one (newer
\* API versions of Stripe moved the field): the handler returns at once.
IgnoreEvent(e) ==
  /\ e.type \notin CheckoutEvent
  /\ ~Known(e) \/ e.type \in InvoiceEvent
  /\ \E p \in Handlers : proc[p].pc = "idle"
  /\ e \in inbox \* a repeated one would change nothing
  /\ Ordered => \A f \in inbox : e.n <= f.n
  /\ Answer(e)
  /\ UNCHANGED <<tables, atStripe, proc, signed, counters>>

\* retrievePaymentIntent, which changes the payment method only.
RetrieveIntent(p) ==
  /\ proc[p].pc = "intent"
  /\ Goes(p, "load")
  /\ UNCHANGED <<tables, atStripe, events, signed, counters>>

-----------------------------------------------------------------------------
(* Requests.                                                                *)

Asks(p, pc, type, entity) ==
  /\ requests < MaxRequests
  /\ requests' = requests + 1
  /\ Begins(p, pc, Request(type), entity)
  /\ UNCHANGED <<tables, atStripe, events, redeliveries, failures>>

\* cancel, at once or at the end of the period (which changes only expiresAt).
Cancel(p) ==
  /\ row.status # "cancelled"
  /\ LET next == IF row.stripeSubscriptionId = 0 THEN "load" ELSE "stripe"
     IN \/ Asks(p, next, "cancelNow", [row EXCEPT !.status = "cancelled"])
        \/ Asks(p, next, "cancelAtPeriodEnd", row)
  /\ UNCHANGED signed

\* A faulty variant of ActivateAfterContractSigned: any status will do.
ActivateUnchecked(p) ==
  /\ \E next \in {"load"} \cup (IF row.stripeSubscriptionId = 0 THEN {"stripe"} ELSE {}) :
       Asks(p, next, "activate",
            [row EXCEPT !.contractSigned = TRUE, !.status = "active"])
  /\ signed' = TRUE

\* The plan may have no monthly price; then no Stripe subscription is created.
ActivateAfterContractSigned(p) ==
  /\ row.status = "pending_contract"
  /\ \E next \in {"load"} \cup (IF row.stripeSubscriptionId = 0 THEN {"stripe"} ELSE {}) :
       Asks(p, next, "activate",
            [row EXCEPT !.contractSigned = TRUE, !.status = "active"])
  /\ signed' = TRUE

StripeCancel(p) ==
  /\ proc[p].pc = "stripe" /\ proc[p].task.type # "activate"
  /\ LET s == proc[p].entity.stripeSubscriptionId
     IN /\ stripe[s] \in {"incomplete", "active", "past_due", "unpaid"}
        /\ IF proc[p].task.type = "cancelNow"
           THEN /\ stripe' = [stripe EXCEPT ![s] = "canceled"]
                /\ Reports(s, "canceled", <<"customer.subscription.deleted">>)
           ELSE /\ UNCHANGED stripe
                /\ Reports(s, stripe[s], <<"customer.subscription.updated">>)
  /\ Goes(p, "load")
  /\ UNCHANGED <<tables, charge, signed, counters>>

\* Stripe refuses to cancel what has ended: the request fails.
StripeRefuses(p) ==
  /\ proc[p].pc = "stripe" /\ proc[p].task.type # "activate"
  /\ stripe[proc[p].entity.stripeSubscriptionId] \in {"canceled", "incomplete_expired"}
  /\ proc' = [proc EXCEPT ![p] = Idle]
  /\ UNCHANGED <<tables, atStripe, events, signed, counters>>

\* A faulty variant of StripeCreate: its answer is not kept.
StripeCreateUnkept(p) ==
  /\ proc[p].pc = "stripe" /\ proc[p].task.type = "activate"
  /\ \E s \in StripeId :
       /\ stripe[s] = "none" /\ \A t \in 1 .. s - 1 : stripe[t] # "none"
       /\ stripe' = [stripe EXCEPT ![s] = "incomplete"]
  /\ Goes(p, "load")
  /\ UNCHANGED <<tables, charge, events, signed, counters>>

\* createSubscription, with payment_behavior default_incomplete.
StripeCreate(p) ==
  /\ proc[p].pc = "stripe" /\ proc[p].task.type = "activate"
  /\ \E s \in StripeId :
       /\ stripe[s] = "none" /\ \A t \in 1 .. s - 1 : stripe[t] # "none"
       /\ stripe' = [stripe EXCEPT ![s] = "incomplete"]
       /\ proc' = [proc EXCEPT ![p].pc = "load",
                     ![p].entity.stripeSubscriptionId = s]
  /\ UNCHANGED <<tables, charge, events, signed, counters>>

\* createCheckoutSession gets its session from Stripe; nobody has its URL yet.
OpenSession ==
  /\ proc[Creator].pc = "session"
  /\ Goes(Creator, "load")
  /\ UNCHANGED <<tables, atStripe, events, signed, counters>>

-----------------------------------------------------------------------------
(* Saving the subscription, and recording the payment.                      *)

\* A faulty variant of SaveLoad: every save knows of no payment.
SaveLoadForgetful(p) ==
  /\ proc[p].pc = "load"
  /\ proc' = [proc EXCEPT ![p].pc = "write",
       ![p].diff = {c \in Column : proc[p].entity[c] # row[c]},
       ![p].orphans = {i \in DOMAIN payments : payments[i].linked}]
  /\ UNCHANGED <<tables, atStripe, events, signed, counters>>

SaveLoad(p) ==
  /\ proc[p].pc = "load"
  /\ proc' = [proc EXCEPT ![p].pc = "write",
       ![p].diff = {c \in Column : proc[p].entity[c] # row[c]},
       ![p].orphans = {i \in DOMAIN payments \ proc[p].loaded :
                         LoadsPayments(proc[p].task) /\ payments[i].linked}]
  /\ UNCHANGED <<tables, atStripe, events, signed, counters>>

\* The last await of the creator returns the URL of the session, and that of
\* most handlers answers; the ones that record a payment go on.
SaveWrite(p) ==
  /\ proc[p].pc = "write"
  /\ row' = [c \in Column |-> IF c \in proc[p].diff THEN proc[p].entity[c] ELSE row[c]]
  /\ payments' = [i \in DOMAIN payments |->
                    [payments[i] EXCEPT !.linked = @ /\ i \notin proc[p].orphans]]
  /\ charge' = IF p = Creator THEN "open" ELSE charge
  /\ IF proc[p].task.type \in CheckoutEvent
     THEN Goes(p, "count") /\ UNCHANGED events
     ELSE proc' = [proc EXCEPT ![p] = Idle] /\ Answer(proc[p].task)
  /\ UNCHANGED <<stripe, signed, counters>>

\* generateInvoiceNumber.
Count(p) ==
  /\ proc[p].pc = "count"
  /\ proc' = [proc EXCEPT ![p].pc = "insert", ![p].number = Len(payments) + 1]
  /\ UNCHANGED <<tables, atStripe, events, signed, counters>>

\* A faulty variant of InsertPayment: a collision is swallowed.
InsertPaymentOrNot(p) ==
  /\ proc[p].pc = "insert"
  /\ payments' =
       IF proc[p].number = Len(payments) + 1
       THEN Append(payments, [linked |-> TRUE, status |->
              IF proc[p].task.type = "checkout.session.completed"
              THEN "completed" ELSE "failed"])
       ELSE payments
  /\ proc' = [proc EXCEPT ![p] = Idle]
  /\ Answer(proc[p].task)
  /\ UNCHANGED <<row, atStripe, signed, counters>>

\* createPaymentRecord and createFailedPaymentRecord.
InsertPayment(p) ==
  /\ proc[p].pc = "insert"
  /\ proc[p].number = Len(payments) + 1
  /\ payments' = Append(payments, [linked |-> TRUE, status |->
       IF proc[p].task.type = "checkout.session.completed"
       THEN "completed" ELSE "failed"])
  /\ proc' = [proc EXCEPT ![p] = Idle]
  /\ Answer(proc[p].task)
  /\ UNCHANGED <<row, atStripe, signed, counters>>

\* invoiceNumber is unique: the insert throws, and Stripe gets a 400.
InsertCollides(p) ==
  /\ proc[p].pc = "insert"
  /\ proc[p].number <= Len(payments)
  /\ proc' = [proc EXCEPT ![p] = Idle]
  /\ UNCHANGED <<tables, atStripe, events, signed, counters>>

\* A faulty variant of Fails: the controller answers 200 even so.
FailsQuietly(p) ==
  /\ proc[p].pc # "idle"
  /\ failures < MaxFailures
  /\ failures' = failures + 1
  /\ proc' = [proc EXCEPT ![p] = Idle]
  /\ Answer(proc[p].task)
  /\ UNCHANGED <<tables, atStripe, signed, requests, redeliveries>>

\* Any await throws, or the process dies; what is done stays done.
Fails(p) ==
  /\ proc[p].pc # "idle"
  /\ failures < MaxFailures
  /\ failures' = failures + 1
  /\ proc' = [proc EXCEPT ![p] = Idle]
  /\ UNCHANGED <<tables, atStripe, events, signed, requests, redeliveries>>

-----------------------------------------------------------------------------

HandleWebhook(p, e) ==
  \/ HandleCheckoutCompleted(p, e) \/ HandlePaymentFailed(p, e)
  \/ HandleInvoicePaymentSucceeded(p, e) \/ HandleInvoicePaymentFailed(p, e)
  \/ HandleSubscriptionUpdated(p, e) \/ HandleSubscriptionDeleted(p, e)

Continue(p) ==
  \/ RetrieveIntent(p) \/ StripeCancel(p) \/ StripeRefuses(p) \/ StripeCreate(p)
  \/ SaveLoad(p) \/ SaveWrite(p) \/ Count(p) \/ InsertPayment(p) \/ InsertCollides(p)

StripeStep ==
  \/ CheckoutPaid \/ CardDeclined
  \/ \E s \in StripeId : InvoicePaid(s) \/ InvoiceUnpaid(s) \/ GiveUp(s) \/ Ends(s)

Next ==
  \/ StripeStep
  \/ OpenSession
  \/ \E p \in Handlers : \/ \E e \in inbox \cup answered : HandleWebhook(p, e)
                        \/ Cancel(p) \/ ActivateAfterContractSigned(p)
  \/ \E e \in inbox : IgnoreEvent(e)
  \/ \E p \in Process : Continue(p) \/ Fails(p)

Spec == Init /\ [][Next]_vars

\* A running process takes its next step, and Stripe delivers an event until it
\* is answered.  Nobody is obliged to pay, to ask or to fail.
Delivery(e) == e \in inbox /\ \E p \in Handlers : HandleWebhook(p, e)
FairSpec ==
  /\ Spec
  /\ WF_vars(OpenSession)
  /\ \A p \in Process : WF_vars(Continue(p))
  /\ WF_vars(\E e \in inbox : IgnoreEvent(e) \/ Delivery(e))

-----------------------------------------------------------------------------
(* Properties.                                                              *)

TypeOK ==
  /\ row \in Row
  /\ payments \in Seq(Payment)
  /\ charge \in {"closed", "open", "paid"}
  /\ stripe \in [StripeId -> StripeStatus]
  /\ inbox \subseteq Task /\ answered \subseteq Task
  /\ sent \in Nat
  /\ proc \in [Process -> Memory]
  /\ signed \in BOOLEAN
  /\ requests \in 0 .. MaxRequests
  /\ redeliveries \in 0 .. MaxRedeliveries
  /\ failures \in 0 .. MaxFailures

\* The statuses past the initial payment, and those past the contract.
Paid == {"pending_contract", "active", "past_due", "suspended"}
Contracted == {"active", "past_due", "suspended"}

\* However webhooks and requests overlap, repeat and fail, a subscription waits
\* for its contract only if Stripe collected the initial payment, and counts as
\* active or in arrears only if somebody activated it after that, which any user
\* who is logged in may do.
StagesHold ==
  /\ row.status \in Paid => charge = "paid"
  /\ row.status \in Contracted \/ row.contractSigned
       \/ row.stripeSubscriptionId # 0 => signed
  /\ signed => charge = "paid"

\* A charge whose event was answered with 200, so that Stripe forgets it, has a
\* record in payments: collisions of invoice numbers and failures lose none.
Charged == \E i \in DOMAIN payments : payments[i].status = "completed"
AnsweredIsRecorded ==
  (\E e \in answered : e.type = "checkout.session.completed") => Charged

\* Fairness: what Stripe collected is recorded in the end.
ChargeIsRecorded == charge = "paid" ~> Charged

\* No handler counts the instalments after the first: a subscription paid in
\* instalments never waits for a contract, nor is it ever activated.
InstallmentsNeverComplete ==
  row.initialPaymentType = "installments" /\ TotalInstallments > 1 =>
    /\ row.status \notin Paid
    /\ row.initialPaymentStatus # "completed"

Quiet == \A p \in Process : proc[p].pc = "idle"

\* One process at a time, a Stripe subscription that the row does not name was
\* left behind by an activation that failed before its save.
OrphansCostFailures ==
  \A s \in StripeId :
    Quiet /\ stripe[s] # "none" /\ row.stripeSubscriptionId # s => failures > 0

\* One process at a time, no payment loses its subscription.
PaymentsStayLinked == \A i \in DOMAIN payments : payments[i].linked

\* The statuses for which handleSubscriptionUpdated has a case.
StatusOf == [s \in {"active", "past_due", "unpaid", "canceled"} |->
               CASE s = "active" -> "active"
                 [] s = "past_due" -> "past_due"
                 [] s = "unpaid" -> "suspended"
                 [] s = "canceled" -> "cancelled"]

\* What the row may show of Stripe's status.  The handler has no case for the
\* incomplete ones: the row stays as the activation left it, or as the event of
\* the initial payment set it back, though Stripe has collected no month of the
\* subscription and, once it is incomplete_expired, never will.
Shown(status) ==
  CASE status \in DOMAIN StatusOf -> {StatusOf[status]}
    [] status = "none" -> {}
    [] OTHER -> {"active", "pending_contract"}

\* One process at a time and events in order, once every event is answered the
\* row names a subscription that Stripe has and shows its status, whatever failed
\* on the way; but a subscription that Stripe never collected shows as active.
FollowsStripe ==
  LET s == row.stripeSubscriptionId
  IN Quiet /\ inbox = {} /\ s # 0 => row.status \in Shown(stripe[s])

\* One process at a time, an activated subscription is set back to waiting for
\* its contract only after a failure: the event of the initial payment, left
\* unanswered then, is handled again.
SetBackCostsFailures ==
  [][row.status \in Contracted /\ row'.status = "pending_contract" => failures > 0]_vars

\* "Create monthly subscription in Stripe if not already done"
\* (subscriptions.service.ts:666): it is created once.
CreatedOnce ==
  \A s, t \in StripeId : stripe[s] # "none" /\ stripe[t] # "none" => s = t

=============================================================================
