-------------------------- MODULE SubscriptionsProofs --------------------------
(***************************************************************************)
(* Proofs about Subscriptions.  The first part holds for any number of     *)
(* handlers, requests, events, redeliveries and failures, in any order.    *)
(* The second assumes that requests and webhooks do not overlap, and, for  *)
(* what needs it, that Stripe repeats nothing or keeps the order.          *)
(***************************************************************************)
EXTENDS Subscriptions, TLAPS

-----------------------------------------------------------------------------
(* Type correctness.                                                       *)

\* An idle process, and one that has just begun, remember well-typed things.
LEMMA IdleType == Idle \in Memory
BY DEF Idle, Memory, Task, Request, RequestType, Created, Row, Status,
       InitialPaymentStatus, Column, StripeStatus, EventType, CheckoutEvent,
       InvoiceEvent

LEMMA StartedType ==
  ASSUME TypeOK, NEW task \in Task, NEW entity \in Row,
         NEW pc \in {"idle", "session", "intent", "stripe", "load", "write",
                     "count", "insert"}
  PROVE  Started(pc, task, entity) \in Memory
<1>1. DOMAIN payments \subseteq Nat
  BY DEF TypeOK
<1>2. QED
  BY <1>1 DEF Started, Memory

\* The requests are tasks.
LEMMA RequestTask ==
  ASSUME NEW type \in RequestType PROVE Request(type) \in Task
BY DEF Request, Task, StripeStatus

\* The events Stripe sends are tasks.
LEMMA ReportsType ==
  ASSUME TypeOK, NEW s \in StripeId \cup {0}, NEW status \in StripeStatus,
         NEW types \in Seq(EventType), Reports(s, status, types)
  PROVE  inbox' \subseteq Task /\ answered' \subseteq Task /\ sent' \in Nat
<1>1. ASSUME NEW i \in DOMAIN types
      PROVE  Event(types[i], s, status, sent + i) \in Task
  BY DEF Event, Task, TypeOK
<1>2. Len(types) \in Nat
  OBVIOUS
<1>3. QED
  BY <1>1, <1>2 DEF Reports, TypeOK

\* Answering a task keeps the events well typed.
LEMMA AnswerType ==
  ASSUME TypeOK, NEW task \in Task, Answer(task)
  PROVE  inbox' \subseteq Task /\ answered' \subseteq Task /\ sent' \in Nat
BY DEF Answer, TypeOK, events

\* The initial states are well typed.
LEMMA InitTypeOK == Init => TypeOK
<1> SUFFICES ASSUME Init PROVE TypeOK
  OBVIOUS
<1>1. row \in Row
  BY PlanAssumption DEF Init, Created, Row, Status, InitialPaymentStatus
<1>2. Request("createCheckoutSession") \in Task
  BY RequestTask DEF RequestType
<1>3. [Idle EXCEPT !.pc = "session", !.entity = row,
         !.task = Request("createCheckoutSession")] \in Memory
  BY <1>1, <1>2, IdleType DEF Memory
<1>4. proc \in [Process -> Memory]
  BY <1>3, IdleType DEF Init
<1>5. payments \in Seq(Payment) /\ inbox \subseteq Task /\ answered \subseteq Task
  BY DEF Init
<1>6. requests \in 0 .. MaxRequests /\ redeliveries \in 0 .. MaxRedeliveries
        /\ failures \in 0 .. MaxFailures /\ sent \in Nat
  BY BoundsAssumption DEF Init
<1>7. stripe \in [StripeId -> StripeStatus] /\ signed \in BOOLEAN
        /\ charge \in {"closed", "open", "paid"}
  BY DEF Init, StripeStatus
<1>8. QED
  BY <1>1, <1>4, <1>5, <1>6, <1>7 DEF TypeOK

\* What Stripe does by itself.
LEMMA StripeType ==
  ASSUME TypeOK, StripeStep PROVE TypeOK'
<1> USE DEF tables, counters, atStripe
<1>1. CASE CheckoutPaid
  <2>1. Reports(0, "none", <<"checkout.session.completed">>)
    BY <1>1 DEF CheckoutPaid
  <2>0. <<"checkout.session.completed">> \in Seq(EventType) /\ "none" \in StripeStatus
    BY DEF EventType, CheckoutEvent, StripeStatus
  <2>2. inbox' \subseteq Task /\ answered' \subseteq Task /\ sent' \in Nat
    BY <2>0, <2>1, ReportsType
  <2>3. QED
    BY <1>1, <2>2 DEF TypeOK, CheckoutPaid, StripeActs
<1>2. CASE CardDeclined
  <2>1. Reports(0, "none", <<"payment_intent.payment_failed">>)
    BY <1>2 DEF CardDeclined
  <2>0. <<"payment_intent.payment_failed">> \in Seq(EventType) /\ "none" \in StripeStatus
    BY DEF EventType, CheckoutEvent, StripeStatus
  <2>2. inbox' \subseteq Task /\ answered' \subseteq Task /\ sent' \in Nat
    BY <2>0, <2>1, ReportsType
  <2>3. QED
    BY <1>2, <2>2 DEF TypeOK, CardDeclined, StripeActs
<1>3. ASSUME NEW s \in StripeId,
             InvoicePaid(s) \/ InvoiceUnpaid(s) \/ GiveUp(s) \/ Ends(s)
      PROVE  TypeOK'
  <2>1. PICK status \in StripeStatus, types \in Seq(EventType) :
           Becomes(s, status, types)
    <3>1. /\ <<"invoice.payment_succeeded", "customer.subscription.updated">> \in Seq(EventType)
          /\ <<"invoice.payment_failed", "customer.subscription.updated">> \in Seq(EventType)
          /\ <<"customer.subscription.updated">> \in Seq(EventType)
          /\ <<"customer.subscription.deleted">> \in Seq(EventType)
      BY DEF EventType, InvoiceEvent
    <3>2. {"active", "past_due", "unpaid", "incomplete_expired", "canceled"}
            \subseteq StripeStatus
      BY DEF StripeStatus
    <3>3. CASE InvoicePaid(s)
      BY <3>1, <3>2, <3>3 DEF InvoicePaid
    <3>4. CASE InvoiceUnpaid(s)
      BY <3>1, <3>2, <3>4 DEF InvoiceUnpaid
    <3>5. CASE GiveUp(s)
      BY <3>1, <3>2, <3>5 DEF GiveUp
    <3>6. CASE Ends(s)
      BY <3>1, <3>2, <3>6 DEF Ends
    <3>7. QED
      BY <1>3, <3>3, <3>4, <3>5, <3>6
  <2>2. inbox' \subseteq Task /\ answered' \subseteq Task /\ sent' \in Nat
    BY <2>1, ReportsType DEF Becomes
  <2>3. QED
    BY <2>1, <2>2 DEF TypeOK, Becomes, StripeActs
<1>4. QED
  BY <1>1, <1>2, <1>3 DEF StripeStep

\* The first step of a webhook handler.
LEMMA WebhookType ==
  ASSUME TypeOK, NEW p \in Handlers, NEW e \in inbox \cup answered,
         HandleWebhook(p, e)
  PROVE  TypeOK'
<1>1. PICK entity \in Row, pc \in {"intent", "load"} : Handles(p, e, pc, entity)
  <2>1. ASSUME NEW s \in Status, NEW i \in InitialPaymentStatus
        PROVE  /\ [row EXCEPT !.status = s] \in Row
               /\ [row EXCEPT !.initialPaymentStatus = i] \in Row
               /\ [row EXCEPT !.initialPaymentStatus = i, !.status = s] \in Row
    BY DEF TypeOK, Row
  <2>2. /\ {"pending_contract", "active", "past_due", "cancelled", "suspended",
            row.status} \subseteq Status
        /\ {"completed", "partial", "failed"} \subseteq InitialPaymentStatus
    BY DEF TypeOK, Row, Status, InitialPaymentStatus
  <2>3. CASE HandleCheckoutCompleted(p, e)
    <3>1. CASE row.initialPaymentType = "single" \/ 1 >= TotalInstallments
      BY <2>1, <2>2, <2>3, <3>1 DEF HandleCheckoutCompleted
    <3>2. CASE ~(row.initialPaymentType = "single" \/ 1 >= TotalInstallments)
      BY <2>1, <2>2, <2>3, <3>2 DEF HandleCheckoutCompleted
    <3>3. QED
      BY <3>1, <3>2
  <2>7. CASE HandlePaymentFailed(p, e)
    BY <2>1, <2>2, <2>7 DEF HandlePaymentFailed
  <2>4. CASE HandleInvoicePaymentSucceeded(p, e) \/ HandleInvoicePaymentFailed(p, e)
             \/ HandleSubscriptionDeleted(p, e)
    BY <2>1, <2>2, <2>4 DEF HandleInvoicePaymentSucceeded,
       HandleInvoicePaymentFailed, HandleSubscriptionDeleted
  <2>5. CASE HandleSubscriptionUpdated(p, e)
    <3> DEFINE s == CASE e.status = "active" -> "active"
                      [] e.status = "past_due" -> "past_due"
                      [] e.status = "canceled" -> "cancelled"
                      [] e.status = "unpaid" -> "suspended"
                      [] OTHER -> row.status
    <3>1. Handles(p, e, "load", [row EXCEPT !.status = s])
      BY <2>5 DEF HandleSubscriptionUpdated
    <3>2. s \in Status
      BY <2>2
    <3> HIDE DEF s
    <3>3. [row EXCEPT !.status = s] \in Row
      BY <2>1, <2>2, <3>2
    <3>4. "load" \in {"intent", "load"}
      OBVIOUS
    <3>5. QED
      BY <3>1, <3>3, <3>4, Zenon DEF s
  <2>6. QED
    BY <2>3, <2>4, <2>5, <2>7 DEF HandleWebhook
<1>2. e \in Task
  BY DEF TypeOK
<1>3. Started(pc, e, entity) \in Memory
  BY <1>2, StartedType
<1>4. redeliveries' \in 0 .. MaxRedeliveries
  BY <1>1, BoundsAssumption DEF Handles, Arrives, TypeOK
<1>5. QED
  BY <1>1, <1>3, <1>4 DEF Handles, Begins, TypeOK, tables, atStripe, events

\* The first step of a request.
LEMMA AskingType ==
  ASSUME TypeOK, NEW p \in Handlers, Cancel(p) \/ ActivateAfterContractSigned(p)
  PROVE  TypeOK'
<1>1. PICK entity \in Row, pc \in {"stripe", "load"}, type \in RequestType :
         Asks(p, pc, type, entity)
  <2>1. /\ [row EXCEPT !.status = "cancelled"] \in Row
        /\ row \in Row
        /\ [row EXCEPT !.contractSigned = TRUE, !.status = "active"] \in Row
    BY DEF TypeOK, Row, Status
  <2>2. QED
    BY <2>1 DEF Cancel, ActivateAfterContractSigned, RequestType
<1>2. Started(pc, Request(type), entity) \in Memory
  BY StartedType, RequestTask
<1>3. requests' \in 0 .. MaxRequests
  BY <1>1, BoundsAssumption DEF Asks, TypeOK
<1>4. signed' \in BOOLEAN
  BY DEF Cancel, ActivateAfterContractSigned, TypeOK
<1>5. QED
  BY <1>1, <1>2, <1>3, <1>4 DEF Asks, Begins, TypeOK, tables, atStripe, events

\* The rest of a process's run.
LEMMA ContinueType ==
  ASSUME TypeOK, NEW p \in Process, Continue(p) PROVE TypeOK'
<1> USE DEF tables, atStripe, events, counters
<1>1. proc[p] \in Memory
  BY DEF TypeOK
<1>2. CASE RetrieveIntent(p)
  BY <1>1, <1>2 DEF RetrieveIntent, Goes, TypeOK, Memory
<1>3. CASE StripeCancel(p)
  <2>1. PICK s \in StripeId \cup {0}, status \in StripeStatus, types \in Seq(EventType) :
           Reports(s, status, types)
    <3>1. /\ <<"customer.subscription.updated">> \in Seq(EventType)
          /\ <<"customer.subscription.deleted">> \in Seq(EventType)
          /\ "canceled" \in StripeStatus
      BY DEF EventType, StripeStatus
    <3>2. proc[p].entity.stripeSubscriptionId \in StripeId \cup {0}
      BY <1>1 DEF Memory, Row
    <3>3. stripe[proc[p].entity.stripeSubscriptionId] \in {"incomplete", "active", "past_due", "unpaid"}
      BY <1>3 DEF StripeCancel
    <3>4. stripe[proc[p].entity.stripeSubscriptionId] \in StripeStatus
      BY <3>3 DEF StripeStatus
    <3>5. QED
      BY <1>3, <3>1, <3>2, <3>4 DEF StripeCancel
  <2>2. inbox' \subseteq Task /\ answered' \subseteq Task /\ sent' \in Nat
    BY <2>1, ReportsType
  <2>3. stripe' \in [StripeId -> StripeStatus]
    BY <1>3 DEF StripeCancel, TypeOK, StripeStatus
  <2>4. proc' \in [Process -> Memory]
    BY <1>1, <1>3 DEF StripeCancel, Goes, TypeOK, Memory
  <2>5. QED
    BY <1>3, <2>2, <2>3, <2>4 DEF StripeCancel, TypeOK
<1>4. CASE StripeRefuses(p)
  BY <1>4, IdleType DEF StripeRefuses, TypeOK
<1>5. CASE StripeCreate(p)
  <2>1. PICK s \in StripeId :
          /\ stripe' = [stripe EXCEPT ![s] = "incomplete"]
          /\ proc' = [proc EXCEPT ![p].pc = "load",
                        ![p].entity.stripeSubscriptionId = s]
    BY <1>5 DEF StripeCreate
  <2>2. [proc[p].entity EXCEPT !.stripeSubscriptionId = s] \in Row
    BY <1>1 DEF Memory, Row
  <2>3. proc' \in [Process -> Memory]
    BY <1>1, <2>1, <2>2 DEF TypeOK, Memory
  <2>4. stripe' \in [StripeId -> StripeStatus]
    BY <2>1 DEF TypeOK, StripeStatus
  <2>5. QED
    BY <1>5, <2>3, <2>4 DEF StripeCreate, TypeOK
<1>6. CASE SaveLoad(p)
  <2>1. {i \in DOMAIN payments \ proc[p].loaded :
           LoadsPayments(proc[p].task) /\ payments[i].linked} \subseteq Nat
    BY DEF TypeOK
  <2>2. proc' \in [Process -> Memory]
    BY <1>1, <1>6, <2>1 DEF SaveLoad, TypeOK, Memory
  <2>3. QED
    BY <1>6, <2>2 DEF SaveLoad, TypeOK
<1>7. CASE SaveWrite(p)
  <2>1. row' \in Row
    BY <1>1, <1>7 DEF SaveWrite, TypeOK, Row, Column, Memory
  <2>2. payments' \in Seq(Payment)
    <3>1. ASSUME NEW i \in DOMAIN payments
          PROVE  [payments[i] EXCEPT !.linked = @ /\ i \notin proc[p].orphans] \in Payment
      <4> DEFINE b == payments[i].linked /\ i \notin proc[p].orphans
      <4>1. payments[i] \in Payment
        BY DEF TypeOK
      <4>2. b \in BOOLEAN
        BY Zenon
      <4> HIDE DEF b
      <4>3. [payments[i] EXCEPT !.linked = b] \in Payment
        BY <4>1, <4>2 DEF Payment
      <4>4. QED
        BY <4>3, Zenon DEF b
    <3>2. Len(payments) \in Nat /\ DOMAIN payments = 1 .. Len(payments)
      BY DEF TypeOK
    <3>3. payments' \in [1 .. Len(payments) -> Payment]
      BY <1>7, <3>1, <3>2 DEF SaveWrite
    <3>4. QED
      BY <3>2, <3>3
  <2>3. /\ proc' \in [Process -> Memory]
        /\ inbox' \subseteq Task /\ answered' \subseteq Task /\ sent' \in Nat
    <3>1. CASE proc[p].task.type \in CheckoutEvent
      <4>1. proc' = [proc EXCEPT ![p].pc = "count"] /\ UNCHANGED events
        BY <1>7, <3>1 DEF SaveWrite, Goes
      <4>2. [proc[p] EXCEPT !.pc = "count"] \in Memory
        BY <1>1 DEF Memory
      <4>3. QED
        BY <4>1, <4>2 DEF TypeOK
    <3>2. CASE proc[p].task.type \notin CheckoutEvent
      <4>1. proc[p].task \in Task
        BY <1>1 DEF Memory
      <4>2. QED
        BY <1>7, <3>2, <4>1, IdleType, AnswerType DEF SaveWrite, TypeOK
    <3>3. QED
      BY <3>1, <3>2
  <2>4. QED
    BY <1>7, <2>1, <2>2, <2>3 DEF SaveWrite, TypeOK
<1>8. CASE Count(p)
  <2>1. Len(payments) + 1 \in Nat
    BY DEF TypeOK
  <2>2. QED
    BY <1>1, <1>8, <2>1 DEF Count, TypeOK, Memory
<1>9. CASE InsertPayment(p)
  <2>1. payments' \in Seq(Payment)
    BY <1>9 DEF InsertPayment, TypeOK, Payment
  <2>2. proc[p].task \in Task
    BY <1>1 DEF Memory
  <2>3. inbox' \subseteq Task /\ answered' \subseteq Task /\ sent' \in Nat
    BY <1>9, <2>2, AnswerType DEF InsertPayment
  <2>4. QED
    BY <1>9, <2>1, <2>3, IdleType DEF InsertPayment, TypeOK
<1>10. CASE InsertCollides(p)
  BY <1>10, IdleType DEF InsertCollides, TypeOK
<1>11. QED
  BY <1>2, <1>3, <1>4, <1>5, <1>6, <1>7, <1>8, <1>9, <1>10 DEF Continue

\* Every step preserves the types.
LEMMA NextTypeOK == TypeOK /\ [Next]_vars => TypeOK'
<1> SUFFICES ASSUME TypeOK, [Next]_vars PROVE TypeOK'
  OBVIOUS
<1> USE DEF tables, atStripe, events, counters
<1>1. CASE OpenSession
  BY <1>1 DEF OpenSession, Goes, TypeOK, Memory, Process
<1>2. ASSUME NEW e \in inbox, IgnoreEvent(e) PROVE TypeOK'
  <2>1. e \in Task
    BY DEF TypeOK
  <2>2. QED
    BY <1>2, <2>1, AnswerType DEF IgnoreEvent, TypeOK
<1>3. ASSUME NEW p \in Process, Fails(p) PROVE TypeOK'
  BY <1>3, IdleType, BoundsAssumption DEF Fails, TypeOK
<1>4. CASE UNCHANGED vars
  BY <1>4 DEF vars, TypeOK
<1>5. QED
  BY <1>1, <1>2, <1>3, <1>4, StripeType, WebhookType, AskingType, ContinueType
     DEF Next

\* Every reachable state is well typed.
THEOREM TypeCorrect == Spec => []TypeOK
<1>1. Init => TypeOK
  BY InitTypeOK
<1>2. TypeOK /\ [Next]_vars => TypeOK'
  BY NextTypeOK
<1>3. QED
  BY <1>1, <1>2, PTL DEF Spec

-----------------------------------------------------------------------------
(* Payment before contract before activation.                              *)

\* An entity is no further than Stripe and the activations are.
Fits(entity) ==
  /\ entity.status \in Paid => charge = "paid"
  /\ entity.status \in Contracted \/ entity.contractSigned
       \/ entity.stripeSubscriptionId # 0 => signed

\* That holds of what each process has in memory and may still save.
MemoryHolds ==
  \A p \in Process :
    /\ Fits(proc[p].entity)
    /\ proc[p].task.type = "checkout.session.completed" => charge = "paid"
    /\ proc[p].pc = "stripe" /\ proc[p].task.type = "activate" => signed

\* The event of the initial payment exists only once Stripe collected it.
EventsHold ==
  \A e \in inbox \cup answered :
    e.type = "checkout.session.completed" => charge = "paid"

\* Nobody can pay before createCheckoutSession has returned.
NobodyPaysEarly == proc[Creator].pc # "idle" => charge = "closed"

\* The creator handles no event, and only it opens the session.
EveryoneInPlace ==
  /\ proc[Creator].pc \in {"idle", "session", "load", "write"}
  /\ proc[Creator].task.type \notin EventType
  /\ \A p \in Handlers : proc[p].pc # "session"

StagesInv ==
  StagesHold /\ MemoryHolds /\ EventsHold /\ NobodyPaysEarly /\ EveryoneInPlace

\* In the initial states nothing is paid.
LEMMA InitStages == Init => StagesInv
<1> SUFFICES ASSUME Init PROVE StagesInv
  OBVIOUS
<1>1. row.status = "pending_payment" /\ row.contractSigned = FALSE
        /\ row.stripeSubscriptionId = 0
  BY DEF Init, Created
<1>2. \A p \in Process : /\ proc[p].entity.status = "pending_payment"
                         /\ proc[p].entity.contractSigned = FALSE
                         /\ proc[p].entity.stripeSubscriptionId = 0
                         /\ proc[p].pc \in {"idle", "session"}
                         /\ proc[p].task.type \in {"none", "createCheckoutSession"}
                         /\ p # Creator => proc[p].pc = "idle"
  BY <1>1 DEF Init, Idle, Created, Request
<1>3. StagesHold /\ EventsHold /\ NobodyPaysEarly
  BY <1>1 DEF Init, StagesHold, EventsHold, NobodyPaysEarly, Paid, Contracted
<1>4. MemoryHolds /\ EveryoneInPlace
  BY <1>2, ProcessAssumption DEF MemoryHolds, Fits, EveryoneInPlace, Paid, Contracted,
     Process, EventType, CheckoutEvent, InvoiceEvent
<1>5. QED
  BY <1>3, <1>4 DEF StagesInv

\* What Stripe does keeps the invariant: only CheckoutPaid sends the event of
\* the initial payment.
LEMMA StripeStages ==
  ASSUME StagesInv, StripeStep PROVE StagesInv'
<1> USE DEF StagesInv, StagesHold, MemoryHolds, Fits, EventsHold, NobodyPaysEarly,
            EveryoneInPlace, tables, counters, atStripe
<1>1. CASE CheckoutPaid
  BY <1>1 DEF CheckoutPaid, StripeActs, Reports, Event
<1>2. CASE CardDeclined
  <2>1. \A e \in inbox' : e \in inbox \/ e.type = "payment_intent.payment_failed"
    BY <1>2 DEF CardDeclined, Reports, Event
  <2>2. UNCHANGED <<row, proc, charge, signed, answered>>
    BY <1>2 DEF CardDeclined, StripeActs, Reports
  <2>3. QED
    BY <2>1, <2>2
<1>3. ASSUME NEW s \in StripeId,
             InvoicePaid(s) \/ InvoiceUnpaid(s) \/ GiveUp(s) \/ Ends(s)
      PROVE  StagesInv'
  <2>1. PICK status \in StripeStatus, types \in Seq(EventType \ CheckoutEvent) :
           Becomes(s, status, types)
    <3>1. /\ <<"invoice.payment_succeeded", "customer.subscription.updated">>
               \in Seq(EventType \ CheckoutEvent)
          /\ <<"invoice.payment_failed", "customer.subscription.updated">>
               \in Seq(EventType \ CheckoutEvent)
          /\ <<"customer.subscription.updated">> \in Seq(EventType \ CheckoutEvent)
          /\ <<"customer.subscription.deleted">> \in Seq(EventType \ CheckoutEvent)
      BY DEF EventType, InvoiceEvent, CheckoutEvent
    <3>2. {"active", "past_due", "unpaid", "incomplete_expired", "canceled"}
            \subseteq StripeStatus
      BY DEF StripeStatus
    <3>3. CASE InvoicePaid(s)
      BY <3>1, <3>2, <3>3 DEF InvoicePaid
    <3>4. CASE InvoiceUnpaid(s)
      BY <3>1, <3>2, <3>4 DEF InvoiceUnpaid
    <3>5. CASE GiveUp(s)
      BY <3>1, <3>2, <3>5 DEF GiveUp
    <3>6. CASE Ends(s)
      BY <3>1, <3>2, <3>6 DEF Ends
    <3>7. QED
      BY <1>3, <3>3, <3>4, <3>5, <3>6
  <2>2. \A e \in inbox' : e \in inbox \/ e.type \notin CheckoutEvent
    BY <2>1 DEF Becomes, Reports, Event
  <2>3. UNCHANGED <<row, proc, charge, signed, answered>>
    BY <2>1 DEF Becomes, StripeActs, Reports
  <2>4. QED
    BY <2>2, <2>3 DEF CheckoutEvent
<1>4. QED
  BY <1>1, <1>2, <1>3 DEF StripeStep

\* A process starts on an entity that fits: what it remembers fits too.
LEMMA StartedStages ==
  ASSUME TypeOK, StagesInv, NEW p \in Handlers, NEW task,
         NEW pc \in {"intent", "stripe", "load"}, NEW entity,
         Begins(p, pc, task, entity), UNCHANGED <<row, charge, inbox, answered>>,
         Fits(entity)', signed => signed', signed' => charge = "paid",
         pc = "stripe" /\ task.type = "activate" => signed',
         task.type = "checkout.session.completed" => charge = "paid"
  PROVE  StagesInv'
<1>1. proc' = [proc EXCEPT ![p] = Started(pc, task, entity)]
  BY DEF Begins
<1>2. p # Creator /\ p \in Process /\ Creator \in Process
  BY ProcessAssumption DEF Process
<1>3. /\ proc'[p].entity = entity /\ proc'[p].pc = pc /\ proc'[p].task = task
      /\ \A q \in Process \ {p} : proc'[q] = proc[q]
  BY <1>1, <1>2 DEF TypeOK, Started
<1>4. MemoryHolds'
  BY <1>3 DEF StagesInv, MemoryHolds, Fits
<1>5. NobodyPaysEarly' /\ EveryoneInPlace'
  BY <1>2, <1>3 DEF StagesInv, NobodyPaysEarly, EveryoneInPlace, Process
<1>6. StagesHold' /\ EventsHold'
  BY DEF StagesInv, StagesHold, EventsHold
<1>7. QED
  BY <1>4, <1>5, <1>6 DEF StagesInv

\* The handler of an event starts on an entity that fits.
LEMMA HandlesStages ==
  ASSUME TypeOK, StagesInv, NEW p \in Handlers, NEW e \in inbox \cup answered,
         NEW pc \in {"intent", "load"}, NEW entity,
         Handles(p, e, pc, entity), Fits(entity)
  PROVE  StagesInv'
<1>1. Begins(p, pc, e, entity)
  BY DEF Handles
<1>2. UNCHANGED <<row, charge, signed, inbox, answered>>
  BY DEF Handles, tables, atStripe, events
<1>3. Fits(entity)'
  BY <1>2 DEF Fits
<1>4. signed' => charge = "paid"
  BY <1>2 DEF StagesInv, StagesHold
<1>5. e.type = "checkout.session.completed" => charge = "paid"
  BY DEF StagesInv, EventsHold
<1>6. QED
  BY <1>1, <1>2, <1>3, <1>4, <1>5, StartedStages

\* A copy of the row with another status that is due to it fits.
LEMMA StatusFits ==
  ASSUME TypeOK, StagesInv, NEW s \in Status,
         s \in Paid => charge = "paid", s \in Contracted => signed
  PROVE  Fits([row EXCEPT !.status = s])
BY DEF TypeOK, Row, StagesInv, StagesHold, Fits

\* A webhook handler computes its entity from the row and an event that says
\* what Stripe did.
LEMMA WebhookStages ==
  ASSUME TypeOK, StagesInv, NEW p \in Handlers, NEW e \in inbox \cup answered,
         HandleWebhook(p, e)
  PROVE  StagesInv'
<1>1. row \in Row /\ (signed => charge = "paid")
  BY DEF TypeOK, StagesInv, StagesHold
<1>2. CASE HandleCheckoutCompleted(p, e)
  <2>1. charge = "paid"
    BY <1>2 DEF HandleCheckoutCompleted, StagesInv, EventsHold
  <2>2. /\ Fits([row EXCEPT !.initialPaymentStatus = "completed",
                !.status = "pending_contract"])
        /\ Fits([row EXCEPT !.initialPaymentStatus = "partial"])
    BY <1>1, <2>1 DEF Row, StagesInv, StagesHold, Paid, Contracted, Fits
  <2>3. \/ Handles(p, e, "intent", [row EXCEPT !.initialPaymentStatus = "completed",
                                     !.status = "pending_contract"])
        \/ Handles(p, e, "intent", [row EXCEPT !.initialPaymentStatus = "partial"])
    BY <1>2 DEF HandleCheckoutCompleted
  <2>4. QED
    BY <2>2, <2>3, HandlesStages
<1>3. CASE HandlePaymentFailed(p, e)
  <2>1. Fits([row EXCEPT !.initialPaymentStatus = "failed"])
    BY <1>1 DEF Row, StagesInv, StagesHold, Fits
  <2>2. QED
    BY <1>3, <2>1, HandlesStages DEF HandlePaymentFailed
<1>4. ASSUME NEW s \in {"active", "past_due", "cancelled", "suspended", row.status},
             Known(e), Handles(p, e, "load", [row EXCEPT !.status = s])
      PROVE  StagesInv'
  <2>1. signed /\ charge = "paid"
    BY <1>1, <1>4 DEF Known, StagesInv, StagesHold
  <2>2. s \in Status
    BY <1>1 DEF Row, Status
  <2>3. Fits([row EXCEPT !.status = s])
    BY <2>1, <2>2, StatusFits
  <2>4. QED
    BY <1>4, <2>3, HandlesStages
<1>5. CASE HandleInvoicePaymentSucceeded(p, e)
  BY <1>4, <1>5 DEF HandleInvoicePaymentSucceeded
<1>6. CASE HandleInvoicePaymentFailed(p, e)
  BY <1>4, <1>6 DEF HandleInvoicePaymentFailed
<1>7. CASE HandleSubscriptionDeleted(p, e)
  BY <1>4, <1>7 DEF HandleSubscriptionDeleted
<1>8. CASE HandleSubscriptionUpdated(p, e)
  <2> DEFINE told == CASE e.status = "active" -> "active"
                       [] e.status = "past_due" -> "past_due"
                       [] e.status = "canceled" -> "cancelled"
                       [] e.status = "unpaid" -> "suspended"
                       [] OTHER -> row.status
  <2>1. Known(e) /\ Handles(p, e, "load", [row EXCEPT !.status = told])
    BY <1>8 DEF HandleSubscriptionUpdated
  <2>2. told \in {"active", "past_due", "cancelled", "suspended", row.status}
    OBVIOUS
  <2> HIDE DEF told
  <2>3. QED
    BY <1>4, <2>1, <2>2
<1>9. QED
  BY <1>2, <1>3, <1>5, <1>6, <1>7, <1>8 DEF HandleWebhook

\* A request computes its entity from the row; activate is accepted only after
\* the payment.
LEMMA AskingStages ==
  ASSUME TypeOK, StagesInv, NEW p \in Handlers,
         Cancel(p) \/ ActivateAfterContractSigned(p)
  PROVE  StagesInv'
<1>1. row \in Row /\ (signed => charge = "paid")
  BY DEF TypeOK, StagesInv, StagesHold
<1>2. ASSUME NEW pc \in {"stripe", "load"}, NEW type, NEW entity,
             Asks(p, pc, type, entity), Fits(entity)', signed => signed',
             signed' => charge = "paid", type = "activate" => signed',
             type \in RequestType
      PROVE  StagesInv'
  <2>1. Begins(p, pc, Request(type), entity)
          /\ UNCHANGED <<row, charge, inbox, answered>>
    BY <1>2 DEF Asks, tables, atStripe, events
  <2>2. Request(type).type = type /\ type # "checkout.session.completed"
    BY <1>2 DEF Request, RequestType
  <2>3. QED
    BY <1>2, <2>1, <2>2, StartedStages
<1>3. CASE Cancel(p)
  <2>1. PICK pc \in {"stripe", "load"} :
          \/ Asks(p, pc, "cancelNow", [row EXCEPT !.status = "cancelled"])
          \/ Asks(p, pc, "cancelAtPeriodEnd", row)
    BY <1>3 DEF Cancel
  <2>2. UNCHANGED <<charge, signed>>
    BY <1>3, <2>1 DEF Cancel, Asks, atStripe
  <2>3. Fits(row) /\ Fits([row EXCEPT !.status = "cancelled"])
    BY <1>1 DEF StagesInv, StagesHold, Row, Paid, Contracted, Fits
  <2>4. ASSUME NEW entity, Fits(entity) PROVE Fits(entity)'
    BY <2>2, <2>4 DEF Fits
  <2>5. PICK old \in Row : old = row
    BY <1>1
  <2>6. CASE Asks(p, pc, "cancelNow", [row EXCEPT !.status = "cancelled"])
    <3>1. Asks(p, pc, "cancelNow", [old EXCEPT !.status = "cancelled"])
      BY <2>5, <2>6
    <3>2. Fits([old EXCEPT !.status = "cancelled"])'
      BY <2>3, <2>4, <2>5
    <3>3. QED
      BY <1>1, <1>2, <2>2, <3>1, <3>2 DEF RequestType
  <2>7. CASE Asks(p, pc, "cancelAtPeriodEnd", row)
    <3>1. Asks(p, pc, "cancelAtPeriodEnd", old)
      BY <2>5, <2>7
    <3>2. Fits(old)'
      BY <2>3, <2>4, <2>5
    <3>3. QED
      BY <1>1, <1>2, <2>2, <3>1, <3>2 DEF RequestType
  <2>8. QED
    BY <2>1, <2>6, <2>7
<1>4. CASE ActivateAfterContractSigned(p)
  <2>1. PICK old \in Row : old = row
    BY <1>1
  <2>2. PICK pc \in {"stripe", "load"} :
          Asks(p, pc, "activate",
               [old EXCEPT !.contractSigned = TRUE, !.status = "active"])
    BY <1>4, <2>1 DEF ActivateAfterContractSigned
  <2>3. signed' /\ charge' = "paid" /\ charge = "paid"
    BY <1>4, <2>2 DEF ActivateAfterContractSigned, Asks, atStripe, StagesInv,
       StagesHold, Paid
  <2>4. Fits([old EXCEPT !.contractSigned = TRUE, !.status = "active"])'
    BY <2>3 DEF Fits
  <2>5. QED
    BY <1>2, <2>2, <2>3, <2>4 DEF RequestType
<1>5. QED
  BY <1>3, <1>4

\* A step that moves one process on, or sends it home, keeps the invariant if
\* what the process has in memory still fits.
LEMMA StepStages ==
  ASSUME TypeOK, StagesInv, NEW p \in Process, NEW memory,
         proc' = [proc EXCEPT ![p] = memory], UNCHANGED <<row, signed>>,
         UNCHANGED <<charge, inbox, answered>>, Fits(memory.entity),
         memory.pc # "stripe", memory.pc # "session",
         memory.task.type = "checkout.session.completed" => charge = "paid",
         p = Creator => /\ memory.pc \in {"idle", "load", "write"}
                        /\ memory.task.type \notin EventType
                        /\ proc[p].pc # "idle"
  PROVE  StagesInv'
<1>1. proc'[p] = memory /\ Creator \in Process
      /\ \A q \in Process \ {p} : proc'[q] = proc[q]
  BY DEF TypeOK, Process
<1>2. MemoryHolds'
  BY <1>1 DEF StagesInv, MemoryHolds, Fits
<1>3. NobodyPaysEarly' /\ EveryoneInPlace'
  BY <1>1, ProcessAssumption DEF StagesInv, NobodyPaysEarly, EveryoneInPlace, Process
<1>4. StagesHold' /\ EventsHold'
  BY DEF StagesInv, StagesHold, EventsHold
<1>5. QED
  BY <1>2, <1>3, <1>4 DEF StagesInv

\* A process that ends forgets everything, and that fits.
LEMMA EndsStages ==
  ASSUME TypeOK, StagesInv, NEW p \in Process, proc[p].pc # "idle",
         proc' = [proc EXCEPT ![p] = Idle], UNCHANGED <<row, signed>>,
         UNCHANGED <<charge, inbox, answered>>
  PROVE  StagesInv'
<1>1. Fits(Idle.entity)
  BY DEF Fits, Idle, Created, Paid, Contracted
<1>2. /\ Idle.pc = "idle" /\ Idle.task.type \notin EventType
      /\ Idle.task.type # "checkout.session.completed"
  BY DEF Idle, Request, EventType, CheckoutEvent, InvoiceEvent
<1>3. QED
  BY <1>1, <1>2, StepStages

\* SaveWrite mixes the stored row with an entity: both fit, and so does the
\* outcome.  What it answers and what it opens nobody had paid before.
LEMMA WriteStages ==
  ASSUME TypeOK, StagesInv, NEW p \in Process, SaveWrite(p)
  PROVE  StagesInv'
<1>1. row \in Row /\ proc[p].entity \in Row /\ Creator \in Process
  BY DEF TypeOK, Memory, Process
<1>2. Fits(proc[p].entity) /\ (signed => charge = "paid")
  BY DEF StagesInv, MemoryHolds, StagesHold
<1>3. UNCHANGED signed /\ row' = [c \in Column |->
        IF c \in proc[p].diff THEN proc[p].entity[c] ELSE row[c]]
  BY DEF SaveWrite
<1>4. /\ row'.status \in {row.status, proc[p].entity.status}
      /\ row'.contractSigned \in {row.contractSigned, proc[p].entity.contractSigned}
      /\ row'.stripeSubscriptionId
           \in {row.stripeSubscriptionId, proc[p].entity.stripeSubscriptionId}
  BY <1>1, <1>3 DEF Column, Row
<1>5. charge = "paid" => charge' = "paid"
  BY DEF SaveWrite, StagesInv, NobodyPaysEarly
<1>6. StagesHold'
  BY <1>2, <1>3, <1>4, <1>5 DEF StagesInv, StagesHold, Fits
<1>7. PICK memory \in {Idle, [proc[p] EXCEPT !.pc = "count"]} :
        proc' = [proc EXCEPT ![p] = memory]
  BY DEF SaveWrite, Goes
<1>8. /\ memory.entity \in {Idle.entity, proc[p].entity}
      /\ memory.task \in {Idle.task, proc[p].task}
      /\ memory.pc \in {"idle", "count"}
      /\ p = Creator => memory = Idle
  <2>1. proc[p] \in Memory
    BY DEF TypeOK
  <2>2. Idle.pc = "idle"
    BY DEF Idle
  <2>3. p = Creator => memory = Idle
    BY <1>7, <2>1 DEF SaveWrite, StagesInv, EveryoneInPlace, EventType, TypeOK
  <2>4. QED
    BY <1>7, <2>1, <2>2, <2>3 DEF Memory
<1>9. /\ Fits(Idle.entity) /\ Idle.pc = "idle" /\ Idle.task.type \notin EventType
      /\ Idle.task.type # "checkout.session.completed"
  BY DEF Fits, Idle, Created, Paid, Contracted, Request, EventType, CheckoutEvent,
     InvoiceEvent
<1>10. Fits(memory.entity)'
  BY <1>2, <1>3, <1>5, <1>8, <1>9 DEF Fits
<1>11. proc'[p] = memory /\ \A q \in Process \ {p} : proc'[q] = proc[q]
  BY <1>7 DEF TypeOK
<1>12. MemoryHolds'
  BY <1>3, <1>5, <1>8, <1>9, <1>10, <1>11 DEF StagesInv, MemoryHolds, Fits
<1>13. EveryoneInPlace'
  BY <1>8, <1>9, <1>11, <1>1, ProcessAssumption DEF StagesInv, EveryoneInPlace, Process
<1>14. NobodyPaysEarly'
  BY <1>8, <1>9, <1>11, <1>1 DEF SaveWrite, StagesInv, NobodyPaysEarly, Process
<1>15. EventsHold'
  <2>1. inbox' \cup answered' \subseteq inbox \cup answered \cup {proc[p].task}
    BY DEF SaveWrite, Answer, events
  <2>2. proc[p].task.type # "checkout.session.completed"
          \/ inbox' \cup answered' \subseteq inbox \cup answered
    BY DEF SaveWrite, CheckoutEvent, events
  <2>3. QED
    BY <1>5, <2>1, <2>2 DEF StagesInv, EventsHold
<1>16. QED
  BY <1>6, <1>12, <1>13, <1>14, <1>15 DEF StagesInv

\* Every other step of a running process keeps the invariant: it changes no
\* row, and only what it remembers, or forgets.
LEMMA ContinueStages ==
  ASSUME TypeOK, StagesInv, NEW p \in Process, Continue(p)
  PROVE  StagesInv'
<1> USE DEF tables, atStripe, counters, events
<1>1. /\ proc[p] \in Memory /\ Fits(proc[p].entity)
      /\ proc[p].task.type = "checkout.session.completed" => charge = "paid"
  BY DEF TypeOK, StagesInv, MemoryHolds
<1>2. p = Creator => /\ proc[p].pc \in {"idle", "session", "load", "write"}
                     /\ proc[p].task.type \notin EventType
  BY DEF StagesInv, EveryoneInPlace
<1>3. CASE RetrieveIntent(p)
  <2> DEFINE memory == [proc[p] EXCEPT !.pc = "load"]
  <2>1. proc' = [proc EXCEPT ![p] = memory] /\ p # Creator
          /\ UNCHANGED <<row, signed, charge, inbox, answered>>
    BY <1>2, <1>3 DEF RetrieveIntent, Goes, TypeOK
  <2>2. memory.entity = proc[p].entity /\ memory.pc = "load"
          /\ memory.task = proc[p].task
    BY <1>1 DEF Memory
  <2> HIDE DEF memory
  <2>3. QED
    BY <1>1, <2>1, <2>2, StepStages
<1>4. CASE StripeCancel(p)
  <2> DEFINE memory == [proc[p] EXCEPT !.pc = "load"]
             s == proc[p].entity.stripeSubscriptionId
  <2>1. proc' = [proc EXCEPT ![p] = memory] /\ p # Creator
          /\ UNCHANGED <<row, signed, charge, answered>>
    BY <1>2, <1>4 DEF StripeCancel, Goes, Reports, TypeOK
  <2>2. memory.entity = proc[p].entity /\ memory.pc = "load"
          /\ memory.task = proc[p].task
    BY <1>1 DEF Memory
  <2>3. ASSUME NEW status, NEW type \in {"customer.subscription.deleted",
                                        "customer.subscription.updated"},
               Reports(s, status, <<type>>)
        PROVE  \A e \in inbox' : e \in inbox \/ e.type # "checkout.session.completed"
    <3>1. inbox' = inbox \cup {Event(<<type>>[i], s, status, sent + i) : i \in {1}}
      BY <2>3 DEF Reports
    <3>2. Event(<<type>>[1], s, status, sent + 1).type = type
      BY DEF Event
    <3>3. QED
      BY <3>1, <3>2
  <2>4. \A e \in inbox' : e \in inbox \/ e.type # "checkout.session.completed"
    <3>1. \/ Reports(s, "canceled", <<"customer.subscription.deleted">>)
          \/ Reports(s, stripe[s], <<"customer.subscription.updated">>)
      BY <1>4 DEF StripeCancel
    <3>2. QED
      BY <2>3, <3>1
  <2> HIDE DEF memory
  <2>5. MemoryHolds' /\ NobodyPaysEarly' /\ EveryoneInPlace'
    <3>1. proc'[p] = memory /\ Creator \in Process
            /\ \A q \in Process \ {p} : proc'[q] = proc[q]
      BY <2>1 DEF TypeOK, Process
    <3>2. p \in Handlers
      BY <2>1 DEF Process
    <3>3. QED
      BY <1>1, <2>1, <2>2, <3>1, <3>2 DEF StagesInv, MemoryHolds, Fits,
         NobodyPaysEarly, EveryoneInPlace, Process
  <2>6. EventsHold' /\ StagesHold'
    BY <2>1, <2>4 DEF StagesInv, EventsHold, StagesHold
  <2>7. QED
    BY <2>5, <2>6 DEF StagesInv
<1>5. CASE StripeRefuses(p)
  BY <1>5, EndsStages DEF StripeRefuses
<1>6. CASE StripeCreate(p)
  <2>1. signed
    BY <1>6 DEF StripeCreate, StagesInv, MemoryHolds
  <2>2. PICK s \in StripeId :
          proc' = [proc EXCEPT ![p].pc = "load", ![p].entity.stripeSubscriptionId = s]
    BY <1>6 DEF StripeCreate
  <2> DEFINE memory == [proc[p] EXCEPT !.pc = "load", !.entity.stripeSubscriptionId = s]
  <2>3. proc' = [proc EXCEPT ![p] = memory]
    BY <2>2 DEF TypeOK
  <2>4. /\ memory.entity = [proc[p].entity EXCEPT !.stripeSubscriptionId = s]
        /\ memory.pc = "load" /\ memory.task = proc[p].task
    BY <1>1 DEF Memory
  <2>5. Fits(memory.entity)
    BY <1>1, <2>1, <2>4 DEF Fits, Memory, Row
  <2>6. p # Creator /\ UNCHANGED <<row, signed, charge, inbox, answered>>
    BY <1>2, <1>6 DEF StripeCreate
  <2> HIDE DEF memory
  <2>7. QED
    BY <1>1, <2>3, <2>4, <2>5, <2>6, StepStages
<1>7. CASE SaveLoad(p)
  <2> DEFINE memory == [proc[p] EXCEPT !.pc = "write",
       !.diff = {c \in Column : proc[p].entity[c] # row[c]},
       !.orphans = {i \in DOMAIN payments \ proc[p].loaded :
                         LoadsPayments(proc[p].task) /\ payments[i].linked}]
  <2>1. proc' = [proc EXCEPT ![p] = memory]
    BY <1>7 DEF SaveLoad, TypeOK
  <2>2. memory.entity = proc[p].entity /\ memory.pc = "write"
          /\ memory.task = proc[p].task
    BY <1>1 DEF Memory
  <2>3. UNCHANGED <<row, signed, charge, inbox, answered>> /\ proc[p].pc # "idle"
    BY <1>7 DEF SaveLoad
  <2> HIDE DEF memory
  <2>4. QED
    BY <1>1, <1>2, <2>1, <2>2, <2>3, StepStages
<1>8. CASE SaveWrite(p)
  BY <1>8, WriteStages
<1>9. CASE Count(p)
  <2> DEFINE memory == [proc[p] EXCEPT !.pc = "insert", !.number = Len(payments) + 1]
  <2>1. proc' = [proc EXCEPT ![p] = memory] /\ p # Creator
          /\ UNCHANGED <<row, signed, charge, inbox, answered>>
    BY <1>2, <1>9 DEF Count, TypeOK
  <2>2. memory.entity = proc[p].entity /\ memory.pc = "insert"
          /\ memory.task = proc[p].task
    BY <1>1 DEF Memory
  <2> HIDE DEF memory
  <2>3. QED
    BY <1>1, <2>1, <2>2, StepStages
<1>10. CASE InsertPayment(p)
  <2>1. inbox' \cup answered' \subseteq inbox \cup answered \cup {proc[p].task}
    BY <1>10 DEF InsertPayment, Answer
  <2>2. EventsHold'
    BY <1>1, <1>10, <2>1 DEF InsertPayment, StagesInv, EventsHold
  <2>3. proc' = [proc EXCEPT ![p] = Idle] /\ p # Creator
          /\ UNCHANGED <<row, signed, charge>>
    BY <1>2, <1>10 DEF InsertPayment
  <2>4. Fits(Idle.entity) /\ Idle.pc = "idle"
          /\ Idle.task.type # "checkout.session.completed"
    BY DEF Fits, Idle, Created, Paid, Contracted, Request
  <2>5. proc'[p] = Idle /\ \A q \in Process \ {p} : proc'[q] = proc[q]
    BY <2>3 DEF TypeOK
  <2>6. MemoryHolds'
    BY <2>3, <2>4, <2>5 DEF StagesInv, MemoryHolds, Fits
  <2>7. NobodyPaysEarly' /\ EveryoneInPlace' /\ StagesHold'
    BY <2>3, <2>4, <2>5 DEF StagesInv, NobodyPaysEarly, EveryoneInPlace, Process,
       StagesHold
  <2>8. QED
    BY <2>2, <2>6, <2>7 DEF StagesInv
<1>11. CASE InsertCollides(p)
  BY <1>11, EndsStages DEF InsertCollides
<1>12. QED
  BY <1>3, <1>4, <1>5, <1>6, <1>7, <1>8, <1>9, <1>10, <1>11 DEF Continue

\* Every step keeps the invariant of the stages.
LEMMA NextStages == TypeOK /\ StagesInv /\ [Next]_vars => StagesInv'
<1> SUFFICES ASSUME TypeOK, StagesInv, [Next]_vars PROVE StagesInv'
  OBVIOUS
<1> USE DEF tables, atStripe, events, counters
<1>1. CASE OpenSession
  <2> DEFINE memory == [proc[Creator] EXCEPT !.pc = "load"]
  <2>1. Creator \in Process /\ proc[Creator] \in Memory
    BY DEF TypeOK, Process
  <2>2. /\ memory.entity = proc[Creator].entity /\ memory.pc = "load"
        /\ memory.task = proc[Creator].task
    BY <2>1 DEF Memory
  <2>3. proc' = [proc EXCEPT ![Creator] = memory] /\ proc[Creator].pc = "session"
          /\ UNCHANGED <<row, signed, charge, inbox, answered>>
    BY <1>1 DEF OpenSession, Goes, TypeOK
  <2>4. /\ Fits(proc[Creator].entity) /\ memory.task.type \notin EventType
        /\ memory.task.type = "checkout.session.completed" => charge = "paid"
    BY <2>1, <2>2 DEF StagesInv, MemoryHolds, EveryoneInPlace
  <2> HIDE DEF memory
  <2>5. QED
    BY <2>1, <2>2, <2>3, <2>4, StepStages
<1>2. ASSUME NEW e \in inbox, IgnoreEvent(e) PROVE StagesInv'
  BY <1>2 DEF IgnoreEvent, Answer, StagesInv, StagesHold, MemoryHolds, Fits, EventsHold,
     NobodyPaysEarly, EveryoneInPlace
<1>3. ASSUME NEW p \in Process, Fails(p) PROVE StagesInv'
  BY <1>3, EndsStages DEF Fails
<1>4. CASE UNCHANGED vars
  BY <1>4 DEF vars, StagesInv, StagesHold, MemoryHolds, Fits, EventsHold,
     NobodyPaysEarly, EveryoneInPlace
<1>5. QED
  BY <1>1, <1>2, <1>3, <1>4, StripeStages, WebhookStages, AskingStages, ContinueStages
     DEF Next

\* Whatever overlaps, repeats and fails, a subscription waits for its contract
\* only when the initial payment was collected, and is active only when it was
\* activated after that.
THEOREM StagesAlwaysHold == Spec => []StagesHold
<1>1. Init => StagesInv
  BY InitStages
<1>2. StagesInv => StagesHold
  BY DEF StagesInv
<1>3. QED
  BY <1>1, <1>2, TypeCorrect, NextStages, PTL DEF Spec

-----------------------------------------------------------------------------
(* What is answered is recorded.                                           *)

\* The statuses of recorded payments stay, and no answered event is new: then
\* what was recorded still is.
LEMMA StillRecorded ==
  ASSUME AnsweredIsRecorded, DOMAIN payments \subseteq DOMAIN payments',
         \A i \in DOMAIN payments : payments'[i].status = payments[i].status,
         \A e \in answered' : e \in answered \/ e.type # "checkout.session.completed"
  PROVE  AnsweredIsRecorded'
BY DEF AnsweredIsRecorded, Charged

\* Every step keeps AnsweredIsRecorded: the one that answers the event of the
\* initial payment has inserted its record.
LEMMA NextAnswered == TypeOK /\ AnsweredIsRecorded /\ [Next]_vars => AnsweredIsRecorded'
<1> SUFFICES ASSUME TypeOK, AnsweredIsRecorded, [Next]_vars PROVE AnsweredIsRecorded'
  OBVIOUS
<1> USE DEF tables, atStripe, events, counters
<1>1. ASSUME UNCHANGED <<payments, answered>> PROVE AnsweredIsRecorded'
  BY <1>1, StillRecorded
<1>2. CASE StripeStep
  BY <1>1, <1>2 DEF StripeStep, CheckoutPaid, CardDeclined, InvoicePaid, InvoiceUnpaid,
     GiveUp, Ends, Becomes, StripeActs, Reports
<1>3. ASSUME NEW p \in Handlers, NEW e, HandleWebhook(p, e) PROVE AnsweredIsRecorded'
  BY <1>1, <1>3 DEF HandleWebhook, HandleCheckoutCompleted, HandlePaymentFailed,
     HandleInvoicePaymentSucceeded, HandleInvoicePaymentFailed,
     HandleSubscriptionUpdated, HandleSubscriptionDeleted, Handles
<1>4. ASSUME NEW p \in Handlers, Cancel(p) \/ ActivateAfterContractSigned(p)
      PROVE  AnsweredIsRecorded'
  BY <1>1, <1>4 DEF Cancel, ActivateAfterContractSigned, Asks
<1>5. ASSUME NEW e \in inbox, IgnoreEvent(e) PROVE AnsweredIsRecorded'
  <2>1. UNCHANGED payments
          /\ \A f \in answered' : f \in answered \/ f.type # "checkout.session.completed"
    BY <1>5 DEF IgnoreEvent, Answer, CheckoutEvent
  <2>2. QED
    BY <2>1, StillRecorded
<1>6. ASSUME NEW p \in Process, SaveWrite(p) PROVE AnsweredIsRecorded'
  <2>1. payments' = [i \in DOMAIN payments |->
                       [payments[i] EXCEPT !.linked = @ /\ i \notin proc[p].orphans]]
    BY <1>6 DEF SaveWrite
  <2>2. \A i \in DOMAIN payments : payments'[i].status = payments[i].status
    <3>1. \A i \in DOMAIN payments : payments[i] \in Payment
      BY DEF TypeOK
    <3>2. QED
      BY <2>1, <3>1, Zenon DEF Payment
  <2>3. DOMAIN payments' = DOMAIN payments
    BY <2>1, Zenon
  <2>4. \A f \in answered' : f \in answered \/ f.type # "checkout.session.completed"
    <3>1. \/ UNCHANGED answered
          \/ proc[p].task.type \notin CheckoutEvent
             /\ answered' = answered \cup {proc[p].task}
      BY <1>6, Zenon DEF SaveWrite, Answer
    <3>2. QED
      BY <3>1 DEF CheckoutEvent
  <2>5. QED
    BY <2>2, <2>3, <2>4, StillRecorded
<1>7. ASSUME NEW p \in Process, InsertPayment(p) PROVE AnsweredIsRecorded'
  <2> DEFINE status == IF proc[p].task.type = "checkout.session.completed"
                       THEN "completed" ELSE "failed"
             record == [linked |-> TRUE, status |-> status]
  <2>1. payments' = Append(payments, record)
    BY <1>7 DEF InsertPayment
  <2>2. payments \in Seq(Payment) /\ record \in Payment
    BY DEF TypeOK, Payment
  <2>3. /\ DOMAIN payments \subseteq DOMAIN payments'
        /\ \A i \in DOMAIN payments : payments'[i] = payments[i]
        /\ Len(payments) + 1 \in DOMAIN payments'
        /\ payments'[Len(payments) + 1] = record
    <3> HIDE DEF record
    <3>1. QED
      BY <2>1, <2>2
  <2>4. CASE proc[p].task.type = "checkout.session.completed"
    BY <2>3, <2>4 DEF AnsweredIsRecorded, Charged
  <2>5. CASE proc[p].task.type # "checkout.session.completed"
    <3>1. \A f \in answered' : f \in answered \/ f.type # "checkout.session.completed"
      BY <1>7, <2>5 DEF InsertPayment, Answer
    <3>2. QED
      BY <2>3, <3>1, StillRecorded
  <2>6. QED
    BY <2>4, <2>5
<1>8. ASSUME NEW p \in Process, Continue(p) PROVE AnsweredIsRecorded'
  BY <1>1, <1>6, <1>7, <1>8 DEF Continue, RetrieveIntent, StripeCancel, StripeRefuses,
     StripeCreate, SaveLoad, Count, InsertCollides, Reports
<1>9. CASE OpenSession
  BY <1>1, <1>9 DEF OpenSession
<1>10. ASSUME NEW p \in Process, Fails(p) PROVE AnsweredIsRecorded'
  BY <1>1, <1>10 DEF Fails
<1>11. CASE UNCHANGED vars
  BY <1>1, <1>11 DEF vars
<1>12. QED
  BY <1>2, <1>3, <1>4, <1>5, <1>8, <1>9, <1>10, <1>11 DEF Next

\* A charge whose event Stripe will not send again is recorded.
THEOREM AnsweredAlwaysRecorded == Spec => []AnsweredIsRecorded
<1>1. Init => AnsweredIsRecorded
  BY DEF Init, AnsweredIsRecorded
<1>2. QED
  BY <1>1, TypeCorrect, NextAnswered, PTL DEF Spec

-----------------------------------------------------------------------------
(* Instalments never complete.                                             *)

\* What a subscription paid in instalments stays like, in the row and in memory.
InInstallments == row.initialPaymentType = "installments" /\ TotalInstallments > 1
FirstInstallment(entity) ==
  /\ entity.status \notin Paid
  /\ entity.initialPaymentStatus # "completed"
  /\ entity.stripeSubscriptionId = 0

\* An entity of that kind, of this row.
Stays(entity) ==
  /\ entity.initialPaymentType = row.initialPaymentType
  /\ InInstallments => FirstInstallment(entity)

InstallmentsInv ==
  /\ InInstallments => ~signed
  /\ Stays(row)
  /\ \A p \in Process : proc[p].pc # "idle" => Stays(proc[p].entity)

\* A step that leaves the row alone, and one process with an entity that is still
\* at the first instalment, keeps the invariant.
LEMMA StepInstallments ==
  ASSUME TypeOK, InstallmentsInv, UNCHANGED row, InInstallments => ~signed',
         NEW p \in Process, NEW memory, proc' = [proc EXCEPT ![p] = memory],
         memory.pc # "idle" => Stays(memory.entity)
  PROVE  InstallmentsInv'
<1>1. proc'[p] = memory /\ \A q \in Process \ {p} : proc'[q] = proc[q]
  BY DEF TypeOK
<1>2. QED
  BY <1>1 DEF InstallmentsInv, Stays, InInstallments, FirstInstallment

\* A webhook handler leaves the first instalment the only one; those of the
\* monthly subscription do not apply.
LEMMA WebhookInstallments ==
  ASSUME TypeOK, InstallmentsInv, NEW p \in Handlers, NEW e, HandleWebhook(p, e)
  PROVE  InstallmentsInv'
<1>1. p \in Process /\ row \in Row
  BY DEF Process, TypeOK
<1>2. ASSUME NEW pc, NEW entity, Handles(p, e, pc, entity),
             Stays(entity)
      PROVE  InstallmentsInv'
  <2>1. proc' = [proc EXCEPT ![p] = Started(pc, e, entity)]
          /\ UNCHANGED <<row, signed>>
    BY <1>2 DEF Handles, Begins, tables
  <2>2. Started(pc, e, entity).entity = entity
    BY DEF Started
  <2>3. QED
    BY <1>1, <1>2, <2>1, <2>2, StepInstallments DEF InstallmentsInv
<1>3. CASE HandleCheckoutCompleted(p, e)
  <2> DEFINE entity == IF row.initialPaymentType = "single" \/ 1 >= TotalInstallments
                       THEN [row EXCEPT !.initialPaymentStatus = "completed",
                               !.status = "pending_contract"]
                       ELSE [row EXCEPT !.initialPaymentStatus = "partial"]
  <2>1. Handles(p, e, "intent", entity)
    BY <1>3 DEF HandleCheckoutCompleted
  <2>2. Stays(entity)
    BY <1>1, PlanAssumption DEF InstallmentsInv, Stays, InInstallments, FirstInstallment, Row
  <2> HIDE DEF entity
  <2>3. QED
    BY <1>2, <2>1, <2>2
<1>4. CASE HandlePaymentFailed(p, e)
  <2>1. Stays([row EXCEPT !.initialPaymentStatus = "failed"])
    BY <1>1 DEF InstallmentsInv, Stays, FirstInstallment, Row
  <2>2. QED
    BY <1>2, <1>4, <2>1 DEF HandlePaymentFailed
<1>5. ASSUME NEW s, Known(e), Handles(p, e, "load", [row EXCEPT !.status = s])
      PROVE  InstallmentsInv'
  <2>1. Stays([row EXCEPT !.status = s])
    BY <1>1, <1>5 DEF Known, InstallmentsInv, Stays, FirstInstallment, Row
  <2>2. QED
    BY <1>2, <1>5, <2>1
<1>6. QED
  BY <1>3, <1>4, <1>5 DEF HandleWebhook, HandleInvoicePaymentSucceeded,
     HandleInvoicePaymentFailed, HandleSubscriptionUpdated, HandleSubscriptionDeleted

\* A request is about the row, and activate is refused.
LEMMA AskingInstallments ==
  ASSUME TypeOK, InstallmentsInv, NEW p \in Handlers,
         Cancel(p) \/ ActivateAfterContractSigned(p)
  PROVE  InstallmentsInv'
<1>1. p \in Process /\ row \in Row
  BY DEF Process, TypeOK
<1>2. CASE ActivateAfterContractSigned(p)
  <2> DEFINE entity == [row EXCEPT !.contractSigned = TRUE, !.status = "active"]
  <2>1. ~InInstallments /\ Stays(entity)
    BY <1>1, <1>2 DEF ActivateAfterContractSigned, InstallmentsInv, Stays,
       FirstInstallment, Paid, Row
  <2>2. PICK pc : Asks(p, pc, "activate", entity)
    BY <1>2 DEF ActivateAfterContractSigned
  <2>3. UNCHANGED row /\ proc' = [proc EXCEPT ![p] = Started(pc, Request("activate"), entity)]
          /\ Started(pc, Request("activate"), entity).entity = entity
    BY <2>2 DEF Asks, Begins, Started, tables
  <2> HIDE DEF entity
  <2>4. QED
    BY <1>1, <2>1, <2>3, StepInstallments
<1>3. CASE Cancel(p)
  <2>1. PICK pc, type, entity :
          /\ Asks(p, pc, type, entity)
          /\ entity \in {row, [row EXCEPT !.status = "cancelled"]}
    BY <1>3, Zenon DEF Cancel
  <2>2. UNCHANGED <<row, signed>>
    BY <1>3, <2>1 DEF Cancel, Asks, tables
  <2>3. Stays(entity)
    BY <1>1, <2>1 DEF InstallmentsInv, Stays, FirstInstallment, Row, Paid
  <2>4. proc' = [proc EXCEPT ![p] = Started(pc, Request(type), entity)]
          /\ Started(pc, Request(type), entity).entity = entity
    BY <2>1 DEF Asks, Begins, Started
  <2>5. QED
    BY <1>1, <2>2, <2>3, <2>4, StepInstallments DEF InstallmentsInv
<1>4. QED
  BY <1>2, <1>3

\* A running process only saves what it has in memory.
LEMMA ContinueInstallments ==
  ASSUME TypeOK, StagesInv, InstallmentsInv, NEW p \in Process, Continue(p)
  PROVE  InstallmentsInv'
<1> USE DEF tables
<1>1. proc[p] \in Memory /\ row \in Row
  BY DEF TypeOK
<1>2. ASSUME NEW memory, proc' = [proc EXCEPT ![p] = memory], UNCHANGED <<row, signed>>,
             memory.pc = "idle" \/ memory.entity = proc[p].entity, proc[p].pc # "idle"
      PROVE  InstallmentsInv'
  <2>1. Stays(proc[p].entity)
    BY <1>2 DEF InstallmentsInv
  <2>2. QED
    BY <1>2, <2>1, StepInstallments DEF InstallmentsInv
<1>3. ASSUME NEW pc \in {"load", "count"}, UNCHANGED <<row, signed>>, Goes(p, pc),
             proc[p].pc # "idle"
      PROVE  InstallmentsInv'
  BY <1>1, <1>2, <1>3 DEF Goes, TypeOK, Memory
<1>4. ASSUME UNCHANGED <<row, signed>>, proc' = [proc EXCEPT ![p] = Idle],
             proc[p].pc # "idle"
      PROVE  InstallmentsInv'
  BY <1>2, <1>4 DEF Idle
<1>5. CASE RetrieveIntent(p) \/ StripeCancel(p)
  BY <1>3, <1>5 DEF RetrieveIntent, StripeCancel
<1>6. CASE StripeRefuses(p) \/ InsertPayment(p) \/ InsertCollides(p)
  BY <1>4, <1>6 DEF StripeRefuses, InsertPayment, InsertCollides
<1>7. CASE StripeCreate(p)
  <2>1. ~InInstallments /\ Stays(proc[p].entity)
    BY <1>7 DEF StripeCreate, StagesInv, MemoryHolds, InstallmentsInv
  <2>2. PICK s \in StripeId :
          proc' = [proc EXCEPT ![p].pc = "load", ![p].entity.stripeSubscriptionId = s]
    BY <1>7 DEF StripeCreate
  <2> DEFINE memory == [proc[p] EXCEPT !.pc = "load", !.entity.stripeSubscriptionId = s]
  <2>3. proc' = [proc EXCEPT ![p] = memory]
    BY <2>2 DEF TypeOK
  <2>4. UNCHANGED <<row, signed>>
    BY <1>7 DEF StripeCreate
  <2>5. memory.entity = [proc[p].entity EXCEPT !.stripeSubscriptionId = s]
    BY <1>1 DEF Memory
  <2>6. Stays(memory.entity)
    BY <1>1, <2>1, <2>5 DEF Stays, Memory, Row
  <2> HIDE DEF memory
  <2>7. QED
    BY <2>1, <2>3, <2>4, <2>6, StepInstallments
<1>8. CASE SaveLoad(p)
  <2> DEFINE memory == [proc[p] EXCEPT !.pc = "write",
       !.diff = {c \in Column : proc[p].entity[c] # row[c]},
       !.orphans = {i \in DOMAIN payments \ proc[p].loaded :
                         LoadsPayments(proc[p].task) /\ payments[i].linked}]
  <2>1. proc' = [proc EXCEPT ![p] = memory] /\ UNCHANGED <<row, signed>>
          /\ proc[p].pc # "idle"
    BY <1>8 DEF SaveLoad, TypeOK
  <2>2. memory.entity = proc[p].entity
    BY <1>1 DEF Memory
  <2> HIDE DEF memory
  <2>3. QED
    BY <1>2, <2>1, <2>2
<1>9. CASE Count(p)
  <2> DEFINE memory == [proc[p] EXCEPT !.pc = "insert", !.number = Len(payments) + 1]
  <2>1. proc' = [proc EXCEPT ![p] = memory] /\ UNCHANGED <<row, signed>>
          /\ proc[p].pc # "idle"
    BY <1>9 DEF Count, TypeOK
  <2>2. memory.entity = proc[p].entity
    BY <1>1 DEF Memory
  <2> HIDE DEF memory
  <2>3. QED
    BY <1>2, <2>1, <2>2
<1>10. CASE SaveWrite(p)
  <2> DEFINE entity == proc[p].entity
  <2>1. UNCHANGED signed /\ row' = [c \in Column |->
          IF c \in proc[p].diff THEN entity[c] ELSE row[c]]
    BY <1>10 DEF SaveWrite
  <2>2. /\ row'.initialPaymentType \in {row.initialPaymentType, entity.initialPaymentType}
        /\ row'.status \in {row.status, entity.status}
        /\ row'.initialPaymentStatus
             \in {row.initialPaymentStatus, entity.initialPaymentStatus}
        /\ row'.stripeSubscriptionId
             \in {row.stripeSubscriptionId, entity.stripeSubscriptionId}
    BY <1>1, <2>1 DEF Column, Row, Memory
  <2>3. Stays(row) /\ Stays(entity)
    BY <1>10 DEF SaveWrite, InstallmentsInv
  <2>4. /\ \A q \in Process \ {p} : proc'[q] = proc[q]
        /\ proc'[p].pc = "idle" \/ proc'[p].entity = entity
    BY <1>1, <1>10 DEF SaveWrite, Goes, TypeOK, Memory, Idle
  <2>5. QED
    BY <2>1, <2>2, <2>3, <2>4 DEF InstallmentsInv, Stays, InInstallments, FirstInstallment
<1>11. QED
  BY <1>5, <1>6, <1>7, <1>8, <1>9, <1>10 DEF Continue

\* Every step keeps the invariant of the instalments.
LEMMA NextInstallments ==
  TypeOK /\ StagesInv /\ InstallmentsInv /\ [Next]_vars => InstallmentsInv'
<1> SUFFICES ASSUME TypeOK, StagesInv, InstallmentsInv, [Next]_vars
             PROVE  InstallmentsInv'
  OBVIOUS
<1> USE DEF tables
<1>1. ASSUME UNCHANGED <<row, proc, signed>> PROVE InstallmentsInv'
  BY <1>1 DEF InstallmentsInv, Stays, InInstallments, FirstInstallment
<1>2. CASE StripeStep
  BY <1>1, <1>2 DEF StripeStep, CheckoutPaid, CardDeclined, InvoicePaid, InvoiceUnpaid,
     GiveUp, Ends, Becomes, StripeActs
<1>3. ASSUME NEW e \in inbox, IgnoreEvent(e) PROVE InstallmentsInv'
  BY <1>1, <1>3 DEF IgnoreEvent
<1>4. CASE OpenSession
  <2> DEFINE memory == [proc[Creator] EXCEPT !.pc = "load"]
  <2>1. Creator \in Process /\ proc[Creator] \in Memory
    BY DEF TypeOK, Process
  <2>2. memory.entity = proc[Creator].entity
    BY <2>1 DEF Memory
  <2>3. proc' = [proc EXCEPT ![Creator] = memory] /\ proc[Creator].pc = "session"
          /\ UNCHANGED <<row, signed>>
    BY <1>4 DEF OpenSession, Goes, TypeOK
  <2>4. Stays(memory.entity) /\ (InInstallments => ~signed)
    BY <2>1, <2>2, <2>3 DEF InstallmentsInv
  <2> HIDE DEF memory
  <2>5. QED
    BY <2>1, <2>3, <2>4, StepInstallments
<1>5. ASSUME NEW p \in Process, Fails(p) PROVE InstallmentsInv'
  BY <1>5, StepInstallments DEF Fails, Idle, InstallmentsInv
<1>6. CASE UNCHANGED vars
  BY <1>1, <1>6 DEF vars
<1>7. QED
  BY <1>2, <1>3, <1>4, <1>5, <1>6, WebhookInstallments, AskingInstallments,
     ContinueInstallments DEF Next

\* A subscription paid in several instalments never gets past the first: no
\* interleaving, order or repetition of webhooks completes it.
THEOREM InstallmentsAlwaysStall == Spec => []InstallmentsNeverComplete
<1>1. Init => InstallmentsInv
  <2> SUFFICES ASSUME Init PROVE InstallmentsInv
    OBVIOUS
  <2>1. PICK type \in InitialPaymentTypes : row = Created(type)
    BY DEF Init
  <2>2. Stays(row) /\ signed = FALSE
    BY <2>1 DEF Init, Stays, FirstInstallment, Created, Paid
  <2>3. \A p \in Process : proc[p].pc # "idle" => proc[p].entity = row
    BY DEF Init, Idle
  <2>4. QED
    BY <2>2, <2>3 DEF InstallmentsInv
<1>2. InstallmentsInv => InstallmentsNeverComplete
  BY DEF InstallmentsInv, Stays, InInstallments, FirstInstallment,
     InstallmentsNeverComplete
<1>3. QED
  BY <1>1, <1>2, InitStages, TypeCorrect, NextStages, NextInstallments, PTL DEF Spec

-----------------------------------------------------------------------------
(* One process at a time.                                                  *)

\* Requests and webhooks of the service do not overlap.
OneHandler == \A p, q \in Handlers : p = q

\* Stripe does not deliver again what was answered.
NoRepeats == MaxRedeliveries = 0

\* Payments are linked, and no save is about to change that.  Only the records of
\* the initial payment add to them.
LinksInv ==
  /\ \A i \in DOMAIN payments : payments[i].linked
  /\ proc[Creator].task.type \in {"createCheckoutSession", "none"}
  /\ \A p \in Process :
       /\ LoadsPayments(proc[p].task) /\ proc[p].pc \in {"intent", "stripe", "load"} =>
            DOMAIN payments \subseteq proc[p].loaded
       /\ proc[p].pc = "write" => proc[p].orphans = {}
       /\ proc[p].pc = "insert" /\ p \in Handlers => proc[p].number = Len(payments) + 1

\* The subscription that an activation has created at Stripe and not yet saved.
Creating(m, s) ==
  m.task.type = "activate" /\ m.pc \in {"load", "write"} /\ m.entity.stripeSubscriptionId = s

\* What a handler remembers is the row, but for what its task changes, which it
\* may have done at Stripe already.
CopyFits(m, at) ==
  /\ m.task.type \in EventType \cup {"cancelNow", "cancelAtPeriodEnd", "activate"}
  /\ m.pc = "intent" => m.task.type = "checkout.session.completed"
  /\ m.entity.stripeSubscriptionId # row.stripeSubscriptionId =>
       row.stripeSubscriptionId = 0 /\ Creating(m, m.entity.stripeSubscriptionId)
  /\ m.pc = "stripe" =>
       (m.task.type = "activate" <=> m.entity.stripeSubscriptionId = 0)
  /\ m.pc = "write" => m.diff = {c \in Column : m.entity[c] # row[c]}
  /\ m.task.type \in {"payment_intent.payment_failed", "cancelAtPeriodEnd"} =>
       m.entity.status = row.status
  /\ m.task.type = "cancelNow" =>
       /\ m.entity.status = "cancelled"
       /\ m.pc # "stripe" /\ m.entity.stripeSubscriptionId # 0 =>
            at[m.entity.stripeSubscriptionId] = "canceled"
  /\ m.task.type = "activate" =>
       row.status = "pending_contract" /\ m.entity.status = "active"
  /\ m.task.type = "checkout.session.completed" =>
       m.entity.status \in {row.status, "pending_contract"}
  /\ m.task.type \in EventType \ CheckoutEvent =>
       /\ m.task.sub = row.stripeSubscriptionId
       /\ m.entity.status = "pending_contract" => row.status = "pending_contract"
  /\ m.task.type = "customer.subscription.updated" /\ m.task.status \in DOMAIN StatusOf =>
       m.entity.status = StatusOf[m.task.status]
  /\ m.task.type = "customer.subscription.updated" /\ m.task.status \notin DOMAIN StatusOf =>
       m.entity.status = row.status
  /\ m.task.type = "customer.subscription.deleted" => m.entity.status = "cancelled"

\* Once the contract is signed nobody else writes the row.
Copying == {"intent", "stripe", "load", "write"}
CopyInv ==
  /\ \A s \in StripeId : stripe[s] # "none" => signed
  /\ \A p \in Handlers : proc[p].pc = "stripe" => signed
  /\ \A p \in Handlers : signed /\ proc[p].pc \in Copying => CopyFits(proc[p], stripe)

\* Unless something failed, a subscription at Stripe is in the row or about to be.
CreatedInv ==
  failures = 0 =>
    \A s \in StripeId : stripe[s] # "none" =>
      row.stripeSubscriptionId = s \/ \E p \in Handlers : Creating(proc[p], s)

\* Events are numbered as they are sent; there is one of the initial payment, and
\* it is the oldest of those that matter; and a handler works on the oldest.
EventsInv ==
  /\ \A e \in inbox : e.n <= sent /\ (e.sub # 0 => signed)
                      /\ (e.type \in CheckoutEvent => e.sub = 0)
                      /\ (e.type = "customer.subscription.deleted" => e.status = "canceled")
  /\ \A e, f \in inbox : e.n = f.n => e = f
  /\ \A e, f \in inbox : e.type = "checkout.session.completed" =>
       /\ f.type = "checkout.session.completed" => f = e
       /\ f.sub # 0 => e.n < f.n
  /\ \A p \in Handlers : proc[p].pc \in {"count", "insert"} =>
       proc[p].task.type \in CheckoutEvent
  /\ \A p \in Handlers : proc[p].pc # "idle" /\ proc[p].task.type \in EventType =>
       proc[p].task \in inbox /\ (Ordered => \A f \in inbox : proc[p].task.n <= f.n)

\* Unless something failed, the event of the initial payment is answered before the
\* subscription can be activated.
RecordedInv ==
  failures = 0 =>
    \A e \in inbox : e.type = "checkout.session.completed" =>
      /\ ~signed
      /\ row.status \in Paid =>
           \E p \in Handlers : proc[p].task = e /\ proc[p].pc \in {"count", "insert"}
      /\ \A p \in Handlers : proc[p].pc \in Copying /\ proc[p].entity.status \in Paid =>
           proc[p].task = e

\* Stripe's word on its subscription s is still to come, as its last.
Coming(s) ==
  \E e \in inbox :
    /\ e.sub = s /\ e.status = stripe[s]
    /\ e.type \in {"customer.subscription.updated", "customer.subscription.deleted"}
    /\ \A f \in inbox : f.sub = s => f.n <= e.n

\* Or it was heard.
Heard(s) ==
  /\ \A f \in inbox : f.sub # s /\ f.type # "checkout.session.completed"
  /\ row.status = StatusOf[stripe[s]]

AgreesInv ==
  \A s \in StripeId : stripe[s] \in DOMAIN StatusOf =>
    /\ (\E p \in Handlers : Creating(proc[p], s)) => Coming(s) \/ row.stripeSubscriptionId = s
    /\ row.stripeSubscriptionId = s => Coming(s) \/ Heard(s)

\* A handler's step leaves the creator as it is, and there is no other handler.
LEMMA OnlyOne ==
  ASSUME OneHandler, TypeOK, NEW p \in Handlers, NEW m, proc' = [proc EXCEPT ![p] = m]
  PROVE  /\ proc'[p] = m
         /\ \A q \in Handlers : q = p
         /\ \A q \in Process : q = p \/ q = Creator
         /\ proc'[Creator] = proc[Creator]
         /\ p \in Process /\ Creator \in Process /\ p # Creator
BY ProcessAssumption DEF OneHandler, TypeOK, Process

\* What a step of one process amounts to.
LEMMA GoesTo ==
  ASSUME TypeOK, NEW p \in Process, NEW pc, Goes(p, pc)
  PROVE  /\ proc' = [proc EXCEPT ![p] = [proc[p] EXCEPT !.pc = pc]]
         /\ [proc[p] EXCEPT !.pc = pc].pc = pc
         /\ [proc[p] EXCEPT !.pc = pc].task = proc[p].task
         /\ [proc[p] EXCEPT !.pc = pc].entity = proc[p].entity
         /\ [proc[p] EXCEPT !.pc = pc].loaded = proc[p].loaded
         /\ [proc[p] EXCEPT !.pc = pc].orphans = proc[p].orphans
         /\ [proc[p] EXCEPT !.pc = pc].diff = proc[p].diff
BY DEF Goes, TypeOK, Memory

LEMMA LoadsTo ==
  ASSUME TypeOK, NEW p \in Process, SaveLoad(p)
  PROVE  \E m : /\ proc' = [proc EXCEPT ![p] = m] /\ m.pc = "write"
                /\ m.task = proc[p].task /\ m.entity = proc[p].entity
                /\ m.diff = {c \in Column : proc[p].entity[c] # row[c]}
                /\ m.orphans = {i \in DOMAIN payments \ proc[p].loaded :
                                  LoadsPayments(proc[p].task) /\ payments[i].linked}
<1> DEFINE d == {c \in Column : proc[p].entity[c] # row[c]}
           o == {i \in DOMAIN payments \ proc[p].loaded :
                                  LoadsPayments(proc[p].task) /\ payments[i].linked}
           m == [proc[p] EXCEPT !.pc = "write", !.diff = d, !.orphans = o]
<1>1. proc[p] \in Memory
  BY DEF TypeOK
<1> HIDE DEF d, o
<1>2. m.pc = "write" /\ m.task = proc[p].task /\ m.entity = proc[p].entity
      /\ m.diff = d /\ m.orphans = o
  BY <1>1 DEF Memory
<1>3. proc' = [proc EXCEPT ![p] = m]
  BY DEF SaveLoad, TypeOK, d, o
<1> HIDE DEF m
<1>4. QED
  BY <1>2, <1>3 DEF d, o

LEMMA CreatesTo ==
  ASSUME TypeOK, NEW p \in Process, StripeCreate(p)
  PROVE  \E s \in StripeId : \E m :
           /\ stripe[s] = "none" /\ stripe' = [stripe EXCEPT ![s] = "incomplete"]
           /\ proc' = [proc EXCEPT ![p] = m] /\ m.pc = "load"
           /\ m.task = proc[p].task /\ m.loaded = proc[p].loaded
           /\ m.entity = [proc[p].entity EXCEPT !.stripeSubscriptionId = s]
<1>1. PICK s \in StripeId :
        /\ stripe[s] = "none" /\ stripe' = [stripe EXCEPT ![s] = "incomplete"]
        /\ proc' = [proc EXCEPT ![p].pc = "load", ![p].entity.stripeSubscriptionId = s]
  BY DEF StripeCreate
<1> DEFINE m == [proc[p] EXCEPT !.pc = "load", !.entity.stripeSubscriptionId = s]
<1>2. proc' = [proc EXCEPT ![p] = m]
  BY <1>1 DEF TypeOK
<1>3. proc[p] \in Memory
  BY DEF TypeOK
<1>4. m.pc = "load" /\ m.task = proc[p].task /\ m.loaded = proc[p].loaded
      /\ m.entity = [proc[p].entity EXCEPT !.stripeSubscriptionId = s]
  BY <1>3 DEF Memory
<1> HIDE DEF m
<1>5. QED
  BY <1>1, <1>2, <1>4

\* What a handler begins with, and that nothing else changes.
LEMMA BeginsTo ==
  ASSUME TypeOK, NEW p \in Handlers, NEW pc, NEW task, NEW entity,
         Begins(p, pc, task, entity)
  PROVE  LET m == Started(pc, task, entity)
         IN /\ proc[p].pc = "idle" /\ proc' = [proc EXCEPT ![p] = m]
            /\ m.pc = pc /\ m.task = task /\ m.entity = entity
            /\ LoadsPayments(task) => m.loaded = DOMAIN payments
BY DEF Begins, Started

LEMMA WebhookTo ==
  ASSUME TypeOK, NEW p \in Handlers, NEW e \in inbox \cup answered, HandleWebhook(p, e)
  PROVE  /\ \E pc \in {"intent", "load"} : \E entity : Handles(p, e, pc, entity)
         /\ e.type \in EventType /\ ~LoadsPayments(e)
<1>1. e.type \in EventType
  BY DEF HandleWebhook, HandleCheckoutCompleted, HandlePaymentFailed,
         HandleInvoicePaymentSucceeded, HandleInvoicePaymentFailed,
         HandleSubscriptionUpdated, HandleSubscriptionDeleted, EventType,
         CheckoutEvent, InvoiceEvent
<1>2. ~LoadsPayments(e)
  BY <1>1 DEF LoadsPayments, EventType, CheckoutEvent, InvoiceEvent
<1>3. QED
  BY <1>1, <1>2, Zenon DEF HandleWebhook, HandleCheckoutCompleted, HandlePaymentFailed,
         HandleInvoicePaymentSucceeded, HandleInvoicePaymentFailed,
         HandleSubscriptionUpdated, HandleSubscriptionDeleted

LEMMA AskingTo ==
  ASSUME TypeOK, NEW p \in Handlers, Cancel(p) \/ ActivateAfterContractSigned(p)
  PROVE  \E type \in {"cancelNow", "cancelAtPeriodEnd", "activate"}, pc \in {"stripe", "load"} :
           \E entity : Asks(p, pc, type, entity)
BY Zenon DEF Cancel, ActivateAfterContractSigned

LEMMA IdleIs == Idle.pc = "idle" /\ Idle.task.type = "none"
BY DEF Idle, Request

-----------------------------------------------------------------------------
(* One process at a time: payments stay linked.                            *)

LEMMA LinksStep ==
  ASSUME OneHandler, TypeOK, LinksInv, NEW p \in Handlers, NEW m,
         proc' = [proc EXCEPT ![p] = m], UNCHANGED payments,
         LoadsPayments(m.task) /\ m.pc \in {"intent", "stripe", "load"} =>
           DOMAIN payments \subseteq m.loaded,
         m.pc = "write" => m.orphans = {},
         m.pc = "insert" => m.number = Len(payments) + 1
  PROVE  LinksInv'
<1>1. /\ proc'[p] = m /\ \A q \in Handlers : q = p
      /\ \A q \in Process : q = p \/ q = Creator
      /\ proc'[Creator] = proc[Creator] /\ p # Creator
  BY OnlyOne
<1>2. Creator \notin Handlers /\ Creator \in Process
  BY ProcessAssumption DEF Process
<1>3. QED
  BY <1>1, <1>2 DEF LinksInv

LEMMA CreatorLinks ==
  ASSUME OneHandler, TypeOK, LinksInv, NEW m,
         proc' = [proc EXCEPT ![Creator] = m], UNCHANGED payments,
         m.task.type \in {"createCheckoutSession", "none"},
         m.pc = "write" => m.orphans = {}
  PROVE  LinksInv'
<1>1. proc'[Creator] = m /\ \A q \in Handlers : proc'[q] = proc[q]
  BY ProcessAssumption DEF TypeOK, Process
<1>2. ~LoadsPayments(m.task)
  BY DEF LoadsPayments
<1>3. Creator \notin Handlers
  BY ProcessAssumption
<1>4. QED
  BY <1>1, <1>2, <1>3 DEF LinksInv, Process

\* A save of one process at a time detaches nothing.
LEMMA WriteLinks ==
  ASSUME OneHandler, TypeOK, LinksInv, NEW p \in Process, SaveWrite(p)
  PROVE  LinksInv'
<1>1. payments' = [i \in DOMAIN payments |->
                    [payments[i] EXCEPT !.linked = @ /\ i \notin proc[p].orphans]]
  BY DEF SaveWrite
<1>2. proc[p].orphans = {}
  BY DEF SaveWrite, LinksInv
<1>3. \A i \in DOMAIN payments : payments[i] \in Payment
  BY DEF TypeOK
<1>4. \A i \in DOMAIN payments : [payments[i] EXCEPT !.linked = @ /\ i \notin {}] = payments[i]
  <2> SUFFICES ASSUME NEW i \in DOMAIN payments
               PROVE  [payments[i] EXCEPT !.linked = @ /\ i \notin {}] = payments[i]
    OBVIOUS
  <2>1. payments[i].linked /\ payments[i].linked \in BOOLEAN
    BY <1>3 DEF LinksInv, Payment
  <2>2. (payments[i].linked /\ i \notin {}) = payments[i].linked
    BY <2>1, Zenon
  <2>3. [payments[i] EXCEPT !.linked = payments[i].linked] = payments[i]
    BY <1>3 DEF Payment
  <2>4. QED
    BY <2>2, <2>3, Zenon
<1>5. payments \in Seq(Payment) /\ payments = [i \in DOMAIN payments |-> payments[i]]
  BY DEF TypeOK
<1>6. UNCHANGED payments
  BY <1>1, <1>2, <1>4, <1>5, Zenon
<1>7. \/ Goes(p, "count")
      \/ proc' = [proc EXCEPT ![p] = Idle]
  BY DEF SaveWrite
<1>8. CASE p = Creator
  <2>1. proc[Creator].task.type \notin CheckoutEvent
    BY DEF LinksInv, CheckoutEvent
  <2>2. proc' = [proc EXCEPT ![Creator] = Idle]
    BY <1>8, <2>1 DEF SaveWrite
  <2>3. QED
    BY <1>6, <2>2, CreatorLinks, IdleIs
<1>9. CASE p \in Handlers
  <2>1. CASE Goes(p, "count")
    <3> DEFINE m == [proc[p] EXCEPT !.pc = "count"]
    <3>1. proc' = [proc EXCEPT ![p] = m] /\ m.pc = "count"
      BY <2>1, GoesTo
    <3> HIDE DEF m
    <3>2. QED
      BY <1>6, <1>9, <3>1, LinksStep
  <2>2. CASE proc' = [proc EXCEPT ![p] = Idle]
    BY <1>6, <1>9, <2>2, IdleIs, LinksStep
  <2>3. QED
    BY <1>7, <2>1, <2>2
<1>10. QED
  BY <1>8, <1>9 DEF Process

LEMMA InsertLinks ==
  ASSUME OneHandler, TypeOK, LinksInv, NEW p \in Handlers, InsertPayment(p)
  PROVE  LinksInv'
<1> DEFINE status == IF proc[p].task.type = "checkout.session.completed"
                     THEN "completed" ELSE "failed"
           record == [linked |-> TRUE, status |-> status]
<1>1. payments' = Append(payments, record) /\ proc' = [proc EXCEPT ![p] = Idle]
  BY DEF InsertPayment
<1>2. record.linked /\ payments \in Seq(Payment) /\ record \in Payment
  BY DEF TypeOK, Payment
<1> HIDE DEF record
<1>3. \A i \in DOMAIN payments' : payments'[i].linked
  <2>1. ASSUME NEW i \in DOMAIN payments'
        PROVE  (i \in DOMAIN payments /\ payments'[i] = payments[i]) \/ payments'[i] = record
    BY <1>1, <1>2
  <2>2. QED
    BY <2>1, <1>2 DEF LinksInv
<1>4. /\ proc'[p] = Idle /\ \A q \in Handlers : q = p
      /\ \A q \in Process : q = p \/ q = Creator
      /\ proc'[Creator] = proc[Creator] /\ p # Creator
  BY <1>1, OnlyOne
<1>5. ~LoadsPayments(proc[Creator].task) /\ Creator \notin Handlers /\ Creator \in Process
  BY ProcessAssumption DEF LinksInv, LoadsPayments, Process
<1>6. QED
  BY <1>3, <1>4, <1>5, IdleIs DEF LinksInv

LEMMA ContinueLinks ==
  ASSUME OneHandler, TypeOK, StagesInv, LinksInv, NEW p \in Handlers, Continue(p)
  PROVE  LinksInv'
<1>0. p \in Process
  BY DEF Process
<1> USE DEF tables
<1>1. CASE RetrieveIntent(p) \/ StripeCancel(p)
  <2>1. Goes(p, "load") /\ UNCHANGED payments /\ proc[p].pc \in {"intent", "stripe"}
    BY <1>1 DEF RetrieveIntent, StripeCancel
  <2> DEFINE m == [proc[p] EXCEPT !.pc = "load"]
  <2>2. /\ proc' = [proc EXCEPT ![p] = m] /\ m.pc = "load"
        /\ m.task = proc[p].task /\ m.loaded = proc[p].loaded
    BY <1>0, <2>1, GoesTo
  <2>3. LoadsPayments(proc[p].task) => DOMAIN payments \subseteq proc[p].loaded
    BY <1>0, <2>1 DEF LinksInv
  <2> HIDE DEF m
  <2>4. QED
    BY <2>1, <2>2, <2>3, LinksStep
<1>2. CASE StripeRefuses(p) \/ InsertCollides(p)
  BY <1>2, IdleIs, LinksStep DEF StripeRefuses, InsertCollides
<1>3. CASE StripeCreate(p)
  <2>1. PICK m : /\ proc' = [proc EXCEPT ![p] = m] /\ m.pc = "load"
                 /\ m.task = proc[p].task /\ m.loaded = proc[p].loaded
    BY <1>0, <1>3, CreatesTo
  <2>2. LoadsPayments(proc[p].task) => DOMAIN payments \subseteq proc[p].loaded
    BY <1>0, <1>3 DEF LinksInv, StripeCreate
  <2>3. UNCHANGED payments
    BY <1>3 DEF StripeCreate
  <2>4. QED
    BY <2>1, <2>2, <2>3, LinksStep
<1>4. CASE SaveLoad(p)
  <2>1. {i \in DOMAIN payments \ proc[p].loaded :
           LoadsPayments(proc[p].task) /\ payments[i].linked} = {}
    BY <1>0, <1>4 DEF SaveLoad, LinksInv
  <2>2. PICK m : /\ proc' = [proc EXCEPT ![p] = m] /\ m.pc = "write"
                 /\ m.orphans = {i \in DOMAIN payments \ proc[p].loaded :
                                  LoadsPayments(proc[p].task) /\ payments[i].linked}
    BY <1>0, <1>4, LoadsTo
  <2>3. UNCHANGED payments
    BY <1>4 DEF SaveLoad
  <2>4. m.orphans = {}
    BY <2>1, <2>2
  <2>5. QED
    BY <2>2, <2>3, <2>4, LinksStep
<1>5. CASE SaveWrite(p)
  BY <1>0, <1>5, WriteLinks
<1>6. CASE Count(p)
  <2> DEFINE m == [proc[p] EXCEPT !.pc = "insert", !.number = Len(payments) + 1]
  <2>1. proc' = [proc EXCEPT ![p] = m] /\ UNCHANGED payments
    BY <1>6, <1>0 DEF Count, TypeOK
  <2>2. m.pc = "insert" /\ m.number = Len(payments) + 1
    BY <1>0 DEF TypeOK, Memory
  <2> HIDE DEF m
  <2>3. QED
    BY <2>1, <2>2, LinksStep
<1>7. CASE InsertPayment(p)
  BY <1>7, InsertLinks
<1>8. QED
  BY <1>1, <1>2, <1>3, <1>4, <1>5, <1>6, <1>7 DEF Continue

\* The creator opens the session and saves; nothing else is its.
LEMMA CreatorContinues ==
  ASSUME TypeOK, StagesInv, Continue(Creator)
  PROVE  SaveLoad(Creator) \/ SaveWrite(Creator)
BY DEF Continue, RetrieveIntent, StripeCancel, StripeRefuses, StripeCreate, Count,
       InsertPayment, InsertCollides, StagesInv, EveryoneInPlace

LEMMA NextLinks ==
  ASSUME OneHandler, TypeOK, StagesInv, LinksInv, [Next]_vars
  PROVE  LinksInv'
<1> USE DEF tables
<1>0. Creator \in Process
  BY DEF Process
<1>1. ASSUME UNCHANGED <<payments, proc>> PROVE LinksInv'
  BY <1>1 DEF LinksInv
<1>2. CASE StripeStep
  BY <1>1, <1>2 DEF StripeStep, CheckoutPaid, CardDeclined, InvoicePaid, InvoiceUnpaid,
     GiveUp, Ends, Becomes, StripeActs
<1>3. ASSUME NEW e \in inbox, IgnoreEvent(e) PROVE LinksInv'
  BY <1>1, <1>3 DEF IgnoreEvent
<1>4. CASE OpenSession
  <2> DEFINE m == [proc[Creator] EXCEPT !.pc = "load"]
  <2>1. proc' = [proc EXCEPT ![Creator] = m] /\ m.pc = "load"
        /\ m.task = proc[Creator].task
    BY <1>4, <1>0, GoesTo DEF OpenSession
  <2> HIDE DEF m
  <2>2. UNCHANGED payments
    BY <1>4 DEF OpenSession
  <2>3. QED
    BY <2>1, <2>2, CreatorLinks DEF LinksInv
<1>5. ASSUME NEW p \in Handlers, NEW e \in inbox \cup answered, HandleWebhook(p, e)
      PROVE  LinksInv'
  <2>1. PICK pc \in {"intent", "load"} : \E entity : Handles(p, e, pc, entity)
    BY <1>5, WebhookTo
  <2>2. PICK entity : Handles(p, e, pc, entity)
    BY <2>1
  <2> DEFINE m == Started(pc, e, entity)
  <2>3. Begins(p, pc, e, entity) /\ UNCHANGED payments
    BY <2>2 DEF Handles
  <2>4. proc' = [proc EXCEPT ![p] = m] /\ m.pc = pc /\ m.task = e
    BY <2>3, BeginsTo
  <2>5. ~LoadsPayments(m.task)
    BY <1>5, <2>4, WebhookTo
  <2> HIDE DEF m
  <2>6. QED
    BY <2>3, <2>4, <2>5, LinksStep
<1>6. ASSUME NEW p \in Handlers, Cancel(p) \/ ActivateAfterContractSigned(p)
      PROVE  LinksInv'
  <2>1. PICK type \in {"cancelNow", "cancelAtPeriodEnd", "activate"},
             pc \in {"stripe", "load"} : \E entity : Asks(p, pc, type, entity)
    BY <1>6, AskingTo
  <2>2. PICK entity : Asks(p, pc, type, entity)
    BY <2>1
  <2> DEFINE m == Started(pc, Request(type), entity)
  <2>3. Begins(p, pc, Request(type), entity) /\ UNCHANGED payments
    BY <2>2 DEF Asks
  <2>4. proc' = [proc EXCEPT ![p] = m] /\ m.pc = pc
        /\ (LoadsPayments(m.task) => m.loaded = DOMAIN payments)
    BY <2>3, BeginsTo
  <2> HIDE DEF m
  <2>5. QED
    BY <2>3, <2>4, LinksStep
<1>7. ASSUME NEW p \in Process, Fails(p) PROVE LinksInv'
  <2>1. proc' = [proc EXCEPT ![p] = Idle] /\ UNCHANGED payments
    BY <1>7 DEF Fails
  <2>2. QED
    BY <2>1, IdleIs, LinksStep, CreatorLinks DEF Process
<1>8. ASSUME NEW p \in Process, Continue(p) PROVE LinksInv'
  <2>1. CASE p = Creator
    <3>1. SaveLoad(Creator) \/ SaveWrite(Creator)
      BY <1>8, <2>1, CreatorContinues
    <3>2. CASE SaveLoad(Creator)
      <4>1. {i \in DOMAIN payments \ proc[Creator].loaded :
           LoadsPayments(proc[Creator].task) /\ payments[i].linked} = {}
        BY DEF LinksInv, LoadsPayments
      <4>2. PICK m : /\ proc' = [proc EXCEPT ![Creator] = m] /\ m.pc = "write"
                     /\ m.task = proc[Creator].task
                     /\ m.orphans = {i \in DOMAIN payments \ proc[Creator].loaded :
                          LoadsPayments(proc[Creator].task) /\ payments[i].linked}
        BY <1>0, <3>2, LoadsTo
      <4>3. UNCHANGED payments
        BY <3>2 DEF SaveLoad
      <4>4. m.orphans = {} /\ m.task.type \in {"createCheckoutSession", "none"}
        BY <4>1, <4>2 DEF LinksInv
      <4>5. QED
        BY <4>2, <4>3, <4>4, CreatorLinks
    <3>3. QED
      BY <1>0, <3>1, <3>2, WriteLinks
  <2>2. QED
    BY <1>8, <2>1, ContinueLinks DEF Process
<1>9. CASE UNCHANGED vars
  BY <1>1, <1>9 DEF vars
<1>10. QED
  BY <1>2, <1>3, <1>4, <1>5, <1>6, <1>7, <1>8, <1>9 DEF Next

LEMMA InitLinks == ASSUME Init PROVE LinksInv
<1>1. \A p \in Process : proc[p].pc \in {"session", "idle"}
  BY DEF Init, Idle
<1>2. proc[Creator].task.type = "createCheckoutSession"
  BY DEF Init, Idle, Request, Process
<1>3. \A i \in DOMAIN payments : payments[i].linked
  BY DEF Init
<1>4. QED
  BY <1>1, <1>2, <1>3 DEF LinksInv

\* If requests and webhooks of the service do not overlap, no payment loses its
\* subscription: in any order of Stripe's events, with repetitions and failures.
THEOREM PaymentsAlwaysLinked ==
  ASSUME OneHandler
  PROVE  Spec => []PaymentsStayLinked
<1>1. LinksInv => PaymentsStayLinked
  BY DEF LinksInv, PaymentsStayLinked
<1>2. QED
  BY <1>1, InitStages, InitLinks, TypeCorrect, NextStages, NextLinks, PTL DEF Spec

-----------------------------------------------------------------------------
(* One process at a time: the copy in memory is the row.                   *)

LEMMA CopyStep ==
  ASSUME OneHandler, TypeOK, NEW p \in Handlers, NEW m,
         proc' = [proc EXCEPT ![p] = m],
         \A s \in StripeId : stripe'[s] # "none" => signed',
         m.pc = "stripe" => signed',
         signed' /\ m.pc \in Copying => UNCHANGED row /\ CopyFits(m, stripe')
  PROVE  CopyInv'
<1>1. proc'[p] = m /\ \A q \in Handlers : q = p
  BY OnlyOne
<1>2. \A q \in Handlers : proc'[q].pc = "stripe" => signed'
  BY <1>1
<1>3. \A q \in Handlers : signed' /\ proc'[q].pc \in Copying => CopyFits(proc[q], stripe)'
  <2> SUFFICES ASSUME signed', m.pc \in Copying PROVE CopyFits(proc[p], stripe)'
    BY <1>1 DEF Copying
  <2>1. UNCHANGED row /\ CopyFits(m, stripe') /\ proc'[p] = m
    BY <1>1
  <2>2. QED
    BY <2>1 DEF CopyFits, Creating
<1>4. QED
  BY <1>2, <1>3 DEF CopyInv, Copying

\* When the memory of the handlers stays, and Stripe forgets nothing.
LEMMA OthersCopy ==
  ASSUME TypeOK, StagesInv, CopyInv, \A q \in Handlers : proc'[q] = proc[q],
         UNCHANGED signed, signed => UNCHANGED row,
         \A s \in StripeId : /\ stripe'[s] # "none" => stripe[s] # "none"
                             /\ stripe[s] = "canceled" => stripe'[s] = "canceled"
  PROVE  CopyInv'
<1>1. \A s \in StripeId : stripe'[s] # "none" => signed'
  BY DEF CopyInv
<1>2. \A q \in Handlers : proc'[q].pc = "stripe" => signed'
  BY DEF CopyInv
<1>3. ASSUME NEW q \in Handlers, signed', proc'[q].pc \in Copying
      PROVE  CopyFits(proc[q], stripe)'
  <2>1. CopyFits(proc[q], stripe) /\ UNCHANGED row /\ proc'[q] = proc[q]
    BY <1>3 DEF CopyInv
  <2>2. proc[q].entity.stripeSubscriptionId \in StripeId \cup {0}
    BY DEF TypeOK, Memory, Row, Process
  <2>3. QED
    BY <2>1, <2>2 DEF CopyFits, Creating
<1>4. QED
  BY <1>1, <1>2, <1>3 DEF CopyInv, Copying

\* Stripe ends subscriptions, and neither creates nor revives any by itself.
LEMMA StripeKeeps ==
  ASSUME TypeOK, StripeStep
  PROVE  /\ UNCHANGED <<row, payments, proc, signed, failures>>
         /\ \A s \in StripeId : /\ stripe'[s] # "none" <=> stripe[s] # "none"
                                /\ stripe[s] = "canceled" => stripe'[s] = "canceled"
<1> USE DEF tables, counters, atStripe
<1>1. CASE CheckoutPaid \/ CardDeclined
  BY <1>1 DEF CheckoutPaid, CardDeclined, StripeActs
<1>2. ASSUME NEW t \in StripeId, NEW status, NEW types, Becomes(t, status, types),
             stripe[t] \notin {"none", "canceled"}, status # "none"
      PROVE  /\ UNCHANGED <<row, payments, proc, signed, failures>>
             /\ \A s \in StripeId : /\ stripe'[s] # "none" <=> stripe[s] # "none"
                                    /\ stripe[s] = "canceled" => stripe'[s] = "canceled"
  BY <1>2 DEF Becomes, StripeActs, TypeOK
<1>3. ASSUME NEW t \in StripeId,
             InvoicePaid(t) \/ InvoiceUnpaid(t) \/ GiveUp(t) \/ Ends(t)
      PROVE  \E status, types : /\ Becomes(t, status, types)
                                /\ stripe[t] \notin {"none", "canceled"} /\ status # "none"
  <2>1. CASE InvoicePaid(t)
    BY <2>1 DEF InvoicePaid
  <2>2. CASE InvoiceUnpaid(t)
    BY <2>2 DEF InvoiceUnpaid
  <2>3. CASE GiveUp(t)
    BY <2>3 DEF GiveUp
  <2>4. CASE Ends(t)
    BY <2>4 DEF Ends
  <2>5. QED
    BY <1>3, <2>1, <2>2, <2>3, <2>4
<1>4. QED
  BY <1>1, <1>2, <1>3 DEF StripeStep

\* A handler begins on a copy of the row, changed as its event says.
LEMMA WebhookCopies ==
  ASSUME TypeOK, NEW p \in Handlers, NEW e \in inbox \cup answered, HandleWebhook(p, e)
  PROVE  \E m : /\ proc' = [proc EXCEPT ![p] = m] /\ m.pc \in {"intent", "load"}
                /\ m.task = e /\ CopyFits(m, stripe)
                /\ m.entity.status \in Paid /\ e.type # "checkout.session.completed" =>
                     row.status \in Paid \/ (e.sub # 0 /\ row.stripeSubscriptionId = e.sub)
<1> USE DEF EventType, CheckoutEvent, InvoiceEvent
<1>1. row \in Row
  BY DEF TypeOK
<1>2. ASSUME NEW pc \in {"intent", "load"}, NEW entity, Handles(p, e, pc, entity),
             entity.stripeSubscriptionId = row.stripeSubscriptionId, e.type \in EventType,
             pc = "intent" => e.type = "checkout.session.completed",
             e.type = "payment_intent.payment_failed" => entity.status = row.status,
             e.type = "checkout.session.completed" =>
               entity.status \in {row.status, "pending_contract"},
             e.type \in EventType \ CheckoutEvent =>
               /\ Known(e)
               /\ entity.status = "pending_contract" => row.status = "pending_contract",
             e.type = "customer.subscription.updated" /\ e.status \in DOMAIN StatusOf =>
               entity.status = StatusOf[e.status],
             e.type = "customer.subscription.updated" /\ e.status \notin DOMAIN StatusOf =>
               entity.status = row.status,
             e.type = "customer.subscription.deleted" => entity.status = "cancelled"
      PROVE  \E m : /\ proc' = [proc EXCEPT ![p] = m] /\ m.pc \in {"intent", "load"}
                    /\ m.task = e /\ CopyFits(m, stripe)
                    /\ m.entity.status \in Paid /\ e.type # "checkout.session.completed" =>
                         row.status \in Paid \/ (e.sub # 0 /\ row.stripeSubscriptionId = e.sub)
  <2> DEFINE m == Started(pc, e, entity)
  <2>1. proc' = [proc EXCEPT ![p] = m] /\ m.pc = pc /\ m.task = e /\ m.entity = entity
    BY <1>2, BeginsTo DEF Handles
  <2> HIDE DEF m
  <2>2. CopyFits(m, stripe)
    BY <1>2, <2>1 DEF CopyFits, Known
  <2>3. m.entity.status \in Paid /\ e.type # "checkout.session.completed" =>
          row.status \in Paid \/ (e.sub # 0 /\ row.stripeSubscriptionId = e.sub)
    BY <1>2, <2>1 DEF Known
  <2>4. QED
    BY <2>1, <2>2, <2>3
<1>3. CASE HandleCheckoutCompleted(p, e)
  <2> DEFINE entity == IF row.initialPaymentType = "single" \/ 1 >= TotalInstallments
                       THEN [row EXCEPT !.initialPaymentStatus = "completed",
                               !.status = "pending_contract"]
                       ELSE [row EXCEPT !.initialPaymentStatus = "partial"]
  <2>1. Handles(p, e, "intent", entity) /\ e.type = "checkout.session.completed"
    BY <1>3 DEF HandleCheckoutCompleted
  <2>2. /\ entity.stripeSubscriptionId = row.stripeSubscriptionId
        /\ entity.status \in {row.status, "pending_contract"}
    BY <1>1 DEF Row
  <2> HIDE DEF entity
  <2>3. QED
    BY <1>2, <2>1, <2>2
<1>4. CASE HandlePaymentFailed(p, e)
  <2> DEFINE entity == [row EXCEPT !.initialPaymentStatus = "failed"]
  <2>1. Handles(p, e, "load", entity) /\ e.type = "payment_intent.payment_failed"
    BY <1>4 DEF HandlePaymentFailed
  <2>2. entity.stripeSubscriptionId = row.stripeSubscriptionId /\ entity.status = row.status
    BY <1>1 DEF Row
  <2> HIDE DEF entity
  <2>3. QED
    BY <1>2, <2>1, <2>2
<1>5. ASSUME NEW status, Handles(p, e, "load", [row EXCEPT !.status = status]), Known(e),
             e.type \in EventType \ CheckoutEvent,
             status = "pending_contract" => row.status = "pending_contract",
             e.type = "customer.subscription.updated" /\ e.status \in DOMAIN StatusOf =>
               status = StatusOf[e.status],
             e.type = "customer.subscription.updated" /\ e.status \notin DOMAIN StatusOf =>
               status = row.status,
             e.type = "customer.subscription.deleted" => status = "cancelled"
      PROVE  \E m : /\ proc' = [proc EXCEPT ![p] = m] /\ m.pc \in {"intent", "load"}
                    /\ m.task = e /\ CopyFits(m, stripe)
                    /\ m.entity.status \in Paid /\ e.type # "checkout.session.completed" =>
                         row.status \in Paid \/ (e.sub # 0 /\ row.stripeSubscriptionId = e.sub)
  <2> DEFINE entity == [row EXCEPT !.status = status]
  <2>1. entity.stripeSubscriptionId = row.stripeSubscriptionId /\ entity.status = status
    BY <1>1 DEF Row
  <2>2. Handles(p, e, "load", entity)
    BY <1>5
  <2> HIDE DEF entity
  <2>3. QED
    BY <1>2, <1>5, <2>1, <2>2
<1>6. CASE HandleInvoicePaymentSucceeded(p, e)
  BY <1>5, <1>6 DEF HandleInvoicePaymentSucceeded
<1>7. CASE HandleInvoicePaymentFailed(p, e)
  BY <1>5, <1>7 DEF HandleInvoicePaymentFailed
<1>8. CASE HandleSubscriptionUpdated(p, e)
  <2> DEFINE status == CASE e.status = "active" -> "active"
                         [] e.status = "past_due" -> "past_due"
                         [] e.status = "canceled" -> "cancelled"
                         [] e.status = "unpaid" -> "suspended"
                         [] OTHER -> row.status
  <2>1. /\ e.type = "customer.subscription.updated" /\ Known(e)
        /\ Handles(p, e, "load", [row EXCEPT !.status = status])
    BY <1>8, Zenon DEF HandleSubscriptionUpdated
  <2>2. status = "pending_contract" => row.status = "pending_contract"
    OBVIOUS
  <2>3. /\ e.status \in DOMAIN StatusOf => status = StatusOf[e.status]
        /\ e.status \notin DOMAIN StatusOf => status = row.status
    BY DEF StatusOf
  <2> HIDE DEF status
  <2>4. QED
    BY <1>5, <2>1, <2>2, <2>3
<1>9. CASE HandleSubscriptionDeleted(p, e)
  BY <1>5, <1>9 DEF HandleSubscriptionDeleted
<1>10. QED
  BY <1>3, <1>4, <1>6, <1>7, <1>8, <1>9 DEF HandleWebhook

LEMMA CancelCopies ==
  ASSUME TypeOK, NEW p \in Handlers, Cancel(p)
  PROVE  \E m : /\ proc' = [proc EXCEPT ![p] = m]
                /\ m.pc = IF row.stripeSubscriptionId = 0 THEN "load" ELSE "stripe"
                /\ m.task.type \in {"cancelNow", "cancelAtPeriodEnd"}
                /\ CopyFits(m, stripe)
                /\ m.entity.status \in Paid => row.status \in Paid
<1> DEFINE pc == IF row.stripeSubscriptionId = 0 THEN "load" ELSE "stripe"
           gone == [row EXCEPT !.status = "cancelled"]
<1>1. row \in Row
  BY DEF TypeOK
<1>2. Asks(p, pc, "cancelNow", gone) \/ Asks(p, pc, "cancelAtPeriodEnd", row)
  BY Zenon DEF Cancel
<1>3. gone.status = "cancelled" /\ gone.stripeSubscriptionId = row.stripeSubscriptionId
  BY <1>1 DEF Row
<1> HIDE DEF gone
<1>4. ASSUME NEW type \in {"cancelNow", "cancelAtPeriodEnd"}, NEW entity,
             Asks(p, pc, type, entity),
             entity.stripeSubscriptionId = row.stripeSubscriptionId,
             entity.status = IF type = "cancelNow" THEN "cancelled" ELSE row.status
      PROVE  \E m : /\ proc' = [proc EXCEPT ![p] = m] /\ m.pc = pc
                    /\ m.task.type \in {"cancelNow", "cancelAtPeriodEnd"}
                    /\ CopyFits(m, stripe)
                    /\ m.entity.status \in Paid => row.status \in Paid
  <2> DEFINE m == Started(pc, Request(type), entity)
  <2>a. Begins(p, pc, Request(type), entity)
    BY <1>4 DEF Asks
  <2>1. /\ proc' = [proc EXCEPT ![p] = m] /\ m.pc = pc /\ m.task = Request(type)
        /\ m.entity = entity
    BY <2>a, BeginsTo
  <2>2. Request(type).type = type
    BY DEF Request
  <2> HIDE DEF m
  <2>3. CopyFits(m, stripe)
    BY <1>4, <2>1, <2>2 DEF CopyFits, EventType, CheckoutEvent, InvoiceEvent
  <2>4. m.entity.status \in Paid => row.status \in Paid
    BY <1>4, <2>1 DEF Paid
  <2> HIDE DEF pc
  <2>5. QED
    BY <2>1, <2>2, <2>3, <2>4
<1>5. QED
  BY <1>2, <1>3, <1>4

LEMMA ActivateCopies ==
  ASSUME TypeOK, NEW p \in Handlers, ActivateAfterContractSigned(p)
  PROVE  /\ row.status = "pending_contract" /\ signed'
         /\ \E m : /\ proc' = [proc EXCEPT ![p] = m]
                   /\ m.pc = "load" \/ (m.pc = "stripe" /\ row.stripeSubscriptionId = 0)
                   /\ m.task.type = "activate" /\ CopyFits(m, stripe)
                   /\ m.entity.stripeSubscriptionId = row.stripeSubscriptionId
<1> DEFINE entity == [row EXCEPT !.contractSigned = TRUE, !.status = "active"]
<1>1. row.status = "pending_contract" /\ signed'
  BY DEF ActivateAfterContractSigned
<1>2. PICK pc \in {"load"} \cup (IF row.stripeSubscriptionId = 0 THEN {"stripe"} ELSE {}) :
        Asks(p, pc, "activate", entity)
  BY DEF ActivateAfterContractSigned
<1>3. entity.stripeSubscriptionId = row.stripeSubscriptionId /\ entity.status = "active"
  BY DEF TypeOK, Row
<1> DEFINE m == Started(pc, Request("activate"), entity)
<1> HIDE DEF entity
<1>a. Begins(p, pc, Request("activate"), entity)
  BY <1>2 DEF Asks
<1>4. /\ proc' = [proc EXCEPT ![p] = m] /\ m.pc = pc /\ m.task = Request("activate")
      /\ m.entity = entity
  BY <1>a, BeginsTo
<1>5. m.task.type = "activate"
  BY <1>4 DEF Request
<1> HIDE DEF m
<1>6. CopyFits(m, stripe)
  BY <1>1, <1>2, <1>3, <1>4, <1>5 DEF CopyFits, EventType, CheckoutEvent, InvoiceEvent
<1>7. QED
  BY <1>1, <1>2, <1>3, <1>4, <1>5, <1>6

LEMMA ContinueCopy ==
  ASSUME OneHandler, TypeOK, StagesInv, CopyInv, NEW p \in Handlers, Continue(p)
  PROVE  CopyInv'
<1>0. p \in Process /\ proc[p] \in Memory
  BY DEF Process, TypeOK
<1> USE DEF tables, atStripe
<1>1. CASE RetrieveIntent(p)
  <2> DEFINE m == [proc[p] EXCEPT !.pc = "load"]
  <2>1. /\ proc' = [proc EXCEPT ![p] = m] /\ m.pc = "load"
        /\ m.task = proc[p].task /\ m.entity = proc[p].entity
    BY <1>0, <1>1, GoesTo DEF RetrieveIntent
  <2> HIDE DEF m
  <2>2. UNCHANGED <<row, stripe, signed>> /\ proc[p].pc = "intent"
    BY <1>1 DEF RetrieveIntent
  <2>3. ASSUME signed PROVE CopyFits(m, stripe)
    <3>1. CopyFits(proc[p], stripe)
      BY <2>2, <2>3 DEF CopyInv, Copying
    <3>2. QED
      BY <2>1, <2>2, <3>1 DEF CopyFits, Creating
  <2>4. QED
    BY <2>1, <2>2, <2>3, CopyStep DEF CopyInv
<1>2. CASE StripeCancel(p)
  <2> DEFINE m == [proc[p] EXCEPT !.pc = "load"]
             s == proc[p].entity.stripeSubscriptionId
  <2>1. /\ proc' = [proc EXCEPT ![p] = m] /\ m.pc = "load"
        /\ m.task = proc[p].task /\ m.entity = proc[p].entity
    BY <1>0, <1>2, GoesTo DEF StripeCancel
  <2> HIDE DEF m
  <2>2. /\ UNCHANGED <<row, signed>> /\ proc[p].pc = "stripe"
        /\ proc[p].task.type # "activate"
        /\ stripe[s] \in {"incomplete", "active", "past_due", "unpaid"}
        /\ stripe' = IF proc[p].task.type = "cancelNow"
                     THEN [stripe EXCEPT ![s] = "canceled"] ELSE stripe
    BY <1>2 DEF StripeCancel
  <2>3. signed /\ CopyFits(proc[p], stripe)
    BY <1>0, <2>2 DEF CopyInv, Copying
  <2>4. s \in StripeId
    BY <1>0, <2>2, <2>3 DEF CopyFits, Memory, Row
  <2>5. proc[p].task.type = "cancelNow" => stripe'[s] = "canceled"
    BY <2>2, <2>4 DEF TypeOK
  <2>6. CopyFits(m, stripe')
    BY <2>1, <2>2, <2>3, <2>5 DEF CopyFits, Creating
  <2>7. QED
    BY <2>1, <2>2, <2>3, <2>6, CopyStep
<1>3. CASE StripeCreate(p)
  <2>1. PICK s, m :
           /\ s \in StripeId /\ stripe[s] = "none"
           /\ stripe' = [stripe EXCEPT ![s] = "incomplete"]
           /\ proc' = [proc EXCEPT ![p] = m] /\ m.pc = "load"
           /\ m.task = proc[p].task
           /\ m.entity = [proc[p].entity EXCEPT !.stripeSubscriptionId = s]
    BY <1>0, <1>3, CreatesTo
  <2>2. /\ UNCHANGED <<row, signed>> /\ proc[p].pc = "stripe"
        /\ proc[p].task.type = "activate"
    BY <1>3 DEF StripeCreate
  <2>3. signed /\ CopyFits(proc[p], stripe)
    BY <1>0, <2>2 DEF CopyInv, Copying
  <2>4. m.entity.stripeSubscriptionId = s /\ m.entity.status = proc[p].entity.status
    BY <1>0, <2>1 DEF Memory, Row
  <2>5. row.stripeSubscriptionId = 0
    BY <2>2, <2>3 DEF CopyFits, Creating
  <2>6. CopyFits(m, stripe')
    BY <2>1, <2>2, <2>3, <2>4, <2>5 DEF CopyFits, Creating, EventType, CheckoutEvent,
       InvoiceEvent
  <2>7. QED
    BY <2>1, <2>2, <2>3, <2>6, CopyStep
<1>4. CASE SaveLoad(p)
  <2>1. PICK m : /\ proc' = [proc EXCEPT ![p] = m] /\ m.pc = "write"
                 /\ m.task = proc[p].task /\ m.entity = proc[p].entity
                 /\ m.diff = {c \in Column : proc[p].entity[c] # row[c]}
    BY <1>0, <1>4, LoadsTo
  <2>2. UNCHANGED <<row, stripe, signed>> /\ proc[p].pc = "load"
    BY <1>4 DEF SaveLoad
  <2>3. ASSUME signed PROVE CopyFits(m, stripe)
    <3>1. CopyFits(proc[p], stripe)
      BY <2>2, <2>3 DEF CopyInv, Copying
    <3>2. QED
      BY <2>1, <2>2, <3>1 DEF CopyFits, Creating
  <2>4. QED
    BY <2>1, <2>2, <2>3, CopyStep DEF CopyInv
<1>5. CASE StripeRefuses(p) \/ InsertCollides(p) \/ InsertPayment(p)
  <2>1. proc' = [proc EXCEPT ![p] = Idle] /\ UNCHANGED <<stripe, signed>>
    BY <1>5 DEF StripeRefuses, InsertCollides, InsertPayment
  <2>2. QED
    BY <2>1, IdleIs, CopyStep DEF CopyInv, Copying
<1>6. CASE SaveWrite(p)
  <2>1. UNCHANGED <<stripe, signed>>
    BY <1>6 DEF SaveWrite
  <2>2. CASE proc' = [proc EXCEPT ![p] = Idle]
    BY <2>1, <2>2, IdleIs, CopyStep DEF CopyInv, Copying
  <2>3. CASE Goes(p, "count")
    <3> DEFINE m == [proc[p] EXCEPT !.pc = "count"]
    <3>1. proc' = [proc EXCEPT ![p] = m] /\ m.pc = "count"
      BY <1>0, <2>3, GoesTo
    <3> HIDE DEF m
    <3>2. QED
      BY <2>1, <3>1, CopyStep DEF CopyInv, Copying
  <2>4. QED
    BY <1>6, <2>2, <2>3 DEF SaveWrite
<1>7. CASE Count(p)
  <2> DEFINE m == [proc[p] EXCEPT !.pc = "insert", !.number = Len(payments) + 1]
  <2>1. proc' = [proc EXCEPT ![p] = m] /\ m.pc = "insert" /\ UNCHANGED <<stripe, signed>>
    BY <1>0, <1>7 DEF Count, TypeOK, Memory
  <2> HIDE DEF m
  <2>2. QED
    BY <2>1, CopyStep DEF CopyInv, Copying
<1>8. QED
  BY <1>1, <1>2, <1>3, <1>4, <1>5, <1>6, <1>7 DEF Continue

\* While the creator works nothing is paid, so nothing is signed.
LEMMA CreatorFirst ==
  ASSUME StagesInv, proc[Creator].pc # "idle"
  PROVE  ~signed /\ row.status \notin Paid /\ proc[Creator].entity.status \notin Paid
BY DEF StagesInv, NobodyPaysEarly, StagesHold, MemoryHolds, Fits, Process

\* What the creator does leaves the handlers alone.
LEMMA CreatorSteps ==
  ASSUME TypeOK, StagesInv, OpenSession \/ Continue(Creator)
  PROVE  /\ proc[Creator].pc # "idle" /\ \A q \in Handlers : proc'[q] = proc[q]
         /\ UNCHANGED <<stripe, signed, failures, inbox, sent>>
<1>0. Creator \in Process /\ Creator \notin Handlers
  BY ProcessAssumption DEF Process
<1> USE DEF atStripe, events, counters
<1>1. ASSUME NEW m, proc' = [proc EXCEPT ![Creator] = m]
      PROVE  \A q \in Handlers : proc'[q] = proc[q]
  BY <1>0, <1>1 DEF TypeOK, Process
<1>2. CASE OpenSession
  BY <1>0, <1>2, <1>1, GoesTo DEF OpenSession
<1>3. CASE SaveLoad(Creator)
  <2>1. \E m : proc' = [proc EXCEPT ![Creator] = m]
    BY <1>0, <1>3, LoadsTo
  <2>2. QED
    BY <1>1, <1>3, <2>1 DEF SaveLoad
<1>4. CASE SaveWrite(Creator)
  <2>1. proc[Creator].task.type \notin EventType /\ proc[Creator].task.type \notin CheckoutEvent
    BY DEF StagesInv, EveryoneInPlace, EventType
  <2>2. proc' = [proc EXCEPT ![Creator] = Idle]
    BY <1>4, <2>1 DEF SaveWrite
  <2>3. QED
    BY <1>1, <1>4, <2>1, <2>2 DEF SaveWrite, Answer
<1>5. QED
  BY <1>2, <1>3, <1>4, CreatorContinues

LEMMA NextCopy ==
  ASSUME OneHandler, TypeOK, StagesInv, CopyInv, [Next]_vars
  PROVE  CopyInv'
<1> USE DEF tables, atStripe
<1>1. CASE StripeStep
  BY <1>1, StripeKeeps, OthersCopy
<1>2. ASSUME NEW e \in inbox, IgnoreEvent(e) PROVE CopyInv'
  BY <1>2, OthersCopy DEF IgnoreEvent
<1>3. CASE OpenSession \/ Continue(Creator)
  <2>1. ~signed
    BY <1>3, CreatorSteps, CreatorFirst
  <2>2. QED
    BY <1>3, <2>1, CreatorSteps, OthersCopy
<1>4. ASSUME NEW p \in Handlers, NEW e \in inbox \cup answered, HandleWebhook(p, e)
      PROVE  CopyInv'
  <2>1. PICK m : /\ proc' = [proc EXCEPT ![p] = m] /\ m.pc \in {"intent", "load"}
                 /\ CopyFits(m, stripe)
    BY <1>4, WebhookCopies
  <2>2. UNCHANGED <<row, stripe, signed>>
    BY <1>4, WebhookTo DEF Handles
  <2>3. QED
    BY <2>1, <2>2, CopyStep DEF CopyInv
<1>5. ASSUME NEW p \in Handlers, Cancel(p) PROVE CopyInv'
  <2>1. PICK m : /\ proc' = [proc EXCEPT ![p] = m]
                 /\ m.pc = IF row.stripeSubscriptionId = 0 THEN "load" ELSE "stripe"
                 /\ CopyFits(m, stripe)
    BY <1>5, CancelCopies
  <2>2. UNCHANGED <<row, stripe, signed>>
    BY <1>5 DEF Cancel, Asks
  <2>3. row.stripeSubscriptionId # 0 => signed
    BY DEF StagesInv, StagesHold
  <2>4. QED
    BY <2>1, <2>2, <2>3, CopyStep DEF CopyInv
<1>6. ASSUME NEW p \in Handlers, ActivateAfterContractSigned(p) PROVE CopyInv'
  <2>1. PICK m : proc' = [proc EXCEPT ![p] = m] /\ CopyFits(m, stripe)
    BY <1>6, ActivateCopies
  <2>2. UNCHANGED <<row, stripe>> /\ signed'
    BY <1>6 DEF ActivateAfterContractSigned, Asks
  <2>3. QED
    BY <2>1, <2>2, CopyStep
<1>7. ASSUME NEW p \in Process, Fails(p) PROVE CopyInv'
  <2>1. proc' = [proc EXCEPT ![p] = Idle] /\ UNCHANGED <<row, stripe, signed>>
    BY <1>7 DEF Fails
  <2>2. CASE p = Creator
    <3>1. \A q \in Handlers : proc'[q] = proc[q]
      BY <2>1, <2>2, ProcessAssumption DEF TypeOK, Process
    <3>2. QED
      BY <2>1, <3>1, OthersCopy
  <2>3. CASE p \in Handlers
    BY <2>1, <2>3, IdleIs, CopyStep DEF CopyInv, Copying
  <2>4. QED
    BY <2>2, <2>3 DEF Process
<1>8. CASE UNCHANGED vars
  BY <1>8, OthersCopy DEF vars
<1>9. QED
  BY <1>1, <1>2, <1>3, <1>4, <1>5, <1>6, <1>7, <1>8, ContinueCopy DEF Next, Process

LEMMA InitCopy == ASSUME Init PROVE CopyInv
<1>1. \A p \in Handlers : proc[p].pc = "idle"
  BY ProcessAssumption DEF Init, Idle, Process
<1>2. \A s \in StripeId : stripe[s] = "none"
  BY DEF Init
<1>3. QED
  BY <1>1, <1>2 DEF CopyInv, Copying

-----------------------------------------------------------------------------
(* One process at a time: what is created at Stripe is saved, unless        *)
(* something fails.                                                         *)

\* A handler that saves makes the row what it remembers.
LEMMA SavesEntity ==
  ASSUME TypeOK, NEW p \in Handlers, proc[p].pc = "write", CopyFits(proc[p], stripe),
         SaveWrite(p)
  PROVE  \A c \in Column : row'[c] = proc[p].entity[c]
<1>1. row' = [c \in Column |-> IF c \in proc[p].diff THEN proc[p].entity[c] ELSE row[c]]
  BY DEF SaveWrite
<1>2. proc[p].diff = {c \in Column : proc[p].entity[c] # row[c]}
  BY DEF CopyFits
<1>3. QED
  BY <1>1, <1>2

\* While nothing is being created, and the row stays.
LEMMA CreatedStays ==
  ASSUME OneHandler, CreatedInv, NEW p \in Handlers, proc[p].pc \notin {"load", "write"},
         UNCHANGED <<row, failures>>, \A s \in StripeId : stripe'[s] # "none" => stripe[s] # "none"
  PROVE  CreatedInv'
<1>1. \A s : ~ \E q \in Handlers : Creating(proc[q], s)
  BY DEF OneHandler, Creating
<1>2. QED
  BY <1>1 DEF CreatedInv

LEMMA ContinueCreated ==
  ASSUME OneHandler, TypeOK, StagesInv, CopyInv, CreatedInv, NEW p \in Handlers, Continue(p)
  PROVE  CreatedInv'
<1>0. p \in Process /\ proc[p] \in Memory
  BY DEF Process, TypeOK
<1>a. UNCHANGED failures
  BY DEF Continue, RetrieveIntent, StripeCancel, StripeRefuses, StripeCreate, SaveLoad,
     SaveWrite, Count, InsertPayment, InsertCollides, counters
<1> USE DEF tables, atStripe
<1>1. CASE RetrieveIntent(p) \/ StripeRefuses(p) \/ Count(p) \/ InsertPayment(p)
             \/ InsertCollides(p)
  <2>1. proc[p].pc \notin {"load", "write"} /\ UNCHANGED <<row, stripe>>
    BY <1>1 DEF RetrieveIntent, StripeRefuses, Count, InsertPayment, InsertCollides
  <2>2. QED
    BY <1>a, <2>1, CreatedStays
<1>2. CASE StripeCancel(p)
  <2> DEFINE t == proc[p].entity.stripeSubscriptionId
  <2>1. /\ proc[p].pc = "stripe" /\ UNCHANGED row /\ stripe[t] # "none"
        /\ stripe' = stripe \/ stripe' = [stripe EXCEPT ![t] = "canceled"]
    BY <1>2 DEF StripeCancel
  <2>2. \A s \in StripeId : stripe'[s] # "none" => stripe[s] # "none"
    BY <2>1 DEF TypeOK
  <2>3. QED
    BY <1>a, <2>1, <2>2, CreatedStays
<1>3. CASE StripeCreate(p)
  <2>1. PICK s, m :
           /\ s \in StripeId /\ stripe[s] = "none"
           /\ stripe' = [stripe EXCEPT ![s] = "incomplete"]
           /\ proc' = [proc EXCEPT ![p] = m] /\ m.pc = "load"
           /\ m.task = proc[p].task
           /\ m.entity = [proc[p].entity EXCEPT !.stripeSubscriptionId = s]
    BY <1>0, <1>3, CreatesTo
  <2> SUFFICES ASSUME failures = 0, NEW t \in StripeId, stripe'[t] # "none"
               PROVE  Creating(proc'[p], t)
    BY <1>a DEF CreatedInv, Creating
  <2>2. proc[p].pc = "stripe" /\ proc[p].task.type = "activate"
    BY <1>3 DEF StripeCreate
  <2>3. row.stripeSubscriptionId = 0
    BY <2>2 DEF CopyInv, Copying, CopyFits, Creating
  <2>4. \A q \in Handlers : ~Creating(proc[q], t)
    BY <2>2 DEF OneHandler, Creating
  <2>5. stripe[t] = "none"
    BY <2>3, <2>4 DEF CreatedInv, StripeId
  <2>6. s = t
    BY <2>1, <2>5 DEF TypeOK
  <2>7. proc'[p] = m /\ m.entity.stripeSubscriptionId = s
    BY <1>0, <2>1 DEF TypeOK, Memory, Row
  <2>8. QED
    BY <2>1, <2>2, <2>6, <2>7 DEF Creating
<1>4. CASE SaveLoad(p)
  <2>1. PICK m : /\ proc' = [proc EXCEPT ![p] = m] /\ m.pc = "write"
                 /\ m.task = proc[p].task /\ m.entity = proc[p].entity
    BY <1>0, <1>4, LoadsTo
  <2>2. proc'[p] = m
    BY <1>0, <2>1 DEF TypeOK
  <2>3. UNCHANGED <<row, stripe>> /\ \A s : Creating(proc[p], s) => Creating(proc'[p], s)
    BY <1>4, <2>1, <2>2 DEF SaveLoad, Creating
  <2>4. \A s : (\E q \in Handlers : Creating(proc[q], s)) => \E q \in Handlers : Creating(proc'[q], s)
    BY <2>3 DEF OneHandler
  <2>5. QED
    BY <1>a, <2>3, <2>4 DEF CreatedInv, Creating
<1>5. CASE SaveWrite(p)
  <2> SUFFICES ASSUME failures = 0, NEW s \in StripeId, stripe'[s] # "none"
               PROVE  row'.stripeSubscriptionId = s
    BY <1>a DEF CreatedInv
  <2>1. proc[p].pc = "write" /\ stripe[s] # "none"
    BY <1>5 DEF SaveWrite
  <2>2. CopyFits(proc[p], stripe)
    BY <2>1 DEF CopyInv, Copying
  <2>3. row'.stripeSubscriptionId = proc[p].entity.stripeSubscriptionId
    BY <1>5, <2>1, <2>2, SavesEntity DEF Column
  <2>4. row.stripeSubscriptionId = s \/ Creating(proc[p], s)
    BY <2>1 DEF OneHandler, CreatedInv
  <2>5. QED
    BY <2>2, <2>3, <2>4 DEF CopyFits, Creating, StripeId
<1>6. QED
  BY <1>1, <1>2, <1>3, <1>4, <1>5 DEF Continue

LEMMA NextCreated ==
  ASSUME OneHandler, TypeOK, StagesInv, CopyInv, CreatedInv, [Next]_vars
  PROVE  CreatedInv'
<1> USE DEF tables, atStripe, counters
<1>0. ASSUME UNCHANGED <<row, proc, failures>>,
             \A s \in StripeId : stripe'[s] # "none" => stripe[s] # "none"
      PROVE  CreatedInv'
  BY <1>0 DEF CreatedInv, Creating
<1>1. CASE StripeStep
  BY <1>0, <1>1, StripeKeeps
<1>2. ASSUME NEW e \in inbox, IgnoreEvent(e) PROVE CreatedInv'
  BY <1>0, <1>2 DEF IgnoreEvent
<1>3. CASE OpenSession \/ Continue(Creator)
  <2>1. ~signed /\ UNCHANGED stripe
    BY <1>3, CreatorSteps, CreatorFirst
  <2>2. QED
    BY <2>1 DEF CopyInv, CreatedInv
<1>4. ASSUME NEW p \in Handlers, NEW e \in inbox \cup answered, HandleWebhook(p, e)
      PROVE  CreatedInv'
  <2>1. UNCHANGED <<row, stripe, failures>> /\ proc[p].pc = "idle"
    BY <1>4, WebhookTo DEF Handles, Begins
  <2>2. QED
    BY <2>1, CreatedStays
<1>5. ASSUME NEW p \in Handlers, Cancel(p) \/ ActivateAfterContractSigned(p)
      PROVE  CreatedInv'
  <2>1. UNCHANGED <<row, stripe, failures>> /\ proc[p].pc = "idle"
    BY <1>5 DEF Cancel, ActivateAfterContractSigned, Asks, Begins
  <2>2. QED
    BY <2>1, CreatedStays
<1>6. ASSUME NEW p \in Process, Fails(p) PROVE CreatedInv'
  <2>1. failures \in Nat /\ failures' = failures + 1
    BY <1>6, BoundsAssumption DEF Fails, TypeOK
  <2>2. QED
    BY <2>1 DEF CreatedInv
<1>7. CASE UNCHANGED vars
  BY <1>0, <1>7 DEF vars
<1>8. QED
  BY <1>1, <1>2, <1>3, <1>4, <1>5, <1>6, <1>7, ContinueCreated DEF Next, Process

\* One request or webhook at a time, activateAfterContractSigned leaves behind no
\* Stripe subscription the row does not name, unless a failure stops it between
\* createSubscription and the save (subscriptions.service.ts:669, :681).
THEOREM OrphansAlwaysCostFailures ==
  ASSUME OneHandler PROVE Spec => []OrphansCostFailures
<1>1. Init => CreatedInv
  BY DEF Init, CreatedInv
<1>2. CreatedInv => (TypeOK => OrphansCostFailures)
  BY BoundsAssumption DEF CreatedInv, OrphansCostFailures, Quiet, Creating, Process, TypeOK
<1>3. QED
  BY <1>1, <1>2, InitStages, InitCopy, TypeCorrect, NextStages, NextCopy, NextCreated, PTL
     DEF Spec

-----------------------------------------------------------------------------
(* One process at a time, no repetitions: the events on their way.         *)

\* Stripe sends new, the events that report status of its subscription s.
Tells(new, s, status) ==
  /\ inbox' = inbox \cup new /\ sent' \in Nat /\ sent <= sent'
  /\ \A e \in new : e.sub = s /\ e.status = status /\ sent < e.n /\ e.n <= sent'
  /\ \A e, f \in new : e.n = f.n => e = f
  /\ \A e \in new : e.n \in Nat

\* They are about a subscription that exists; the last one is acted upon.
Settling == {"customer.subscription.updated", "customer.subscription.deleted"}
Unpaid == {"incomplete", "incomplete_expired"}
SpeaksOf(new, s) ==
  /\ stripe[s] # "none" /\ stripe'[s] # "none" /\ Tells(new, s, stripe'[s])
  /\ stripe'[s] \in Unpaid =>
       stripe[s] \in Unpaid /\ \A e \in new : e.type = "customer.subscription.updated"
  /\ \A t \in StripeId \ {s} : stripe'[t] = stripe[t]
  /\ \A e \in new : /\ e.type \in EventType \ CheckoutEvent
                    /\ e.type = "customer.subscription.deleted" => e.status = "canceled"
  /\ \E e \in new : e.type \in Settling /\ \A f \in new : f.n <= e.n

\* Or they are about the initial payment.
CheckoutTells(new) ==
  /\ Tells(new, 0, "none") /\ UNCHANGED stripe
  /\ \/ /\ charge = "open"
        /\ \A e \in new : e.type = "checkout.session.completed"
        /\ \A e, f \in new : e = f
     \/ \A e \in new : e.type = "payment_intent.payment_failed"

LEMMA ReportsTells ==
  ASSUME TypeOK, NEW s \in StripeId \cup {0}, NEW status \in StripeStatus,
         NEW types \in Seq(EventType), Len(types) > 0, Reports(s, status, types)
  PROVE  \E new : /\ Tells(new, s, status)
                  /\ \A e \in new : \E i \in DOMAIN types : e.type = types[i]
                  /\ \E e \in new : e.type = types[Len(types)] /\ \A f \in new : f.n <= e.n
<1> DEFINE E(i) == Event(types[i], s, status, sent + i)
           new == {E(i) : i \in DOMAIN types}
<1>1. /\ DOMAIN types = 1 .. Len(types) /\ Len(types) \in Nat /\ sent \in Nat
      /\ inbox' = inbox \cup new /\ sent' = sent + Len(types)
  BY DEF Reports, TypeOK
<1>2. \A i \in DOMAIN types : /\ E(i).sub = s /\ E(i).status = status
                              /\ E(i).type = types[i] /\ E(i).n = sent + i
  BY DEF Event
<1> HIDE DEF E
<1>3. Tells(new, s, status)
  <2>1. \A e \in new : /\ e.sub = s /\ e.status = status
                       /\ e.n \in Nat /\ sent < e.n /\ e.n <= sent'
    BY <1>1, <1>2
  <2>2. ASSUME NEW i \in DOMAIN types, NEW j \in DOMAIN types, E(i).n = E(j).n
        PROVE  E(i) = E(j)
    <3>1. i = j
      BY <1>1, <1>2, <2>2
    <3>2. QED
      BY <3>1
  <2>3. \A e, f \in new : e.n = f.n => e = f
    BY <2>2
  <2>4. inbox' = inbox \cup new /\ sent' \in Nat /\ sent <= sent'
    BY <1>1
  <2> HIDE DEF new
  <2>5. QED
    BY <2>1, <2>3, <2>4 DEF Tells
<1>4. \A e \in new : \E i \in DOMAIN types : e.type = types[i]
  BY <1>2
<1>5. /\ E(Len(types)) \in new /\ E(Len(types)).type = types[Len(types)]
      /\ \A f \in new : f.n <= E(Len(types)).n
  BY <1>1, <1>2
<1> HIDE DEF new
<1>6. QED
  BY <1>3, <1>4, <1>5

LEMMA OneTold ==
  ASSUME TypeOK, NEW s \in StripeId \cup {0}, NEW status \in StripeStatus,
         NEW type \in EventType, Reports(s, status, <<type>>)
  PROVE  \E e : e.type = type /\ Tells({e}, s, status)
<1> DEFINE e == Event(type, s, status, sent + 1)
<1>1. inbox' = inbox \cup {e} /\ sent' = sent + 1 /\ sent \in Nat
  BY DEF Reports, TypeOK
<1>2. e.type = type /\ e.sub = s /\ e.status = status /\ e.n = sent + 1
  BY DEF Event
<1> HIDE DEF e
<1>3. QED
  BY <1>1, <1>2 DEF Tells

\* What Stripe does by itself.
LEMMA BecomesSpeaks ==
  ASSUME TypeOK, NEW s \in StripeId,
         InvoicePaid(s) \/ InvoiceUnpaid(s) \/ GiveUp(s) \/ Ends(s)
  PROVE  \E new : SpeaksOf(new, s)
<1>1. ASSUME NEW status \in StripeStatus, NEW types \in Seq(EventType \ CheckoutEvent),
             Len(types) > 0, types[Len(types)] \in Settling,
             \A i \in DOMAIN types :
               types[i] = "customer.subscription.deleted" => status = "canceled",
             stripe[s] # "none", status # "none",
             status \in Unpaid =>
               /\ stripe[s] \in Unpaid
               /\ \A i \in DOMAIN types : types[i] = "customer.subscription.updated",
             Becomes(s, status, types)
      PROVE  \E new : SpeaksOf(new, s)
  <2>1. Reports(s, status, types) /\ stripe' = [stripe EXCEPT ![s] = status]
    BY <1>1 DEF Becomes
  <2>2. types \in Seq(EventType) /\ s \in StripeId \cup {0}
    OBVIOUS
  <2>3. PICK new : /\ Tells(new, s, status)
                   /\ \A e \in new : \E i \in DOMAIN types : e.type = types[i]
                   /\ \E e \in new : e.type = types[Len(types)] /\ \A f \in new : f.n <= e.n
    BY <1>1, <2>1, <2>2, ReportsTells
  <2>4. stripe'[s] = status /\ \A t \in StripeId \ {s} : stripe'[t] = stripe[t]
    BY <2>1 DEF TypeOK
  <2>5. \A e \in new : /\ e.type \in EventType \ CheckoutEvent
                       /\ e.type = "customer.subscription.deleted" => e.status = "canceled"
    BY <1>1, <2>3 DEF Tells
  <2>6. QED
    BY <1>1, <2>3, <2>4, <2>5 DEF SpeaksOf
<1> USE DEF EventType, CheckoutEvent, InvoiceEvent, StripeStatus, Settling, Unpaid
<1>2. CASE InvoicePaid(s)
  <2> DEFINE types == <<"invoice.payment_succeeded", "customer.subscription.updated">>
  <2>1. Becomes(s, "active", types) /\ stripe[s] # "none"
    BY <1>2 DEF InvoicePaid
  <2>2. /\ types \in Seq(EventType \ CheckoutEvent) /\ Len(types) > 0
        /\ types[Len(types)] = "customer.subscription.updated"
        /\ \A i \in DOMAIN types : types[i] # "customer.subscription.deleted"
    OBVIOUS
  <2> HIDE DEF types
  <2>3. QED
    BY <1>1, <2>1, <2>2
<1>3. CASE InvoiceUnpaid(s)
  <2> DEFINE types == <<"invoice.payment_failed", "customer.subscription.updated">>
  <2>1. Becomes(s, "past_due", types) /\ stripe[s] # "none"
    BY <1>3 DEF InvoiceUnpaid
  <2>2. /\ types \in Seq(EventType \ CheckoutEvent) /\ Len(types) > 0
        /\ types[Len(types)] = "customer.subscription.updated"
        /\ \A i \in DOMAIN types : types[i] # "customer.subscription.deleted"
    OBVIOUS
  <2> HIDE DEF types
  <2>3. QED
    BY <1>1, <2>1, <2>2
<1>4. CASE GiveUp(s)
  <2> DEFINE types == <<"customer.subscription.updated">>
  <2>1. /\ \/ Becomes(s, "unpaid", types)
           \/ Becomes(s, "incomplete_expired", types) /\ stripe[s] = "incomplete"
        /\ stripe[s] # "none"
    BY <1>4 DEF GiveUp
  <2>2. /\ types \in Seq(EventType \ CheckoutEvent) /\ Len(types) > 0
        /\ types[Len(types)] = "customer.subscription.updated"
        /\ \A i \in DOMAIN types : types[i] = "customer.subscription.updated"
    OBVIOUS
  <2> HIDE DEF types
  <2>3. QED
    BY <1>1, <2>1, <2>2
<1>5. CASE Ends(s)
  <2> DEFINE types == <<"customer.subscription.deleted">>
  <2>1. Becomes(s, "canceled", types) /\ stripe[s] # "none"
    BY <1>5 DEF Ends
  <2>2. /\ types \in Seq(EventType \ CheckoutEvent) /\ Len(types) > 0
        /\ types[Len(types)] = "customer.subscription.deleted"
    OBVIOUS
  <2> HIDE DEF types
  <2>3. QED
    BY <1>1, <2>1, <2>2
<1>6. QED
  BY <1>2, <1>3, <1>4, <1>5

LEMMA StripeSpeaks ==
  ASSUME TypeOK, StripeStep
  PROVE  \E new : CheckoutTells(new) \/ \E s \in StripeId : SpeaksOf(new, s)
<1> USE DEF EventType, CheckoutEvent, StripeStatus
<1>1. ASSUME NEW type \in CheckoutEvent, Reports(0, "none", <<type>>), UNCHANGED stripe,
             type = "checkout.session.completed" => charge = "open"
      PROVE  \E new : CheckoutTells(new)
  <2>1. PICK e : e.type = type /\ Tells({e}, 0, "none")
    BY <1>1, OneTold
  <2>2. CheckoutTells({e})
    BY <1>1, <2>1 DEF CheckoutTells
  <2>3. QED
    BY <2>2
<1>2. CASE CheckoutPaid
  BY <1>1, <1>2 DEF CheckoutPaid
<1>3. CASE CardDeclined
  BY <1>1, <1>3 DEF CardDeclined, atStripe
<1>4. QED
  BY <1>2, <1>3, BecomesSpeaks DEF StripeStep

\* What it does when the service cancels.
LEMMA CancelSpeaks ==
  ASSUME TypeOK, NEW p \in Handlers, StripeCancel(p),
         proc[p].entity.stripeSubscriptionId \in StripeId
  PROVE  \E new : \E s \in StripeId : SpeaksOf(new, s)
<1> DEFINE s == proc[p].entity.stripeSubscriptionId
<1>1. ASSUME NEW type \in Settling, NEW status \in StripeStatus,
             Reports(s, status, <<type>>), stripe'[s] = status, stripe[s] # "none",
             \A t \in StripeId \ {s} : stripe'[t] = stripe[t], status # "none",
             status \in Unpaid =>
               stripe[s] \in Unpaid /\ type = "customer.subscription.updated",
             type = "customer.subscription.deleted" => status = "canceled"
      PROVE  \E new : SpeaksOf(new, s)
  <2> HIDE DEF s
  <2>0. type \in EventType \ CheckoutEvent /\ s \in StripeId \cup {0}
    BY DEF Settling, EventType, CheckoutEvent, InvoiceEvent, s
  <2>1. PICK e : e.type = type /\ Tells({e}, s, status)
    BY <1>1, <2>0, OneTold
  <2>2. e.status = status /\ e.n \in Nat
    BY <2>1 DEF Tells
  <2>3. SpeaksOf({e}, s)
    BY <1>1, <2>0, <2>1, <2>2 DEF SpeaksOf
  <2>4. QED
    BY <2>3
<1> USE DEF StripeStatus, Settling, Unpaid
<1>2. stripe[s] \in {"incomplete", "active", "past_due", "unpaid"}
  BY DEF StripeCancel
<1>3. CASE proc[p].task.type = "cancelNow"
  <2>1. /\ stripe' = [stripe EXCEPT ![s] = "canceled"]
        /\ Reports(s, "canceled", <<"customer.subscription.deleted">>)
    BY <1>3 DEF StripeCancel
  <2>2. stripe'[s] = "canceled" /\ \A t \in StripeId \ {s} : stripe'[t] = stripe[t]
    BY <2>1 DEF TypeOK
  <2> HIDE DEF s
  <2>3. \E new : SpeaksOf(new, s)
    BY <1>1, <1>2, <2>1, <2>2
  <2>4. QED
    BY <2>3 DEF s
<1>4. CASE proc[p].task.type # "cancelNow"
  <2>1. /\ UNCHANGED stripe
        /\ Reports(s, stripe[s], <<"customer.subscription.updated">>)
    BY <1>4 DEF StripeCancel
  <2> HIDE DEF s
  <2>2. \E new : SpeaksOf(new, s)
    BY <1>1, <1>2, <2>1
  <2>3. QED
    BY <2>2 DEF s
<1>5. QED
  BY <1>3, <1>4

\* New events are the latest, and the initial payment is reported once.
LEMMA TellsEvents ==
  ASSUME TypeOK, StagesInv, CopyInv, EventsInv, UNCHANGED signed, NEW new,
         CheckoutTells(new) \/ \E s \in StripeId : SpeaksOf(new, s),
         \A q \in Handlers : proc'[q].pc # "idle" =>
           /\ proc[q].pc # "idle" /\ proc'[q].task = proc[q].task
           /\ proc'[q].pc \in {"count", "insert"} => proc[q].pc \in {"count", "insert"}
  PROVE  EventsInv'
<1>1. PICK s, status : s \in StripeId \cup {0} /\ Tells(new, s, status)
  BY DEF CheckoutTells, SpeaksOf
<1>2. /\ sent \in Nat /\ \A e \in inbox : e.n \in Nat /\ e.n <= sent
      /\ inbox' = inbox \cup new /\ sent' \in Nat /\ sent <= sent'
      /\ \A e \in new : e.n \in Nat /\ sent < e.n /\ e.n <= sent'
  BY <1>1 DEF Tells, TypeOK, EventsInv, Task
<1>3. \A e \in new : /\ e.n <= sent' /\ (e.sub # 0 => signed)
                     /\ (e.type \in CheckoutEvent => e.sub = 0)
                     /\ (e.type = "customer.subscription.deleted" => e.status = "canceled")
  <2>1. CASE CheckoutTells(new)
    BY <1>2, <2>1 DEF CheckoutTells, Tells
  <2>2. ASSUME NEW t \in StripeId, SpeaksOf(new, t)
        PROVE  \A e \in new : /\ e.n <= sent' /\ (e.sub # 0 => signed)
                     /\ (e.type \in CheckoutEvent => e.sub = 0)
                     /\ (e.type = "customer.subscription.deleted" => e.status = "canceled")
    BY <1>2, <2>2 DEF SpeaksOf, CopyInv
  <2>3. QED
    BY <2>1, <2>2
<1>4. ASSUME NEW e \in inbox', NEW f \in inbox', e.n = f.n PROVE e = f
  BY <1>1, <1>2, <1>4 DEF Tells, EventsInv
<1>5. ASSUME NEW e \in new, e.type = "checkout.session.completed"
      PROVE  /\ \A f \in new : f = e /\ f.sub = 0
             /\ \A f \in inbox : f.type # "checkout.session.completed" /\ f.sub = 0
  <2>1. /\ charge = "open" /\ \A f \in new : f = e /\ f.sub = 0
    BY <1>5 DEF CheckoutTells, SpeaksOf, CheckoutEvent, Tells
  <2>2. QED
    BY <2>1 DEF StagesInv, StagesHold, EventsHold, EventsInv
<1>6. ASSUME NEW e \in inbox', NEW f \in inbox', e.type = "checkout.session.completed"
      PROVE  /\ f.type = "checkout.session.completed" => f = e
             /\ f.sub # 0 => e.n < f.n
  <2>1. CASE e \in inbox /\ f \in inbox
    BY <1>6, <2>1 DEF EventsInv
  <2>2. CASE e \in inbox /\ f \in new
    BY <1>2, <1>5, <1>6, <2>2
  <2>3. CASE e \in new
    BY <1>2, <1>5, <1>6, <2>3
  <2>4. QED
    BY <1>2, <2>1, <2>2, <2>3
<1>7. ASSUME NEW q \in Handlers, proc'[q].pc # "idle", proc'[q].task.type \in EventType
      PROVE  proc'[q].task \in inbox' /\ (Ordered => \A f \in inbox' : proc'[q].task.n <= f.n)
  <2>1. /\ proc'[q].task = proc[q].task /\ proc[q].task \in inbox
        /\ Ordered => \A f \in inbox : proc[q].task.n <= f.n
    BY <1>7 DEF EventsInv
  <2> DEFINE n == proc[q].task.n
  <2>2. n \in Nat /\ n <= sent /\ (Ordered => \A f \in inbox : n <= f.n)
    BY <1>2, <2>1
  <2> HIDE DEF n
  <2>3. Ordered => \A f \in inbox' : n <= f.n
    BY <1>2, <2>2
  <2>4. QED
    BY <1>2, <2>1, <2>3 DEF n
<1>8. \A q \in Handlers : proc'[q].pc \in {"count", "insert"} =>
        proc'[q].task.type \in CheckoutEvent
  BY DEF EventsInv
<1>9. \A e \in inbox' : /\ e.n <= sent' /\ (e.sub # 0 => signed')
                     /\ (e.type \in CheckoutEvent => e.sub = 0)
                     /\ (e.type = "customer.subscription.deleted" => e.status = "canceled")
  <2>1. \A e \in inbox : /\ e.n <= sent' /\ (e.sub # 0 => signed')
                     /\ (e.type \in CheckoutEvent => e.sub = 0)
                     /\ (e.type = "customer.subscription.deleted" => e.status = "canceled")
    <3>1. ASSUME NEW e \in inbox PROVE e.n <= sent'
      <4>1. e.n \in Nat /\ sent \in Nat /\ sent' \in Nat
        BY <1>2 DEF TypeOK
      <4>2. QED
        BY <1>2, <4>1
    <3>2. QED
      BY <3>1 DEF EventsInv
  <2>2. QED
    BY <1>2, <1>3, <2>1
<1>10. QED
  BY <1>4, <1>6, <1>7, <1>8, <1>9 DEF EventsInv

\* When no event is new.
LEMMA FewerEvents ==
  ASSUME EventsInv, UNCHANGED sent, signed => signed', inbox' \subseteq inbox,
         \A q \in Handlers : proc'[q].pc # "idle" /\ proc'[q].task.type \in EventType =>
           proc'[q].task \in inbox' /\ (Ordered => \A f \in inbox' : proc'[q].task.n <= f.n),
         \A q \in Handlers : proc'[q].pc \in {"count", "insert"} =>
           proc'[q].task.type \in CheckoutEvent
  PROVE  EventsInv'
BY DEF EventsInv

\* A process that goes on with its task.
LEMMA SameEvents ==
  ASSUME EventsInv, UNCHANGED <<inbox, sent>>, signed => signed',
         \A q \in Handlers : proc'[q].pc # "idle" =>
           /\ proc[q].pc # "idle" /\ proc'[q].task = proc[q].task
           /\ proc'[q].pc \in {"count", "insert"} => proc'[q].task.type \in CheckoutEvent
  PROVE  EventsInv'
<1>1. \A q \in Handlers : proc'[q].pc # "idle" /\ proc'[q].task.type \in EventType =>
        proc'[q].task \in inbox' /\ (Ordered => \A f \in inbox' : proc'[q].task.n <= f.n)
  BY DEF EventsInv
<1>2. QED
  BY <1>1, FewerEvents

\* A handler that has answered is idle.
LEMMA EndsEvents ==
  ASSUME OneHandler, TypeOK, EventsInv, NEW p \in Handlers,
         proc' = [proc EXCEPT ![p] = Idle], signed => signed', inbox' \subseteq inbox,
         UNCHANGED sent
  PROVE  EventsInv'
<1>1. \A q \in Handlers : proc'[q].pc = "idle"
  BY OnlyOne, IdleIs
<1>2. QED
  BY <1>1, FewerEvents

LEMMA AnswerShrinks ==
  ASSUME NEW task, Answer(task)
  PROVE  /\ inbox' \subseteq inbox /\ UNCHANGED sent
         /\ task.type \in EventType => inbox' = inbox \ {task}
         /\ task.type \notin EventType => UNCHANGED inbox
BY DEF Answer, events

LEMMA ContinueEvents ==
  ASSUME OneHandler, TypeOK, StagesInv, CopyInv, EventsInv, NEW p \in Handlers, Continue(p)
  PROVE  EventsInv'
<1>0. p \in Process /\ proc[p] \in Memory
  BY DEF Process, TypeOK
<1> USE DEF events
<1>1. ASSUME NEW m, proc' = [proc EXCEPT ![p] = m], UNCHANGED <<inbox, sent, signed>>,
             proc[p].pc # "idle", m.task = proc[p].task,
             m.pc \in {"count", "insert"} => m.task.type \in CheckoutEvent
      PROVE  EventsInv'
  BY <1>1, OnlyOne, SameEvents
<1>2. CASE RetrieveIntent(p)
  <2> DEFINE m == [proc[p] EXCEPT !.pc = "load"]
  <2>1. proc' = [proc EXCEPT ![p] = m] /\ m.pc = "load" /\ m.task = proc[p].task
    BY <1>0, <1>2, GoesTo DEF RetrieveIntent
  <2> HIDE DEF m
  <2>2. QED
    BY <1>1, <1>2, <2>1 DEF RetrieveIntent
<1>3. CASE StripeCancel(p)
  <2> DEFINE m == [proc[p] EXCEPT !.pc = "load"]
  <2>1. proc' = [proc EXCEPT ![p] = m] /\ m.pc = "load" /\ m.task = proc[p].task
    BY <1>0, <1>3, GoesTo DEF StripeCancel
  <2> HIDE DEF m
  <2>2. proc[p].pc = "stripe" /\ proc[p].task.type # "activate" /\ UNCHANGED signed
    BY <1>3 DEF StripeCancel
  <2>3. proc[p].entity.stripeSubscriptionId \in StripeId
    BY <1>0, <2>2 DEF CopyInv, Copying, CopyFits, Memory, Row
  <2>4. PICK new : \E s \in StripeId : SpeaksOf(new, s)
    BY <1>3, <2>3, CancelSpeaks
  <2>5. \A q \in Handlers : proc'[q].pc # "idle" =>
           /\ proc[q].pc # "idle" /\ proc'[q].task = proc[q].task
           /\ proc'[q].pc \in {"count", "insert"} => proc[q].pc \in {"count", "insert"}
    BY <2>1, <2>2, OnlyOne
  <2>6. QED
    BY <2>2, <2>4, <2>5, TellsEvents
<1>4. CASE StripeCreate(p)
  <2>1. PICK m : /\ proc' = [proc EXCEPT ![p] = m] /\ m.pc = "load"
                 /\ m.task = proc[p].task
    BY <1>0, <1>4, CreatesTo
  <2>2. QED
    BY <1>1, <1>4, <2>1 DEF StripeCreate
<1>5. CASE SaveLoad(p)
  <2>1. PICK m : /\ proc' = [proc EXCEPT ![p] = m] /\ m.pc = "write"
                 /\ m.task = proc[p].task
    BY <1>0, <1>5, LoadsTo
  <2>2. QED
    BY <1>1, <1>5, <2>1 DEF SaveLoad
<1>6. CASE StripeRefuses(p) \/ InsertCollides(p)
  BY <1>6, EndsEvents DEF StripeRefuses, InsertCollides
<1>7. CASE InsertPayment(p)
  BY <1>7, EndsEvents, AnswerShrinks DEF InsertPayment
<1>8. CASE SaveWrite(p)
  <2>1. UNCHANGED signed /\ proc[p].pc = "write"
    BY <1>8 DEF SaveWrite
  <2>2. CASE proc[p].task.type \in CheckoutEvent
    <3> DEFINE m == [proc[p] EXCEPT !.pc = "count"]
    <3>1. Goes(p, "count") /\ UNCHANGED <<inbox, sent>>
      BY <1>8, <2>2 DEF SaveWrite
    <3>2. proc' = [proc EXCEPT ![p] = m] /\ m.pc = "count" /\ m.task = proc[p].task
      BY <1>0, <3>1, GoesTo
    <3> HIDE DEF m
    <3>3. QED
      BY <1>1, <2>1, <2>2, <3>1, <3>2
  <2>3. CASE proc[p].task.type \notin CheckoutEvent
    BY <1>8, <2>1, <2>3, EndsEvents, AnswerShrinks DEF SaveWrite
  <2>4. QED
    BY <2>2, <2>3
<1>9. CASE Count(p)
  <2> DEFINE m == [proc[p] EXCEPT !.pc = "insert", !.number = Len(payments) + 1]
  <2>1. proc' = [proc EXCEPT ![p] = m] /\ m.task = proc[p].task
    BY <1>0, <1>9 DEF Count, TypeOK, Memory
  <2> HIDE DEF m
  <2>2. proc[p].pc = "count" /\ UNCHANGED <<inbox, sent, signed>>
    BY <1>9 DEF Count
  <2>3. proc[p].task.type \in CheckoutEvent
    BY <2>2 DEF EventsInv
  <2>4. QED
    BY <1>1, <2>1, <2>2, <2>3
<1>10. QED
  BY <1>2, <1>3, <1>4, <1>5, <1>6, <1>7, <1>8, <1>9 DEF Continue

\* Nothing is delivered that was answered.
LEMMA ArrivesOnce ==
  ASSUME TypeOK, NoRepeats, NEW p \in Handlers, NEW e \in inbox \cup answered,
         HandleWebhook(p, e)
  PROVE  /\ e \in inbox /\ (Ordered => \A f \in inbox : e.n <= f.n)
         /\ proc[p].pc = "idle" /\ UNCHANGED <<row, stripe, inbox, sent, signed, failures>>
<1>1. Arrives(e) /\ proc[p].pc = "idle"
      /\ UNCHANGED <<row, stripe, inbox, sent, signed, failures>>
  BY WebhookTo DEF Handles, Begins, tables, atStripe, events
<1>2. ~(redeliveries < MaxRedeliveries)
  BY DEF NoRepeats, TypeOK
<1>3. QED
  BY <1>1, <1>2 DEF Arrives

LEMMA NextEvents ==
  ASSUME OneHandler, NoRepeats, TypeOK, StagesInv, CopyInv, EventsInv, [Next]_vars
  PROVE  EventsInv'
<1> USE DEF tables, atStripe, events, counters
<1>1. CASE StripeStep
  <2>1. UNCHANGED <<proc, signed>>
    BY <1>1, StripeKeeps
  <2>2. QED
    BY <1>1, <2>1, StripeSpeaks, TellsEvents
<1>2. ASSUME NEW e \in inbox, IgnoreEvent(e) PROVE EventsInv'
  <2>1. UNCHANGED <<proc, signed>> /\ \A q \in Handlers : proc[q].pc = "idle"
    BY <1>2 DEF IgnoreEvent, OneHandler
  <2>2. inbox' \subseteq inbox /\ UNCHANGED sent
    BY <1>2, AnswerShrinks DEF IgnoreEvent
  <2>3. QED
    BY <2>1, <2>2, FewerEvents
<1>3. CASE OpenSession \/ Continue(Creator)
  <2>1. /\ \A q \in Handlers : proc'[q] = proc[q]
        /\ UNCHANGED <<signed, inbox, sent>>
    BY <1>3, CreatorSteps
  <2>2. QED
    BY <2>1, SameEvents DEF EventsInv
<1>4. ASSUME NEW p \in Handlers, NEW e \in inbox \cup answered, HandleWebhook(p, e)
      PROVE  EventsInv'
  <2>1. /\ e \in inbox /\ (Ordered => \A f \in inbox : e.n <= f.n)
        /\ UNCHANGED <<inbox, sent, signed>>
    BY <1>4, ArrivesOnce
  <2>2. PICK m : /\ proc' = [proc EXCEPT ![p] = m] /\ m.pc \in {"intent", "load"}
                 /\ m.task = e
    BY <1>4, WebhookCopies
  <2>3. \A q \in Handlers : proc'[q].pc \in {"intent", "load"} /\ proc'[q].task = e
    BY <2>2, OnlyOne
  <2>4. QED
    BY <2>1, <2>3, FewerEvents
<1>5. ASSUME NEW p \in Handlers, Cancel(p) \/ ActivateAfterContractSigned(p)
      PROVE  EventsInv'
  <2>1. PICK m : /\ proc' = [proc EXCEPT ![p] = m] /\ m.pc \in {"stripe", "load"}
                 /\ m.task.type \in {"cancelNow", "cancelAtPeriodEnd", "activate"}
    BY <1>5, CancelCopies, ActivateCopies
  <2>2. UNCHANGED <<inbox, sent>> /\ (signed => signed')
    BY <1>5 DEF Cancel, ActivateAfterContractSigned, Asks
  <2>3. \A q \in Handlers : /\ proc'[q].pc \in {"stripe", "load"}
                            /\ proc'[q].task.type \notin EventType
    BY <2>1, OnlyOne DEF EventType, CheckoutEvent, InvoiceEvent
  <2>4. QED
    BY <2>2, <2>3, FewerEvents
<1>6. ASSUME NEW p \in Process, Fails(p) PROVE EventsInv'
  <2>1. proc' = [proc EXCEPT ![p] = Idle] /\ UNCHANGED <<inbox, sent, signed>>
    BY <1>6 DEF Fails
  <2>2. \A q \in Handlers : proc'[q] = proc[q] \/ proc'[q].pc = "idle"
    BY <2>1, IdleIs DEF TypeOK
  <2>3. QED
    BY <2>1, <2>2, SameEvents DEF EventsInv
<1>7. CASE UNCHANGED vars
  BY <1>7, SameEvents DEF vars, EventsInv
<1>8. QED
  BY <1>1, <1>2, <1>3, <1>4, <1>5, <1>6, <1>7, ContinueEvents DEF Next, Process

LEMMA InitEvents == ASSUME Init PROVE EventsInv
<1>1. \A p \in Handlers : proc[p].pc = "idle"
  BY ProcessAssumption DEF Init, Idle, Process
<1>2. inbox = {}
  BY DEF Init
<1>3. QED
  BY <1>1, <1>2 DEF EventsInv

-----------------------------------------------------------------------------
(* One process at a time, no repetitions: the event of the initial payment *)
(* is answered before the contract is signed, unless something fails.      *)

\* The case in which nothing failed and the event is still in the inbox.
Waiting(e) == failures = 0 /\ e \in inbox /\ e.type = "checkout.session.completed"
RecordedOf(e) ==
  /\ ~signed
  /\ row.status \in Paid =>
       \E p \in Handlers : proc[p].task = e /\ proc[p].pc \in {"count", "insert"}
  /\ \A p \in Handlers : proc[p].pc \in Copying /\ proc[p].entity.status \in Paid =>
       proc[p].task = e

LEMMA RecordedMeans ==
  /\ RecordedInv <=> \A e \in inbox : Waiting(e) => RecordedOf(e)
  /\ RecordedInv' <=> \A e \in inbox' : Waiting(e)' => RecordedOf(e)'
BY DEF RecordedInv, Waiting, RecordedOf

\* A handler's step, after which nothing is signed.
LEMMA RecordedStep ==
  ASSUME OneHandler, TypeOK, NEW e, NEW p \in Handlers, NEW m,
         proc' = [proc EXCEPT ![p] = m], ~signed',
         row'.status \in Paid => m.task = e /\ m.pc \in {"count", "insert"},
         m.pc \in Copying /\ m.entity.status \in Paid => m.task = e
  PROVE  RecordedOf(e)'
<1>1. proc'[p] = m /\ \A q \in Handlers : q = p
  BY OnlyOne
<1>2. QED
  BY <1>1 DEF RecordedOf, Copying

LEMMA ContinueRecorded ==
  ASSUME OneHandler, TypeOK, StagesInv, LinksInv, CopyInv, EventsInv, RecordedInv,
         NEW p \in Handlers, Continue(p), NEW e, Waiting(e)'
  PROVE  RecordedOf(e)'
<1>0. p \in Process /\ proc[p] \in Memory /\ \A q \in Handlers : q = p
  BY DEF Process, TypeOK, OneHandler
<1>a. UNCHANGED <<failures, signed>>
  BY DEF Continue, RetrieveIntent, StripeCancel, StripeRefuses, StripeCreate, SaveLoad,
     SaveWrite, Count, InsertPayment, InsertCollides, counters
<1> USE DEF tables, atStripe, events
<1>b. ASSUME e \in inbox
      PROVE  /\ ~signed /\ ~signed'
             /\ row.status \in Paid => proc[p].task = e /\ proc[p].pc \in {"count", "insert"}
             /\ proc[p].pc \in Copying /\ proc[p].entity.status \in Paid => proc[p].task = e
  BY <1>0, <1>a, <1>b DEF Waiting, RecordedInv
<1>1. CASE RetrieveIntent(p)
  <2> DEFINE m == [proc[p] EXCEPT !.pc = "load"]
  <2>1. /\ proc' = [proc EXCEPT ![p] = m] /\ m.pc = "load"
        /\ m.task = proc[p].task /\ m.entity = proc[p].entity
    BY <1>0, <1>1, GoesTo DEF RetrieveIntent
  <2> HIDE DEF m
  <2>2. UNCHANGED <<row, inbox>> /\ proc[p].pc = "intent" /\ e \in inbox
    BY <1>1 DEF RetrieveIntent, Waiting
  <2>3. QED
    BY <1>b, <2>1, <2>2, RecordedStep DEF Copying
<1>2. CASE StripeCancel(p)
  <2>1. proc[p].pc = "stripe" /\ proc[p].task.type # "activate"
    BY <1>2 DEF StripeCancel
  <2>2. proc[p].entity.stripeSubscriptionId \in StripeId /\ signed
    BY <1>0, <2>1 DEF CopyInv, Copying, CopyFits, Memory, Row
  <2>3. PICK new : \E s \in StripeId : SpeaksOf(new, s)
    BY <1>2, <2>2, CancelSpeaks
  <2>4. e \in inbox
    BY <2>3 DEF SpeaksOf, Tells, Waiting, EventType, CheckoutEvent
  <2>5. QED
    BY <1>b, <2>2, <2>4
<1>3. CASE StripeCreate(p)
  <2>1. proc[p].pc = "stripe" /\ e \in inbox
    BY <1>3 DEF StripeCreate, Waiting
  <2>2. QED
    BY <1>b, <2>1 DEF CopyInv
<1>4. CASE SaveLoad(p)
  <2>1. PICK m : /\ proc' = [proc EXCEPT ![p] = m] /\ m.pc = "write"
                 /\ m.task = proc[p].task /\ m.entity = proc[p].entity
    BY <1>0, <1>4, LoadsTo
  <2>2. UNCHANGED <<row, inbox>> /\ proc[p].pc = "load" /\ e \in inbox
    BY <1>4 DEF SaveLoad, Waiting
  <2>3. QED
    BY <1>b, <2>1, <2>2, RecordedStep DEF Copying
<1>5. CASE StripeRefuses(p)
  <2>1. /\ proc' = [proc EXCEPT ![p] = Idle] /\ UNCHANGED row /\ e \in inbox
        /\ proc[p].pc = "stripe"
    BY <1>5 DEF StripeRefuses, Waiting
  <2>2. QED
    BY <1>b, <2>1, IdleIs, RecordedStep DEF Copying
<1>6. CASE InsertCollides(p)
  <2>1. proc[p].number = Len(payments) + 1 /\ proc[p].number <= Len(payments)
    BY <1>6 DEF InsertCollides, LinksInv, Process
  <2>2. Len(payments) \in Nat
    BY DEF TypeOK
  <2>3. QED
    BY <2>1, <2>2
<1>7. CASE InsertPayment(p)
  <2>1. /\ proc' = [proc EXCEPT ![p] = Idle] /\ UNCHANGED row /\ proc[p].pc = "insert"
        /\ Answer(proc[p].task)
    BY <1>7 DEF InsertPayment
  <2>2. proc[p].task.type \in EventType
    BY <2>1 DEF EventsInv, EventType
  <2>3. e \in inbox /\ e # proc[p].task
    BY <2>1, <2>2, AnswerShrinks DEF Waiting
  <2>4. QED
    BY <1>b, <2>1, <2>3, IdleIs, RecordedStep DEF Copying
<1>8. CASE Count(p)
  <2> DEFINE m == [proc[p] EXCEPT !.pc = "insert", !.number = Len(payments) + 1]
  <2>1. proc' = [proc EXCEPT ![p] = m] /\ m.pc = "insert" /\ m.task = proc[p].task
    BY <1>0, <1>8 DEF Count, TypeOK, Memory
  <2> HIDE DEF m
  <2>2. UNCHANGED <<row, inbox>> /\ e \in inbox
    BY <1>8 DEF Count, Waiting
  <2>3. QED
    BY <1>b, <2>1, <2>2, RecordedStep DEF Copying
<1>9. CASE SaveWrite(p)
  <2>1. /\ proc[p].pc = "write" /\ inbox' \subseteq inbox
        /\ row' = [c \in Column |-> IF c \in proc[p].diff THEN proc[p].entity[c] ELSE row[c]]
    BY <1>9, AnswerShrinks DEF SaveWrite
  <2>2. e \in inbox
    BY <2>1 DEF Waiting
  <2>3. row'.status \in {row.status, proc[p].entity.status}
    BY <2>1 DEF Column
  <2>4. row'.status \in Paid => proc[p].task = e
    BY <1>b, <2>1, <2>2, <2>3 DEF Copying
  <2>5. CASE proc[p].task.type \in CheckoutEvent
    <3> DEFINE m == [proc[p] EXCEPT !.pc = "count"]
    <3>1. Goes(p, "count")
      BY <1>9, <2>5 DEF SaveWrite
    <3>2. proc' = [proc EXCEPT ![p] = m] /\ m.pc = "count" /\ m.task = proc[p].task
      BY <1>0, <3>1, GoesTo
    <3> HIDE DEF m
    <3>3. QED
      BY <1>b, <2>2, <2>4, <3>2, RecordedStep DEF Copying
  <2>6. CASE proc[p].task.type \notin CheckoutEvent
    <3>1. proc' = [proc EXCEPT ![p] = Idle]
      BY <1>9, <2>6 DEF SaveWrite
    <3>2. row'.status \notin Paid
      BY <2>4, <2>6 DEF Waiting, CheckoutEvent
    <3>3. QED
      BY <1>b, <2>2, <3>1, <3>2, IdleIs, RecordedStep DEF Copying
  <2>7. QED
    BY <2>5, <2>6
<1>10. QED
  BY <1>1, <1>2, <1>3, <1>4, <1>5, <1>6, <1>7, <1>8, <1>9 DEF Continue

LEMMA NextRecorded ==
  ASSUME OneHandler, NoRepeats, TypeOK, StagesInv, LinksInv, CopyInv, EventsInv,
         RecordedInv, [Next]_vars
  PROVE  RecordedInv'
<1> SUFFICES ASSUME NEW e, Waiting(e)' PROVE RecordedOf(e)'
  BY RecordedMeans
<1> USE DEF tables, atStripe, events, counters
<1>0. ASSUME e \in inbox, UNCHANGED <<row, signed, failures>>,
             \A q \in Handlers : proc'[q] = proc[q]
      PROVE  RecordedOf(e)'
  BY <1>0 DEF RecordedInv, Waiting, RecordedOf
<1>1. CASE StripeStep
  <2>1. UNCHANGED <<row, proc, signed, failures>>
    BY <1>1, StripeKeeps
  <2>2. PICK new : CheckoutTells(new) \/ \E s \in StripeId : SpeaksOf(new, s)
    BY <1>1, StripeSpeaks
  <2>3. CASE charge = "open"
    <3>1. /\ ~signed /\ row.status \notin Paid
          /\ \A q \in Process : proc[q].entity.status \notin Paid
      BY <2>3 DEF StagesInv, StagesHold, MemoryHolds, Fits
    <3>2. QED
      BY <2>1, <3>1 DEF RecordedOf, Process
  <2>4. CASE charge # "open"
    <3>1. e \in inbox
      BY <2>2, <2>4 DEF CheckoutTells, SpeaksOf, Tells, Waiting, EventType, CheckoutEvent
    <3>2. QED
      BY <1>0, <2>1, <3>1
  <2>5. QED
    BY <2>3, <2>4
<1>2. ASSUME NEW f \in inbox, IgnoreEvent(f) PROVE RecordedOf(e)'
  <2>1. e \in inbox
    BY <1>2, AnswerShrinks DEF IgnoreEvent, Waiting
  <2>2. QED
    BY <1>0, <1>2, <2>1 DEF IgnoreEvent
<1>3. CASE OpenSession \/ Continue(Creator)
  <2>1. /\ \A q \in Handlers : proc'[q] = proc[q]
        /\ UNCHANGED <<signed, inbox, failures>> /\ proc[Creator].pc # "idle"
    BY <1>3, CreatorSteps
  <2>2. ~signed /\ row.status \notin Paid /\ proc[Creator].entity.status \notin Paid
    BY <2>1, CreatorFirst
  <2>3. row'.status \in {row.status, proc[Creator].entity.status}
    BY <1>3, CreatorContinues DEF OpenSession, SaveLoad, SaveWrite, Column
  <2>4. QED
    BY <2>1, <2>2, <2>3 DEF RecordedInv, Waiting, RecordedOf
<1>4. ASSUME NEW p \in Handlers, NEW f \in inbox \cup answered, HandleWebhook(p, f)
      PROVE  RecordedOf(e)'
  <2>1. f \in inbox /\ proc[p].pc = "idle" /\ UNCHANGED <<row, inbox, signed, failures>>
    BY <1>4, ArrivesOnce
  <2>2. PICK m : /\ proc' = [proc EXCEPT ![p] = m] /\ m.task = f
                 /\ m.entity.status \in Paid /\ f.type # "checkout.session.completed" =>
                      row.status \in Paid \/ (f.sub # 0 /\ row.stripeSubscriptionId = f.sub)
    BY <1>4, WebhookCopies
  <2>3. e \in inbox /\ e.type = "checkout.session.completed" /\ failures = 0
    BY <2>1 DEF Waiting
  <2>4. ~signed /\ row.status \notin Paid
    BY <2>1, <2>3 DEF RecordedInv, OneHandler
  <2>5. m.entity.status \in Paid => f = e
    BY <2>1, <2>2, <2>3, <2>4 DEF EventsInv
  <2>6. QED
    BY <2>1, <2>2, <2>4, <2>5, RecordedStep
<1>5. ASSUME NEW p \in Handlers, Cancel(p) \/ ActivateAfterContractSigned(p)
      PROVE  RecordedOf(e)'
  <2>1. proc[p].pc = "idle" /\ UNCHANGED <<row, inbox, failures>>
    BY <1>5 DEF Cancel, ActivateAfterContractSigned, Asks, Begins
  <2>2. e \in inbox /\ e.type = "checkout.session.completed" /\ failures = 0
    BY <2>1 DEF Waiting
  <2>3. ~signed /\ row.status \notin Paid
    BY <2>1, <2>2 DEF RecordedInv, OneHandler
  <2>4. Cancel(p)
    BY <1>5, <2>3, ActivateCopies DEF Paid
  <2>5. PICK m : /\ proc' = [proc EXCEPT ![p] = m]
                 /\ m.entity.status \in Paid => row.status \in Paid
    BY <2>4, CancelCopies
  <2>6. UNCHANGED signed
    BY <2>4 DEF Cancel
  <2>7. QED
    BY <2>1, <2>3, <2>5, <2>6, RecordedStep
<1>6. ASSUME NEW p \in Process, Fails(p) PROVE RecordedOf(e)'
  <2>1. failures \in Nat /\ failures' = failures + 1
    BY <1>6, BoundsAssumption DEF Fails, TypeOK
  <2>2. QED
    BY <2>1 DEF Waiting
<1>7. CASE UNCHANGED vars
  BY <1>0, <1>7 DEF vars, Waiting
<1>8. QED
  BY <1>1, <1>2, <1>3, <1>4, <1>5, <1>6, <1>7, ContinueRecorded DEF Next, Process

LEMMA SavesNotBack ==
  ASSUME OneHandler, NoRepeats, TypeOK, StagesInv, CopyInv, EventsInv, RecordedInv,
         NEW p \in Process, SaveWrite(p),
         row.status \in Contracted, row'.status = "pending_contract"
  PROVE  failures > 0
<1>1. signed /\ row.status # "pending_contract" /\ failures \in Nat
  BY BoundsAssumption DEF StagesInv, StagesHold, Contracted, TypeOK
<1>2. proc[p].pc = "write"
  BY DEF SaveWrite
<1>3. p \in Handlers
  BY <1>1, <1>2, CreatorFirst DEF Process
<1>4. CopyFits(proc[p], stripe)
  BY <1>1, <1>2, <1>3 DEF CopyInv, Copying
<1>5. proc[p].entity.status = "pending_contract"
  BY <1>2, <1>3, <1>4, SavesEntity DEF Column
<1>6. proc[p].task.type = "checkout.session.completed"
  BY <1>1, <1>4, <1>5 DEF CopyFits, CheckoutEvent
<1>7. proc[p].task \in inbox
  BY <1>2, <1>3, <1>6 DEF EventsInv, EventType, CheckoutEvent
<1>8. failures # 0
  BY <1>1, <1>6, <1>7 DEF RecordedInv
<1>9. QED
  BY <1>1, <1>8

\* One request or webhook at a time, and if Stripe does not deliver again what was
\* answered, handleCheckoutCompleted sets an activated subscription back to waiting
\* for its contract (subscriptions.service.ts:258) only if something failed before.
THEOREM SetBackAlwaysCostsFailures ==
  ASSUME OneHandler, NoRepeats PROVE Spec => SetBackCostsFailures
<1>1. Init => RecordedInv
  BY DEF Init, RecordedInv
<1>2. ASSUME TypeOK, StagesInv, CopyInv, EventsInv, RecordedInv, [Next]_vars,
             row.status \in Contracted, row'.status = "pending_contract"
      PROVE  failures > 0
  <2>1. row' # row
    BY <1>2 DEF Contracted
  <2>2. \E p \in Process : SaveWrite(p)
    BY <1>2, <2>1, StripeKeeps DEF Next, OpenSession, HandleWebhook, Handles,
       HandleCheckoutCompleted, HandlePaymentFailed, HandleInvoicePaymentSucceeded,
       HandleInvoicePaymentFailed, HandleSubscriptionUpdated, HandleSubscriptionDeleted,
       Cancel, ActivateAfterContractSigned, Asks, IgnoreEvent, Fails, Continue,
       RetrieveIntent, StripeCancel, StripeRefuses, StripeCreate, SaveLoad, Count,
       InsertPayment, InsertCollides, tables, vars
  <2>3. QED
    BY <1>2, <2>2, SavesNotBack
<1>3. TypeOK /\ StagesInv /\ CopyInv /\ EventsInv /\ RecordedInv /\ [Next]_vars =>
        [row.status \in Contracted /\ row'.status = "pending_contract" => failures > 0]_vars
  BY <1>2
<1>4. QED
  BY <1>1, <1>3, InitStages, InitLinks, InitCopy, InitEvents, TypeCorrect, NextStages,
     NextLinks, NextCopy, NextEvents, NextRecorded, PTL DEF Spec, SetBackCostsFailures

-----------------------------------------------------------------------------
(* One process at a time, no repetitions, events in order: the row and     *)
(* Stripe agree.                                                           *)

Agrees(s) ==
  /\ (\E p \in Handlers : Creating(proc[p], s)) => Coming(s) \/ row.stripeSubscriptionId = s
  /\ row.stripeSubscriptionId = s => Coming(s) \/ Heard(s)

LEMMA AgreesMeans ==
  /\ AgreesInv <=> \A s \in StripeId : stripe[s] \in DOMAIN StatusOf => Agrees(s)
  /\ AgreesInv' <=> \A s \in StripeId : stripe'[s] \in DOMAIN StatusOf => Agrees(s)'
BY DEF AgreesInv, Agrees

\* Only what is signed is created.
LEMMA NothingCreated ==
  ASSUME CopyInv', ~signed' PROVE AgreesInv'
<1>1. \A s \in StripeId : stripe'[s] = "none"
  BY DEF CopyInv
<1>2. "none" \notin DOMAIN StatusOf
  BY DEF StatusOf
<1>3. QED
  BY <1>1, <1>2 DEF AgreesInv

\* When nothing changes about s, and nobody begins to create it.
LEMMA AgreesKept ==
  ASSUME NEW s \in StripeId, Agrees(s), stripe'[s] = stripe[s], UNCHANGED row,
         \A q \in Handlers : Creating(proc'[q], s) => Creating(proc[q], s),
         inbox \subseteq inbox',
         \A e \in inbox' \ inbox : e.sub # s /\ e.type # "checkout.session.completed"
  PROVE  Agrees(s)'
<1>1. Coming(s) => Coming(s)'
  BY DEF Coming
<1>2. Heard(s) => Heard(s)'
  BY DEF Heard
<1>3. (\E q \in Handlers : Creating(proc[q], s))' => \E q \in Handlers : Creating(proc[q], s)
  BY DEF Creating
<1>4. QED
  BY <1>1, <1>2, <1>3 DEF Agrees

\* What Stripe says of s is the last it said.
LEMMA SpeaksAgree ==
  ASSUME TypeOK, EventsInv, AgreesInv, NEW new, NEW t \in StripeId, SpeaksOf(new, t),
         UNCHANGED row, \A q \in Handlers : \A s : Creating(proc'[q], s) => Creating(proc[q], s)
  PROVE  AgreesInv'
<1> SUFFICES ASSUME NEW s \in StripeId, stripe'[s] \in DOMAIN StatusOf PROVE Agrees(s)'
  BY AgreesMeans
<1>1. /\ inbox' = inbox \cup new /\ sent \in Nat
      /\ \A e \in inbox : e.n \in Nat /\ e.n <= sent
      /\ \A e \in new : e.sub = t /\ e.status = stripe'[t] /\ e.n \in Nat /\ sent < e.n
                        /\ e.type # "checkout.session.completed"
  BY DEF SpeaksOf, Tells, TypeOK, Task, EventsInv, EventType, CheckoutEvent
<1>2. CASE s # t
  <2>1. stripe'[s] = stripe[s] /\ Agrees(s)
    BY <1>2, AgreesMeans DEF SpeaksOf
  <2>2. \A e \in inbox' \ inbox : e.sub # s /\ e.type # "checkout.session.completed"
    BY <1>1, <1>2
  <2>3. QED
    BY <1>1, <2>1, <2>2, AgreesKept
<1>3. CASE s = t
  <2>1. PICK e \in new : e.type \in Settling /\ \A f \in new : f.n <= e.n
    BY DEF SpeaksOf
  <2>2. ASSUME NEW f \in inbox PROVE f.n <= e.n
    <3> DEFINE n == f.n
               k == e.n
    <3>1. n \in Nat /\ k \in Nat /\ n <= sent /\ sent < k /\ sent \in Nat
      BY <1>1
    <3> HIDE DEF n, k
    <3>2. n <= k
      BY <3>1
    <3>3. QED
      BY <3>2 DEF n, k
  <2>3. Coming(s)'
    BY <1>1, <1>3, <2>1, <2>2 DEF Coming, Settling
  <2>4. QED
    BY <2>3 DEF Agrees
<1>4. QED
  BY <1>2, <1>3

\* A handler saves what Stripe's last word made of its copy, or keeps to it.
LEMMA SavesAgree ==
  ASSUME OneHandler, Ordered, TypeOK, CopyInv, EventsInv, NEW p \in Handlers, SaveWrite(p),
         NEW s \in StripeId, signed, stripe[s] \in DOMAIN StatusOf, Agrees(s)
  PROVE  Agrees(s)'
<1>0. p \in Process /\ proc[p] \in Memory /\ \A q \in Handlers : q = p
  BY DEF Process, TypeOK, OneHandler
<1> DEFINE task == proc[p].task
<1>1. /\ proc[p].pc = "write" /\ inbox' \subseteq inbox /\ UNCHANGED stripe
      /\ inbox' = inbox \/ (task.type \in EventType \ CheckoutEvent /\ inbox' = inbox \ {task})
  BY AnswerShrinks DEF SaveWrite, events
<1>2. CopyFits(proc[p], stripe)
  BY <1>1 DEF CopyInv, Copying
<1>3. /\ row'.status = proc[p].entity.status
      /\ row'.stripeSubscriptionId = proc[p].entity.stripeSubscriptionId
  BY <1>1, <1>2, SavesEntity DEF Column
<1>4. \A q \in Handlers : proc'[q].pc \in {"idle", "count"}
  <2>1. CASE proc' = [proc EXCEPT ![p] = Idle]
    BY <1>0, <2>1, IdleIs DEF TypeOK
  <2>2. CASE Goes(p, "count")
    BY <1>0, <2>2 DEF TypeOK, Goes, Memory
  <2>3. QED
    BY <2>1, <2>2 DEF SaveWrite
<1>5. \A q \in Handlers : ~Creating(proc'[q], s)
  BY <1>4 DEF Creating
<1>6. ASSUME row'.stripeSubscriptionId = s
      PROVE  Coming(s) \/ (row.stripeSubscriptionId = s /\ Heard(s))
  <2>1. row.stripeSubscriptionId = s \/ Creating(proc[p], s)
    BY <1>2, <1>3, <1>6 DEF CopyFits
  <2>2. QED
    BY <2>1 DEF Agrees
<1>7. task.type \in EventType => task \in inbox /\ \A f \in inbox : task.n <= f.n
  BY <1>1 DEF EventsInv
<1>8. ASSUME Coming(s) PROVE Coming(s)' \/ (row'.stripeSubscriptionId = s => Heard(s)')
  <2>1. PICK w \in inbox :
          /\ w.sub = s /\ w.status = stripe[s]
          /\ w.type \in {"customer.subscription.updated", "customer.subscription.deleted"}
          /\ \A f \in inbox : f.sub = s => f.n <= w.n
    BY <1>8 DEF Coming
  <2>2. CASE w \in inbox'
    BY <1>1, <2>1, <2>2 DEF Coming
  <2>3. CASE w \notin inbox'
    <3>1. w = task /\ inbox' = inbox \ {w} /\ \A f \in inbox : w.n <= f.n
      BY <1>1, <1>7, <2>3
    <3>2. ASSUME NEW f \in inbox, f.sub = s PROVE f = w
      <4>1. f.n <= w.n /\ w.n <= f.n /\ f.n \in Nat /\ w.n \in Nat
        BY <2>1, <3>1, <3>2 DEF TypeOK, Task
      <4>2. f.n = w.n
        BY <4>1
      <4>3. QED
        BY <4>2 DEF EventsInv
    <3>3. ASSUME NEW f \in inbox, f.type = "checkout.session.completed" PROVE FALSE
      <4>1. f.n < w.n /\ w.n <= f.n /\ f.n \in Nat /\ w.n \in Nat
        BY <2>1, <3>1, <3>3 DEF EventsInv, StripeId, TypeOK, Task
      <4>2. QED
        BY <4>1
    <3>4. proc[p].entity.status = StatusOf[stripe[s]]
      <4>1. CASE w.type = "customer.subscription.updated"
        BY <1>2, <2>1, <3>1, <4>1 DEF CopyFits
      <4>2. CASE w.type = "customer.subscription.deleted"
        <5>1. stripe[s] = "canceled"
          BY <2>1, <4>2 DEF EventsInv
        <5>2. QED
          BY <1>2, <3>1, <4>2, <5>1 DEF CopyFits, StatusOf
      <4>3. QED
        BY <2>1, <4>1, <4>2
    <3>5. QED
      BY <1>1, <1>3, <3>1, <3>2, <3>3, <3>4 DEF Heard
  <2>4. QED
    BY <2>2, <2>3
<1>9. ASSUME row'.stripeSubscriptionId = s, row.stripeSubscriptionId = s, Heard(s)
      PROVE  Heard(s)'
  <2>1. row.status = StatusOf[stripe[s]]
        /\ \A f \in inbox : f.sub # s /\ f.type # "checkout.session.completed"
    BY <1>9 DEF Heard
  <2>2. task.type \notin EventType \ CheckoutEvent
    BY <1>2, <1>7, <1>9, <2>1 DEF CopyFits
  <2>3. task.type # "checkout.session.completed"
    BY <1>7, <2>1 DEF EventType, CheckoutEvent
  <2>4. task.type # "activate"
    BY <1>2, <2>1 DEF CopyFits, StatusOf
  <2>5. proc[p].entity.status = row.status
    <3>1. CASE task.type \in {"payment_intent.payment_failed", "cancelAtPeriodEnd"}
      BY <1>2, <3>1 DEF CopyFits
    <3>2. CASE task.type = "cancelNow"
      <4>1. stripe[s] = "canceled" /\ proc[p].entity.status = "cancelled"
        BY <1>1, <1>2, <1>3, <1>9, <3>2 DEF CopyFits, StripeId
      <4>2. QED
        BY <2>1, <4>1 DEF StatusOf
    <3>3. QED
      BY <1>2, <2>2, <2>3, <2>4, <3>1, <3>2 DEF CopyFits, CheckoutEvent
  <2>6. QED
    BY <1>1, <1>3, <2>1, <2>5 DEF Heard
<1>10. QED
  BY <1>5, <1>6, <1>8, <1>9 DEF Agrees

\* A handler's step by which nothing but its memory changes, and that does not
\* begin to create.
LEMMA AgreesStep ==
  ASSUME OneHandler, TypeOK, AgreesInv, NEW p \in Handlers, NEW m,
         proc' = [proc EXCEPT ![p] = m], UNCHANGED <<row, stripe, inbox>>,
         \A s : Creating(m, s) => Creating(proc[p], s)
  PROVE  AgreesInv'
<1>1. proc'[p] = m /\ \A q \in Handlers : q = p
  BY OnlyOne
<1>2. ASSUME NEW s \in StripeId, stripe'[s] \in DOMAIN StatusOf PROVE Agrees(s)'
  <2>1. Agrees(s)
    BY <1>2, AgreesMeans
  <2>2. QED
    BY <1>1, <2>1, AgreesKept
<1>3. QED
  BY <1>2, AgreesMeans

LEMMA ContinueAgrees ==
  ASSUME OneHandler, Ordered, TypeOK, StagesInv, CopyInv, EventsInv, AgreesInv,
         NEW p \in Handlers, Continue(p), signed
  PROVE  AgreesInv'
<1>0. p \in Process /\ proc[p] \in Memory /\ \A q \in Handlers : q = p
  BY DEF Process, TypeOK, OneHandler
<1> USE DEF tables, atStripe, events
<1>1. CASE RetrieveIntent(p)
  <2> DEFINE m == [proc[p] EXCEPT !.pc = "load"]
  <2>1. /\ proc' = [proc EXCEPT ![p] = m] /\ m.pc = "load"
        /\ m.task = proc[p].task /\ m.entity = proc[p].entity
    BY <1>0, <1>1, GoesTo DEF RetrieveIntent
  <2> HIDE DEF m
  <2>2. UNCHANGED <<row, stripe, inbox>> /\ proc[p].pc = "intent"
    BY <1>1 DEF RetrieveIntent
  <2>3. m.task.type = "checkout.session.completed"
    BY <2>1, <2>2 DEF CopyInv, Copying, CopyFits
  <2>4. QED
    BY <2>1, <2>2, <2>3, AgreesStep DEF Creating
<1>2. CASE StripeCancel(p)
  <2> DEFINE m == [proc[p] EXCEPT !.pc = "load"]
  <2>1. /\ proc' = [proc EXCEPT ![p] = m] /\ m.task = proc[p].task
    BY <1>0, <1>2, GoesTo DEF StripeCancel
  <2> HIDE DEF m
  <2>2. proc[p].pc = "stripe" /\ proc[p].task.type # "activate" /\ UNCHANGED row
    BY <1>2 DEF StripeCancel
  <2>3. proc[p].entity.stripeSubscriptionId \in StripeId
    BY <1>0, <2>2 DEF CopyInv, Copying, CopyFits, Memory, Row
  <2>4. PICK new : \E s \in StripeId : SpeaksOf(new, s)
    BY <1>2, <2>3, CancelSpeaks
  <2>5. \A q \in Handlers : \A s : Creating(proc'[q], s) => Creating(proc[q], s)
    BY <1>0, <2>1, <2>2 DEF Creating, TypeOK
  <2>6. QED
    BY <2>2, <2>4, <2>5, SpeaksAgree
<1>3. CASE StripeRefuses(p) \/ InsertCollides(p)
  <2>1. proc' = [proc EXCEPT ![p] = Idle] /\ UNCHANGED <<row, stripe, inbox>>
    BY <1>3 DEF StripeRefuses, InsertCollides
  <2>2. QED
    BY <2>1, IdleIs, AgreesStep DEF Creating
<1>4. CASE StripeCreate(p)
  <2>1. PICK s, m :
           /\ s \in StripeId /\ stripe[s] = "none"
           /\ stripe' = [stripe EXCEPT ![s] = "incomplete"]
           /\ proc' = [proc EXCEPT ![p] = m] /\ m.pc = "load"
           /\ m.entity = [proc[p].entity EXCEPT !.stripeSubscriptionId = s]
    BY <1>0, <1>4, CreatesTo
  <2>2. UNCHANGED <<row, inbox>>
    BY <1>4 DEF StripeCreate
  <2>3. ASSUME NEW t \in StripeId, stripe'[t] \in DOMAIN StatusOf PROVE Agrees(t)'
    <3>1. t # s
      BY <2>1, <2>3 DEF TypeOK, StatusOf
    <3>2. stripe'[t] = stripe[t] /\ Agrees(t)
      BY <2>1, <2>3, <3>1, AgreesMeans DEF TypeOK
    <3>3. m.entity.stripeSubscriptionId = s
      BY <1>0, <2>1 DEF Memory, Row
    <3>4. \A q \in Handlers : ~Creating(proc'[q], t)
      BY <1>0, <2>1, <3>1, <3>3 DEF Creating, TypeOK
    <3>5. QED
      BY <2>2, <3>2, <3>4, AgreesKept
  <2>4. QED
    BY <2>3, AgreesMeans
<1>5. CASE SaveLoad(p)
  <2>1. PICK m : /\ proc' = [proc EXCEPT ![p] = m] /\ m.pc = "write"
                 /\ m.task = proc[p].task /\ m.entity = proc[p].entity
    BY <1>0, <1>5, LoadsTo
  <2>2. UNCHANGED <<row, stripe, inbox>> /\ proc[p].pc = "load"
    BY <1>5 DEF SaveLoad
  <2>3. QED
    BY <2>1, <2>2, AgreesStep DEF Creating
<1>6. CASE SaveWrite(p)
  <2>1. UNCHANGED stripe
    BY <1>6 DEF SaveWrite
  <2>2. QED
    BY <1>6, <2>1, SavesAgree, AgreesMeans
<1>7. CASE Count(p)
  <2> DEFINE m == [proc[p] EXCEPT !.pc = "insert", !.number = Len(payments) + 1]
  <2>1. proc' = [proc EXCEPT ![p] = m] /\ m.pc = "insert"
    BY <1>0, <1>7 DEF Count, TypeOK, Memory
  <2> HIDE DEF m
  <2>2. QED
    BY <1>7, <2>1, AgreesStep DEF Creating, Count
<1>8. CASE InsertPayment(p)
  <2> DEFINE task == proc[p].task
  <2>1. /\ proc' = [proc EXCEPT ![p] = Idle] /\ UNCHANGED <<row, stripe>>
        /\ proc[p].pc = "insert" /\ Answer(task)
    BY <1>8 DEF InsertPayment
  <2>2. task.type \in CheckoutEvent /\ task.type \in EventType
    BY <2>1 DEF EventsInv, EventType
  <2>3. inbox' = inbox \ {task} /\ task \in inbox /\ task.sub = 0
    BY <2>1, <2>2, AnswerShrinks DEF EventsInv
  <2> HIDE DEF task
  <2>4. ASSUME NEW s \in StripeId, stripe'[s] \in DOMAIN StatusOf PROVE Agrees(s)'
    <3>1. Agrees(s)
      BY <2>1, <2>4, AgreesMeans
    <3>2. Coming(s) => Coming(s)'
      BY <2>1, <2>3 DEF Coming, StripeId
    <3>3. Heard(s) => Heard(s)'
      BY <2>1, <2>3 DEF Heard
    <3>4. \A q \in Handlers : ~Creating(proc'[q], s)
      BY <1>0, <2>1, IdleIs DEF Creating, TypeOK
    <3>5. QED
      BY <2>1, <3>1, <3>2, <3>3, <3>4 DEF Agrees
  <2>5. QED
    BY <2>4, AgreesMeans
<1>9. QED
  BY <1>1, <1>2, <1>3, <1>4, <1>5, <1>6, <1>7, <1>8 DEF Continue

LEMMA NextAgrees ==
  ASSUME OneHandler, NoRepeats, Ordered, TypeOK, StagesInv, CopyInv, CopyInv', EventsInv,
         AgreesInv, [Next]_vars
  PROVE  AgreesInv'
<1> USE DEF tables, atStripe, events, counters
<1>1. CASE StripeStep
  <2>1. UNCHANGED <<row, proc, signed>>
    BY <1>1, StripeKeeps
  <2>2. PICK new : CheckoutTells(new) \/ \E s \in StripeId : SpeaksOf(new, s)
    BY <1>1, StripeSpeaks
  <2>3. CASE CheckoutTells(new) /\ charge = "open"
    BY <2>1, <2>3, NothingCreated DEF StagesInv, StagesHold
  <2>4. CASE CheckoutTells(new) /\ charge # "open"
    <3>1. /\ inbox' = inbox \cup new /\ UNCHANGED stripe
          /\ \A e \in new : e.sub = 0 /\ e.type # "checkout.session.completed"
      BY <2>4 DEF CheckoutTells, Tells
    <3>2. ASSUME NEW s \in StripeId, stripe'[s] \in DOMAIN StatusOf PROVE Agrees(s)'
      <4>1. \A e \in inbox' \ inbox : e.sub # s /\ e.type # "checkout.session.completed"
        BY <3>1 DEF StripeId
      <4>2. QED
        BY <2>1, <3>1, <3>2, <4>1, AgreesMeans, AgreesKept
    <3>3. QED
      BY <3>2, AgreesMeans
  <2>5. CASE \E s \in StripeId : SpeaksOf(new, s)
    BY <2>1, <2>5, SpeaksAgree
  <2>6. QED
    BY <2>2, <2>3, <2>4, <2>5
<1>2. ASSUME NEW e \in inbox, IgnoreEvent(e) PROVE AgreesInv'
  <2>1. /\ UNCHANGED <<row, stripe, proc>> /\ inbox' \subseteq inbox
        /\ e.type \in EventType => inbox' = inbox \ {e}
        /\ e.type \notin EventType => inbox' = inbox
        /\ ~Known(e) \/ e.type \in InvoiceEvent
        /\ \A q \in Handlers : proc[q].pc = "idle"
    BY <1>2, AnswerShrinks DEF IgnoreEvent, OneHandler
  <2>2. ASSUME NEW s \in StripeId, stripe'[s] \in DOMAIN StatusOf PROVE Agrees(s)'
    <3>1. Agrees(s)
      BY <2>1, <2>2, AgreesMeans
    <3>2. row.stripeSubscriptionId = s /\ Coming(s) => Coming(s)'
      BY <2>1 DEF Coming, Known, InvoiceEvent, StripeId
    <3>3. Heard(s) => Heard(s)'
      BY <2>1 DEF Heard
    <3>4. \A q \in Handlers : ~Creating(proc'[q], s)
      BY <2>1 DEF Creating
    <3>5. QED
      BY <2>1, <3>1, <3>2, <3>3, <3>4 DEF Agrees
  <2>3. QED
    BY <2>2, AgreesMeans
<1>3. CASE OpenSession \/ Continue(Creator)
  BY <1>3, CreatorSteps, CreatorFirst, NothingCreated
<1>4. ASSUME NEW p \in Handlers, NEW e \in inbox \cup answered, HandleWebhook(p, e)
      PROVE  AgreesInv'
  <2>1. UNCHANGED <<row, stripe, inbox>>
    BY <1>4, ArrivesOnce
  <2>2. PICK m : proc' = [proc EXCEPT ![p] = m] /\ m.task = e
    BY <1>4, WebhookCopies
  <2>3. e.type # "activate"
    BY <1>4, WebhookTo DEF EventType, CheckoutEvent, InvoiceEvent
  <2>4. QED
    BY <2>1, <2>2, <2>3, AgreesStep DEF Creating
<1>5. ASSUME NEW p \in Handlers, Cancel(p) PROVE AgreesInv'
  <2>1. PICK m : /\ proc' = [proc EXCEPT ![p] = m]
                 /\ m.task.type \in {"cancelNow", "cancelAtPeriodEnd"}
    BY <1>5, CancelCopies
  <2>2. UNCHANGED <<row, stripe, inbox>>
    BY <1>5 DEF Cancel, Asks
  <2>3. QED
    BY <2>1, <2>2, AgreesStep DEF Creating
<1>6. ASSUME NEW p \in Handlers, ActivateAfterContractSigned(p) PROVE AgreesInv'
  <2>1. PICK m : /\ proc' = [proc EXCEPT ![p] = m]
                 /\ m.entity.stripeSubscriptionId = row.stripeSubscriptionId
    BY <1>6, ActivateCopies
  <2>2. UNCHANGED <<row, stripe, inbox>>
    BY <1>6 DEF ActivateAfterContractSigned, Asks
  <2>3. ASSUME NEW s \in StripeId, stripe'[s] \in DOMAIN StatusOf PROVE Agrees(s)'
    <3>1. Agrees(s)
      BY <2>2, <2>3, AgreesMeans
    <3>2. \A q \in Handlers : Creating(proc'[q], s) => row'.stripeSubscriptionId = s
      BY <2>1, <2>2, OnlyOne DEF Creating
    <3>3. (Coming(s) => Coming(s)') /\ (Heard(s) => Heard(s)')
      BY <2>2 DEF Coming, Heard
    <3>4. QED
      BY <2>2, <3>1, <3>2, <3>3 DEF Agrees
  <2>4. QED
    BY <2>3, AgreesMeans
<1>7. ASSUME NEW p \in Process, Fails(p) PROVE AgreesInv'
  <2>1. proc' = [proc EXCEPT ![p] = Idle] /\ UNCHANGED <<row, stripe, inbox>>
    BY <1>7 DEF Fails
  <2>2. \A q \in Handlers : \A s : Creating(proc'[q], s) => Creating(proc[q], s)
    BY <2>1, IdleIs DEF Creating, TypeOK, Process
  <2>3. QED
    BY <2>1, <2>2, AgreesMeans, AgreesKept
<1>8. CASE UNCHANGED vars
  BY <1>8, AgreesMeans, AgreesKept DEF vars
<1>9. ASSUME NEW p \in Handlers, Continue(p) PROVE AgreesInv'
  <2>1. CASE signed
    BY <1>9, <2>1, ContinueAgrees
  <2>2. CASE ~signed
    <3>1. UNCHANGED signed
      BY <1>9 DEF Continue, RetrieveIntent, StripeCancel, StripeRefuses, StripeCreate,
         SaveLoad, SaveWrite, Count, InsertPayment, InsertCollides
    <3>2. QED
      BY <2>2, <3>1, NothingCreated
  <2>3. QED
    BY <2>1, <2>2
<1>10. QED
  BY <1>1, <1>2, <1>3, <1>4, <1>5, <1>6, <1>7, <1>8, <1>9 DEF Next, Process

\* What Stripe never collected has no events but those that say so, and a row
\* that names it is as its activation, or a later setback, left it; of what is
\* not created nobody knows.
UnpaidFits(s) ==
  /\ stripe[s] = "none" =>
       /\ row.stripeSubscriptionId # s
       /\ \A e \in inbox : e.sub # s
       /\ \A p \in Handlers : signed => ~Creating(proc[p], s)
  /\ stripe[s] \in Unpaid =>
       /\ row.stripeSubscriptionId = s => row.status \in {"active", "pending_contract"}
       /\ \A e \in inbox : e.sub = s =>
            e.type = "customer.subscription.updated" /\ e.status \in Unpaid
UnpaidInv == \A s \in StripeId : UnpaidFits(s)

LEMMA UnpaidMeans ==
  /\ UnpaidInv <=> \A s \in StripeId : UnpaidFits(s)
  /\ UnpaidInv' <=> \A s \in StripeId : UnpaidFits(s)'
BY DEF UnpaidInv, UnpaidFits

\* Nothing is at Stripe before the contract is signed.
LEMMA NothingUnpaid ==
  ASSUME StagesInv, CopyInv, EventsInv, ~signed PROVE UnpaidInv
<1>1. \A s \in StripeId : stripe[s] = "none"
  BY DEF CopyInv
<1>2. row.stripeSubscriptionId = 0
  BY DEF StagesInv, StagesHold
<1>3. \A e \in inbox : e.sub = 0
  BY DEF EventsInv
<1>4. QED
  BY <1>1, <1>2, <1>3 DEF UnpaidInv, UnpaidFits, StripeId, Unpaid

\* When nothing changes about s.
LEMMA FitsKept ==
  ASSUME NEW s \in StripeId, UnpaidFits(s), stripe'[s] = stripe[s], UNCHANGED row,
         \A q \in Handlers : signed' /\ Creating(proc'[q], s) => signed /\ Creating(proc[q], s),
         \A e \in inbox' \ inbox : e.sub # s
  PROVE  UnpaidFits(s)'
BY DEF UnpaidFits, Creating

\* Stripe does not go back to collecting nothing.
LEMMA SpeaksFits ==
  ASSUME UnpaidInv, NEW new, NEW t \in StripeId, SpeaksOf(new, t), UNCHANGED <<row, signed>>,
         \A q \in Handlers : \A s : Creating(proc'[q], s) => Creating(proc[q], s)
  PROVE  UnpaidInv'
<1>1. inbox' = inbox \cup new /\ \A e \in new : e.sub = t /\ e.status = stripe'[t]
  BY DEF SpeaksOf, Tells
<1>2. ASSUME NEW s \in StripeId PROVE UnpaidFits(s)'
  <2>1. UnpaidFits(s)
    BY UnpaidMeans
  <2>2. CASE s # t
    <3>1. stripe'[s] = stripe[s] /\ \A e \in inbox' \ inbox : e.sub # s
      BY <1>1, <2>2 DEF SpeaksOf
    <3>2. QED
      BY <2>1, <3>1, FitsKept
  <2>3. CASE s = t
    BY <1>1, <2>1, <2>3 DEF UnpaidFits, SpeaksOf
  <2>4. QED
    BY <2>2, <2>3
<1>3. QED
  BY <1>2, UnpaidMeans

\* A handler saves what keeps the status of a row that Stripe never collected for,
\* makes it active, or sets it back.
LEMMA SavesFit ==
  ASSUME TypeOK, CopyInv, EventsInv, UnpaidInv, OneHandler, NEW p \in Handlers,
         SaveWrite(p), signed
  PROVE  UnpaidInv'
<1>0. p \in Process /\ proc[p] \in Memory /\ \A q \in Handlers : q = p
  BY DEF Process, TypeOK, OneHandler
<1> DEFINE task == proc[p].task
           entity == proc[p].entity
<1>1. /\ proc[p].pc = "write" /\ inbox' \subseteq inbox /\ UNCHANGED stripe
  BY AnswerShrinks DEF SaveWrite, events
<1>2. CopyFits(proc[p], stripe)
  BY <1>1 DEF CopyInv, Copying
<1>3. /\ row'.status = entity.status
      /\ row'.stripeSubscriptionId = entity.stripeSubscriptionId
  BY <1>1, <1>2, SavesEntity DEF Column
<1>4. \A q \in Handlers : proc'[q].pc \in {"idle", "count"}
  <2>1. CASE proc' = [proc EXCEPT ![p] = Idle]
    BY <1>0, <2>1, IdleIs DEF TypeOK
  <2>2. CASE Goes(p, "count")
    BY <1>0, <2>2 DEF TypeOK, Goes, Memory
  <2>3. QED
    BY <2>1, <2>2 DEF SaveWrite
<1>5. ASSUME NEW s \in StripeId PROVE UnpaidFits(s)'
  <2>1. UnpaidFits(s)
    BY UnpaidMeans
  <2>2. \A q \in Handlers : ~Creating(proc'[q], s)
    BY <1>4 DEF Creating
  <2>3. row'.stripeSubscriptionId = s => row.stripeSubscriptionId = s \/ Creating(proc[p], s)
    BY <1>2, <1>3 DEF CopyFits
  <2>4. stripe[s] = "none" => row'.stripeSubscriptionId # s
    BY <2>1, <2>3 DEF UnpaidFits
  <2>5. ASSUME stripe[s] \in Unpaid, row'.stripeSubscriptionId = s
        PROVE  row'.status \in {"active", "pending_contract"}
    <3>1. CASE task.type = "activate"
      BY <1>2, <1>3, <3>1 DEF CopyFits
    <3>2. CASE task.type # "activate"
      <4>1. row.stripeSubscriptionId = s /\ row.status \in {"active", "pending_contract"}
        BY <2>1, <2>3, <2>5, <3>2 DEF UnpaidFits, Creating
      <4>2. CASE task.type = "cancelNow"
        <5>1. stripe[s] = "canceled"
          BY <1>1, <1>2, <1>3, <2>5, <4>2 DEF CopyFits, StripeId
        <5>2. QED
          BY <2>5, <5>1 DEF Unpaid
      <4>3. CASE task.type \in EventType \ CheckoutEvent
        <5>1. task \in inbox
          BY <1>1, <4>3 DEF EventsInv
        <5>2. task.sub = s
          BY <1>2, <4>1, <4>3 DEF CopyFits
        <5>3. task.type = "customer.subscription.updated" /\ task.status \in Unpaid
          BY <2>1, <2>5, <5>1, <5>2 DEF UnpaidFits
        <5>4. entity.status = row.status
          BY <1>2, <5>3 DEF CopyFits, Unpaid, StatusOf
        <5>5. QED
          BY <1>3, <4>1, <5>4
      <4>4. CASE task.type \in {"payment_intent.payment_failed", "cancelAtPeriodEnd"}
        BY <1>2, <1>3, <4>1, <4>4 DEF CopyFits
      <4>5. CASE task.type = "checkout.session.completed"
        BY <1>2, <1>3, <4>1, <4>5 DEF CopyFits
      <4>6. QED
        BY <1>2, <3>2, <4>2, <4>3, <4>4, <4>5 DEF CopyFits, CheckoutEvent
    <3>3. QED
      BY <3>1, <3>2
  <2>6. QED
    BY <1>1, <2>1, <2>2, <2>4, <2>5 DEF UnpaidFits
<1>6. QED
  BY <1>5, UnpaidMeans

\* A step of a process that brings no news and does not begin to create.
LEMMA UnpaidStep ==
  ASSUME UnpaidInv, UNCHANGED <<row, stripe>>, inbox' \subseteq inbox,
         \A q \in Handlers : \A s \in StripeId :
           signed' /\ Creating(proc'[q], s) => signed /\ Creating(proc[q], s)
  PROVE  UnpaidInv'
BY UnpaidMeans, FitsKept

LEMMA ContinueUnpaid ==
  ASSUME OneHandler, TypeOK, CopyInv, EventsInv, UnpaidInv,
         NEW p \in Handlers, Continue(p), signed
  PROVE  UnpaidInv'
<1>0. p \in Process /\ proc[p] \in Memory /\ \A q \in Handlers : q = p
  BY DEF Process, TypeOK, OneHandler
<1> USE DEF tables, atStripe, events
<1>a. ASSUME NEW m, proc' = [proc EXCEPT ![p] = m], UNCHANGED <<row, stripe>>,
             inbox' \subseteq inbox, \A s : Creating(m, s) => Creating(proc[p], s)
      PROVE  UnpaidInv'
  <2>1. proc'[p] = m
    BY <1>a, OnlyOne
  <2>2. QED
    BY <1>0, <1>a, <2>1, UnpaidStep
<1>1. CASE RetrieveIntent(p)
  <2> DEFINE m == [proc[p] EXCEPT !.pc = "load"]
  <2>1. /\ proc' = [proc EXCEPT ![p] = m] /\ m.task = proc[p].task
    BY <1>0, <1>1, GoesTo DEF RetrieveIntent
  <2> HIDE DEF m
  <2>2. UNCHANGED <<row, stripe, inbox>> /\ proc[p].pc = "intent"
    BY <1>1 DEF RetrieveIntent
  <2>3. m.task.type = "checkout.session.completed"
    BY <2>1, <2>2 DEF CopyInv, Copying, CopyFits
  <2>4. QED
    BY <1>a, <2>1, <2>2, <2>3 DEF Creating
<1>2. CASE StripeCancel(p)
  <2> DEFINE m == [proc[p] EXCEPT !.pc = "load"]
  <2>1. /\ proc' = [proc EXCEPT ![p] = m] /\ m.task = proc[p].task
    BY <1>0, <1>2, GoesTo DEF StripeCancel
  <2> HIDE DEF m
  <2>2. proc[p].pc = "stripe" /\ proc[p].task.type # "activate" /\ UNCHANGED <<row, signed>>
    BY <1>2 DEF StripeCancel
  <2>3. proc[p].entity.stripeSubscriptionId \in StripeId
    BY <1>0, <2>2 DEF CopyInv, Copying, CopyFits, Memory, Row
  <2>4. PICK new : \E s \in StripeId : SpeaksOf(new, s)
    BY <1>2, <2>3, CancelSpeaks
  <2>5. \A q \in Handlers : \A s : Creating(proc'[q], s) => Creating(proc[q], s)
    BY <1>0, <2>1, <2>2 DEF Creating, TypeOK
  <2>6. QED
    BY <2>2, <2>4, <2>5, SpeaksFits
<1>3. CASE StripeRefuses(p) \/ InsertCollides(p) \/ InsertPayment(p)
  <2>1. proc' = [proc EXCEPT ![p] = Idle] /\ UNCHANGED <<row, stripe>> /\ inbox' \subseteq inbox
    BY <1>3, AnswerShrinks DEF StripeRefuses, InsertCollides, InsertPayment
  <2>2. QED
    BY <1>a, <2>1, IdleIs DEF Creating
<1>4. CASE StripeCreate(p)
  <2>1. PICK s, m :
           /\ s \in StripeId /\ stripe[s] = "none"
           /\ stripe' = [stripe EXCEPT ![s] = "incomplete"]
           /\ proc' = [proc EXCEPT ![p] = m] /\ m.pc = "load"
           /\ m.entity = [proc[p].entity EXCEPT !.stripeSubscriptionId = s]
    BY <1>0, <1>4, CreatesTo
  <2>2. UNCHANGED <<row, inbox>>
    BY <1>4 DEF StripeCreate
  <2>3. m.entity.stripeSubscriptionId = s
    BY <1>0, <2>1 DEF Memory, Row
  <2>4. ASSUME NEW t \in StripeId, t # s PROVE UnpaidFits(t)'
    <3>1. stripe'[t] = stripe[t] /\ UnpaidFits(t)
      BY <2>1, <2>4, UnpaidMeans DEF TypeOK
    <3>2. \A q \in Handlers : ~Creating(proc'[q], t)
      BY <1>0, <2>1, <2>3, <2>4 DEF Creating, TypeOK
    <3>3. QED
      BY <2>2, <3>1, <3>2, FitsKept
  <2>5. UnpaidFits(s)'
    <3>1. stripe'[s] = "incomplete" /\ UnpaidFits(s)
      BY <2>1, UnpaidMeans DEF TypeOK
    <3>2. QED
      BY <2>1, <2>2, <3>1 DEF UnpaidFits
  <2>6. QED
    BY <2>4, <2>5, UnpaidMeans
<1>5. CASE SaveLoad(p)
  <2>1. PICK m : /\ proc' = [proc EXCEPT ![p] = m] /\ m.pc = "write"
                 /\ m.task = proc[p].task /\ m.entity = proc[p].entity
    BY <1>0, <1>5, LoadsTo
  <2>2. UNCHANGED <<row, stripe, inbox>> /\ proc[p].pc = "load"
    BY <1>5 DEF SaveLoad
  <2>3. QED
    BY <1>a, <2>1, <2>2 DEF Creating
<1>6. CASE SaveWrite(p)
  BY <1>6, SavesFit
<1>7. CASE Count(p)
  <2> DEFINE m == [proc[p] EXCEPT !.pc = "insert", !.number = Len(payments) + 1]
  <2>1. proc' = [proc EXCEPT ![p] = m] /\ m.pc = "insert"
    BY <1>0, <1>7 DEF Count, TypeOK, Memory
  <2> HIDE DEF m
  <2>2. QED
    BY <1>7, <1>a, <2>1 DEF Creating, Count
<1>8. QED
  BY <1>1, <1>2, <1>3, <1>4, <1>5, <1>6, <1>7 DEF Continue

LEMMA NextUnpaid ==
  ASSUME OneHandler, NoRepeats, TypeOK, StagesInv, StagesInv', CopyInv, CopyInv',
         EventsInv, EventsInv', UnpaidInv, [Next]_vars
  PROVE  UnpaidInv'
<1> USE DEF tables, atStripe, events, counters
<1>0. ~signed' => UnpaidInv'
  BY NothingUnpaid, PTL
<1>1. CASE StripeStep
  <2>1. UNCHANGED <<row, proc, signed>>
    BY <1>1, StripeKeeps
  <2>2. PICK new : CheckoutTells(new) \/ \E s \in StripeId : SpeaksOf(new, s)
    BY <1>1, StripeSpeaks
  <2>3. CASE CheckoutTells(new)
    <3>1. inbox' = inbox \cup new /\ UNCHANGED stripe /\ \A e \in new : e.sub = 0
      BY <2>3 DEF CheckoutTells, Tells
    <3>2. ASSUME NEW s \in StripeId PROVE UnpaidFits(s)'
      BY <2>1, <3>1, UnpaidMeans, FitsKept DEF StripeId
    <3>3. QED
      BY <3>2, UnpaidMeans
  <2>4. CASE \E s \in StripeId : SpeaksOf(new, s)
    BY <2>1, <2>4, SpeaksFits
  <2>5. QED
    BY <2>2, <2>3, <2>4
<1>2. ASSUME NEW e \in inbox, IgnoreEvent(e) PROVE UnpaidInv'
  BY <1>2, AnswerShrinks, UnpaidStep DEF IgnoreEvent
<1>3. CASE OpenSession \/ Continue(Creator)
  BY <1>0, <1>3, CreatorSteps, CreatorFirst
<1>4. ASSUME NEW p \in Handlers, NEW e \in inbox \cup answered, HandleWebhook(p, e)
      PROVE  UnpaidInv'
  <2>1. UNCHANGED <<row, stripe, inbox>>
    BY <1>4, ArrivesOnce
  <2>2. PICK m : proc' = [proc EXCEPT ![p] = m] /\ m.task = e
    BY <1>4, WebhookCopies
  <2>3. e.type # "activate"
    BY <1>4, WebhookTo DEF EventType, CheckoutEvent, InvoiceEvent
  <2>4. \A q \in Handlers : \A s : ~Creating(proc'[q], s)
    BY <2>2, <2>3, OnlyOne DEF Creating
  <2>5. QED
    BY <2>1, <2>4, UnpaidStep
<1>5. ASSUME NEW p \in Handlers, Cancel(p) PROVE UnpaidInv'
  <2>1. PICK m : /\ proc' = [proc EXCEPT ![p] = m]
                 /\ m.task.type \in {"cancelNow", "cancelAtPeriodEnd"}
    BY <1>5, CancelCopies
  <2>2. UNCHANGED <<row, stripe, inbox>>
    BY <1>5 DEF Cancel, Asks
  <2>3. \A q \in Handlers : \A s : ~Creating(proc'[q], s)
    BY <2>1, OnlyOne DEF Creating
  <2>4. QED
    BY <2>2, <2>3, UnpaidStep
<1>6. ASSUME NEW p \in Handlers, ActivateAfterContractSigned(p) PROVE UnpaidInv'
  <2>1. PICK m : /\ proc' = [proc EXCEPT ![p] = m]
                 /\ m.entity.stripeSubscriptionId = row.stripeSubscriptionId
    BY <1>6, ActivateCopies
  <2>2. UNCHANGED <<row, stripe, inbox>>
    BY <1>6 DEF ActivateAfterContractSigned, Asks
  <2>3. ASSUME NEW s \in StripeId PROVE UnpaidFits(s)'
    <3>1. \A q \in Handlers : Creating(proc'[q], s) => row.stripeSubscriptionId = s
      BY <2>1, OnlyOne DEF Creating
    <3>2. UnpaidFits(s)
      BY UnpaidMeans
    <3>3. QED
      BY <2>2, <3>1, <3>2 DEF UnpaidFits
  <2>4. QED
    BY <2>3, UnpaidMeans
<1>7. ASSUME NEW p \in Process, Fails(p) PROVE UnpaidInv'
  <2>1. proc' = [proc EXCEPT ![p] = Idle] /\ UNCHANGED <<row, stripe, inbox, signed>>
    BY <1>7 DEF Fails
  <2>2. \A q \in Handlers : \A s : Creating(proc'[q], s) => Creating(proc[q], s)
    BY <2>1, IdleIs DEF Creating, TypeOK, Process
  <2>3. QED
    BY <2>1, <2>2, UnpaidStep
<1>8. CASE UNCHANGED vars
  BY <1>8, UnpaidStep DEF vars
<1>9. ASSUME NEW p \in Handlers, Continue(p) PROVE UnpaidInv'
  <2>1. UNCHANGED signed
    BY <1>9 DEF Continue, RetrieveIntent, StripeCancel, StripeRefuses, StripeCreate,
       SaveLoad, SaveWrite, Count, InsertPayment, InsertCollides
  <2>2. QED
    BY <1>0, <1>9, <2>1, ContinueUnpaid
<1>10. QED
  BY <1>1, <1>2, <1>3, <1>4, <1>5, <1>6, <1>7, <1>8, <1>9 DEF Next, Process

\* One request or webhook at a time, if Stripe's events arrive in order and none is
\* repeated after its answer, the row shows the status of its subscription at Stripe
\* once they are all answered (handleSubscriptionUpdated, handleSubscriptionDeleted,
\* subscriptions.service.ts:401, :441), whatever failed on the way.  A subscription
\* that Stripe never collected, for which there is no case (:413), shows as active,
\* or as waiting for its contract.
THEOREM AlwaysFollowsStripe ==
  ASSUME OneHandler, NoRepeats, Ordered PROVE Spec => []FollowsStripe
<1>1. Init => AgreesInv
  <2> SUFFICES ASSUME Init PROVE AgreesInv
    OBVIOUS
  <2>1. \A s \in StripeId : stripe[s] \notin DOMAIN StatusOf
    BY DEF Init, StatusOf
  <2>2. QED
    BY <2>1 DEF AgreesInv
<1>2. Init => UnpaidInv
  <2> SUFFICES ASSUME Init PROVE UnpaidInv
    OBVIOUS
  <2>1. ~signed
    BY DEF Init
  <2>2. QED
    BY <2>1, InitStages, InitCopy, InitEvents, NothingUnpaid
<1>3. TypeOK /\ AgreesInv /\ UnpaidInv => FollowsStripe
  <2> SUFFICES ASSUME TypeOK, AgreesInv, UnpaidInv, Quiet, inbox = {},
                      row.stripeSubscriptionId # 0
               PROVE  row.status \in Shown(stripe[row.stripeSubscriptionId])
    BY DEF FollowsStripe
  <2> DEFINE s == row.stripeSubscriptionId
  <2>1. s \in StripeId /\ stripe[s] \in StripeStatus
    BY DEF TypeOK, Row
  <2>2. stripe[s] \in DOMAIN StatusOf => row.status = StatusOf[stripe[s]]
    BY <2>1 DEF AgreesInv, Coming, Heard
  <2>3. /\ stripe[s] # "none"
        /\ stripe[s] \in Unpaid => row.status \in {"active", "pending_contract"}
    BY <2>1 DEF UnpaidInv, UnpaidFits
  <2>4. stripe[s] \in DOMAIN StatusOf \/ stripe[s] \in Unpaid
    BY <2>1, <2>3 DEF StripeStatus, StatusOf, Unpaid
  <2>5. stripe[s] \in Unpaid => stripe[s] \notin DOMAIN StatusOf
    BY DEF Unpaid, StatusOf
  <2>6. QED
    BY <2>2, <2>3, <2>4, <2>5 DEF Shown
<1>4. QED
  BY <1>1, <1>2, <1>3, InitStages, InitCopy, InitEvents, TypeCorrect, NextStages,
     NextCopy, NextEvents, NextAgrees, NextUnpaid, PTL DEF Spec

=============================================================================
