---------------------------- MODULE SaleWorkflow ----------------------------
(***************************************************************************)
(* The scheduled action that takes sale orders through a workflow           *)
(* (sale_automatic_workflow): confirm and mail them, invoice them, post the *)
(* invoices, lock the orders, register payments.  It is one transaction; a  *)
(* record that fails is rolled back to a savepoint and left for the next    *)
(* run.  Users work on the same orders meanwhile: a row they wrote since    *)
(* the action began cannot be written by it, and rows it has written make   *)
(* users wait for its end.                                                  *)
(***************************************************************************)
EXTENDS Integers, SequencesExt

CONSTANTS
  Orders,    \* orders that have the workflow
  Copies,    \* bound: invoices of an order
  Steps,     \* the options of the workflow that are on
  Filters,   \* filters for payments: the one that is shipped, or one that administrators
             \* wrote and that does not look at what was paid
  MaxUsers,  \* bound: what users do
  MaxFaults  \* bound: failures of records and crashes

AllSteps == <<"validate_order", "create_invoice", "validate_invoice", "sale_done",
              "register_payment">>

ASSUME WorkflowAssumption ==
  /\ Copies \in Nat
  /\ Orders \cap (Orders \X (1..Copies)) = {}   \* rows of two tables
  /\ Steps \subseteq ToSet(AllSteps)
  /\ Filters \subseteq {"shipped", "posted"}
  /\ MaxUsers \in Nat /\ MaxFaults \in Nat

Invoices == Orders \X (1..Copies)
Rows == Orders \cup Invoices
OrderOf(x) == IF x \in Orders THEN x ELSE x[1]

VARIABLES
  order,    \* [o |-> state, locked]
  invoice,  \* [i |-> state, posted_before, amount_residual, number of payments]
  filter,   \* the filter for payments
  broken,   \* orders for which every step raises (say, their customer has no mail address)
  run,      \* the transaction of the scheduled action
  users, faults

vars == <<order, invoice, filter, broken, run, users, faults>>

\* What an invoice is for: users can pay it in part.
Amount == 2

Idle == [on |-> FALSE]
NoInvoice == [state |-> "none", before |-> FALSE, open |-> 0, payments |-> 0]

Init ==
  /\ order = [o \in Orders |-> [state |-> "draft", locked |-> FALSE]]
  /\ invoice = [i \in Invoices |-> NoInvoice]
  /\ filter \in Filters
  /\ broken \in SUBSET Orders
  /\ run = Idle
  /\ users = 0 /\ faults = 0

-----------------------------------------------------------------------------
\* What the database, or the snapshot of the scheduled action, shows.

InvoicesOf(inv, o) == {i \in Invoices : i[1] = o /\ inv[i].state \in {"draft", "posted"}}
Confirmed(ord, o) == ord[o].state = "sale" /\ ~ord[o].locked
ToInvoice(inv, o) == InvoicesOf(inv, o) = {}

\* Is nothing paid of an invoice (payment_state = "not_paid")?
NotPaid(inv, i) == inv[i].open = Amount

\* The records that the filter of a step finds (automatic_workflow_data.xml).
Matching(step, ord, inv) ==
  CASE step = "validate_order"   -> {o \in Orders : ord[o].state = "draft"}
    [] step = "create_invoice"   -> {o \in Orders : Confirmed(ord, o) /\ ToInvoice(inv, o)}
    [] step = "validate_invoice" -> {i \in Invoices : inv[i].state = "draft" /\ ~inv[i].before}
    [] step = "sale_done"        -> {o \in Orders : Confirmed(ord, o) /\ ~ToInvoice(inv, o)}
    [] step = "register_payment" ->
         {i \in Invoices : inv[i].state = "posted" /\ (filter = "posted" \/ NotPaid(inv, i))}

\* The invoice that is created next for an order.
NewInvoices(inv, o) ==
  LET free == {n \in 1..Copies : inv[<<o, n>>].state = "none"}
  IN  {<<o, n>> : n \in {m \in free : \A k \in free : m <= k}}

Draft == [state |-> "draft", before |-> FALSE, open |-> Amount, payments |-> 0]

\* _register_payment_invoice: what is left to pay, and never a payment that settles
\* nothing.
RegisterPayment(i, inv) ==
  IF inv[i].open = 0 THEN inv
  ELSE [inv EXCEPT ![i].open = 0, ![i].payments = @ + 1]

-----------------------------------------------------------------------------
\* The scheduled action.

\* Index of the first step from n on that the workflow has, or one past the last.
NextStep(n) ==
  LET on == {k \in n..Len(AllSteps) : AllSteps[k] \in Steps} \cup {Len(AllSteps) + 1}
  IN  CHOOSE k \in on : \A j \in on : k <= j

\* The run at the beginning of a step: it searches the records of the step.
AtStep(r, n) ==
  [r EXCEPT !.step = n,
            !.todo = IF n > Len(AllSteps) THEN {}
                     ELSE Matching(AllSteps[n], r.order, r.invoice)]

Start ==
  /\ ~run.on
  /\ LET fresh == [on |-> TRUE, step |-> 0, todo |-> {}, order |-> order,
                   invoice |-> invoice, wrote |-> {}, stale |-> {}]
     IN  run' = AtStep(fresh, NextStep(1))
  /\ UNCHANGED <<order, invoice, filter, broken, users, faults>>

EndStep ==
  /\ run.on /\ run.step <= Len(AllSteps) /\ run.todo = {}
  /\ run' = AtStep(run, NextStep(run.step + 1))
  /\ UNCHANGED <<order, invoice, filter, broken, users, faults>>

\* Runs after a step was done on record x, the rows it writes added.  (The mail that
\* confirms an order is made in the savepoint in which the order is confirmed.)
DoneOn(x, r) ==
  CASE AllSteps[r.step] = "validate_order" ->
         {[r EXCEPT !.order[x].state = "sale", !.wrote = @ \cup {x}]}
    [] AllSteps[r.step] = "create_invoice" ->
         {[r EXCEPT !.invoice[i] = Draft, !.wrote = @ \cup {x, i}] :
            i \in NewInvoices(r.invoice, x)}
    [] AllSteps[r.step] = "validate_invoice" ->
         {[r EXCEPT !.invoice[x] = [@ EXCEPT !.state = "posted", !.before = TRUE],
                    !.wrote = @ \cup {x}]}
    [] AllSteps[r.step] = "sale_done" ->
         {[r EXCEPT !.order[x].locked = TRUE, !.wrote = @ \cup {x}]}
    [] AllSteps[r.step] = "register_payment" ->
         LET paid == RegisterPayment(x, r.invoice)
         IN  {[r EXCEPT !.invoice = paid,
                        !.wrote = IF paid = r.invoice THEN @ ELSE @ \cup {x}]}

\* MUTANT: a row that users wrote meanwhile is written over.
DoRecordStale(x) ==
  /\ run.on /\ x \in run.todo
  /\ run' \in {[r EXCEPT !.todo = @ \ {x}] : r \in DoneOn(x, run)}
  /\ UNCHANGED <<order, invoice, filter, broken, users, faults>>

\* A record is taken through the step.  (Its filter is looked at once more; in the
\* snapshot, no record of a step changes what another one matches.)
DoRecord(x) ==
  /\ run.on /\ x \in run.todo
  /\ run' \in {[r EXCEPT !.todo = @ \ {x}] : r \in DoneOn(x, run)}
  /\ run'.wrote \cap run.stale = {} /\ OrderOf(x) \notin broken
  /\ UNCHANGED <<order, invoice, filter, broken, users, faults>>

\* Something fails for record x: now (a fault), always, or since users wrote a row of it.
Fails(x) ==
  /\ run.on /\ x \in run.todo
  /\ IF OrderOf(x) \notin broken /\ \E r \in DoneOn(x, run) : r.wrote \cap run.stale = {}
     THEN faults < MaxFaults /\ faults' = faults + 1
     ELSE faults' = faults

\* MUTANT: the exception ends the transaction.
FailRecordAndStop(x) ==
  /\ Fails(x)
  /\ run' = Idle
  /\ UNCHANGED <<order, invoice, filter, broken, users>>

\* The savepoint is rolled back, the error logged, and the others go on.
FailRecord(x) ==
  /\ Fails(x)
  /\ run' = [run EXCEPT !.todo = @ \ {x}]
  /\ UNCHANGED <<order, invoice, filter, broken, users>>

Commit ==
  /\ run.on /\ run.step > Len(AllSteps)
  /\ order' = [o \in Orders |-> IF o \in run.wrote THEN run.order[o] ELSE order[o]]
  /\ invoice' = [i \in Invoices |-> IF i \in run.wrote THEN run.invoice[i] ELSE invoice[i]]
  /\ run' = Idle
  /\ UNCHANGED <<filter, broken, users, faults>>

Crash ==
  /\ run.on /\ faults < MaxFaults
  /\ faults' = faults + 1
  /\ run' = Idle
  /\ UNCHANGED <<order, invoice, filter, broken, users>>

-----------------------------------------------------------------------------
\* Users.  Each of their transactions writes rows.

UserWrites(rows) ==
  /\ users < MaxUsers /\ users' = users + 1
  /\ run.on => run.wrote \cap rows = {}
  /\ run' = IF run.on THEN [run EXCEPT !.stale = @ \cup rows] ELSE run
  /\ UNCHANGED <<filter, broken, faults>>

\* A quotation that was sent to the customer waits for the answer: the filter of the
\* first step does not find it.
SendQuotation(o) ==
  /\ order[o].state = "draft"
  /\ UserWrites({o})
  /\ order' = [order EXCEPT ![o].state = "sent"]
  /\ UNCHANGED invoice

ConfirmByHand(o) ==
  /\ order[o].state \in {"draft", "sent"}
  /\ UserWrites({o})
  /\ order' = [order EXCEPT ![o].state = "sale"]
  /\ UNCHANGED invoice

\* An order that is not locked is cancelled, with its draft invoices.
CancelOrder(o) ==
  /\ order[o].state \in {"draft", "sent", "sale"} /\ ~order[o].locked
  /\ LET drafts == {i \in InvoicesOf(invoice, o) : invoice[i].state = "draft"}
     IN  /\ UserWrites({o} \cup drafts)
         /\ invoice' = [i \in Invoices |->
                         IF i \in drafts THEN [invoice[i] EXCEPT !.state = "cancel"]
                         ELSE invoice[i]]
  /\ order' = [order EXCEPT ![o].state = "cancel"]

InvoiceByHand(o) ==
  /\ order[o].state = "sale" /\ ToInvoice(invoice, o)
  /\ \E i \in NewInvoices(invoice, o) :
       /\ UserWrites({o, i})
       /\ invoice' = [invoice EXCEPT ![i] = Draft]
  /\ UNCHANGED order

PostByHand(i) ==
  /\ invoice[i].state = "draft"
  /\ UserWrites({i})
  /\ invoice' = [invoice EXCEPT ![i] = [@ EXCEPT !.state = "posted", !.before = TRUE]]
  /\ UNCHANGED order

\* An invoice of which nothing is paid is set to draft again, or cancelled.
ResetInvoice(i) ==
  /\ invoice[i].state = "posted" /\ NotPaid(invoice, i)
  /\ UserWrites({i})
  /\ invoice' = [invoice EXCEPT ![i].state = "draft"]
  /\ UNCHANGED order

CancelInvoice(i) ==
  /\ invoice[i].state = "draft"
  /\ UserWrites({i, i[1]})
  /\ invoice' = [invoice EXCEPT ![i].state = "cancel"]
  /\ UNCHANGED order

\* All of what is left to pay, or a part of it.
PayByHand(i) ==
  /\ invoice[i].state = "posted"
  /\ UserWrites({i})
  /\ \E left \in 0..(invoice[i].open - 1) :
       invoice' = [invoice EXCEPT ![i].open = left, ![i].payments = @ + 1]
  /\ UNCHANGED order

Action == Start \/ EndStep \/ Commit \/ \E x \in Rows : DoRecord(x) \/ FailRecord(x)

Next ==
  \/ Action \/ Crash
  \/ \E o \in Orders :
       SendQuotation(o) \/ ConfirmByHand(o) \/ CancelOrder(o) \/ InvoiceByHand(o)
  \/ \E i \in Invoices :
       PostByHand(i) \/ ResetInvoice(i) \/ CancelInvoice(i) \/ PayByHand(i)

\* The scheduled action runs every minute; once begun it goes on.
Spec == Init /\ [][Next]_vars /\ WF_vars(Action)

-----------------------------------------------------------------------------
\* An order has one invoice at most that is not cancelled ("filter ensure no
\* duplication"), though users invoice it while the scheduled action does; and every
\* payment of an invoice settles a part of it, whatever filter administrators write
\* and however much users paid meanwhile (the comment of _register_payment_invoice:
\* else a payment is created on every run, for ever).
StepsDoneOnce ==
  /\ \A o \in Orders : Cardinality(InvoicesOf(invoice, o)) <= 1
  /\ \A i \in Invoices : invoice[i].payments + invoice[i].open <= Amount

\* The invoice of an order is left to users, for no filter finds it again: they set it
\* to draft, or they paid a part of it and the filter is the one that is shipped.
LeftToUsers(i) ==
  \/ invoice[i].state = "draft" /\ invoice[i].before
  \/ invoice[i].state = "posted" /\ filter = "shipped" /\ ~NotPaid(invoice, i)

\* The workflow is over for an order: it is cancelled, or a quotation that was sent and
\* not confirmed, or it is locked and its invoice posted and paid or left to users.
Complete(o) ==
  \/ order[o].state \in {"cancel", "sent"}
  \/ /\ order[o].locked
     /\ \A i \in InvoicesOf(invoice, o) :
          LeftToUsers(i) \/ (invoice[i].state = "posted" /\ invoice[i].open = 0)

\* Every order gets to its end, though its steps fail and the action crashes a few times,
\* users interfere, and other orders fail on every run.
EveryOrderCompletes == <>[](\A o \in Orders \ broken : Complete(o))
=============================================================================
