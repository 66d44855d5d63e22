-------------------------- MODULE SaleWorkflowProofs --------------------------
(***************************************************************************)
(* Proofs about SaleWorkflow, for any number of orders and of invoices,    *)
(* any options of the workflow, and any bounds.                            *)
(***************************************************************************)
EXTENDS SaleWorkflow, FiniteSetTheorems, TLAPS

-----------------------------------------------------------------------------
(* Induction, with a set in the place of a predicate *)

\* A set of numbers that is not empty has a least one.
LEMMA NatLeast ==
  ASSUME NEW T \in SUBSET Nat, T # {}
  PROVE  \E n \in T : \A m \in T : n <= m
<1>1. \A x, y \in Nat : y < x => <<y, x>> \in OpToRel(<, Nat)
  BY DEF OpToRel
<1>2. PICK n \in T : \A m \in T : ~(<<m, n>> \in OpToRel(<, Nat))
  BY NatLessThanWellFounded, WFMin
<1>3. \A m \in T : m \in Nat /\ n \in Nat
  OBVIOUS
<1>4. \A m \in T : ~(m < n)
  BY <1>1, <1>2, <1>3, Zenon
<1> QED
  BY <1>3, <1>4

-----------------------------------------------------------------------------

(***************************************************************************)
(* The inductive invariant.  The scheduled action decides on a snapshot,   *)
(* and only the rows it writes are checked when it writes them: that no    *)
(* order gets two invoices depends on both who invoice, and who cancel an  *)
(* invoice, writing the order's row too.                                   *)
(***************************************************************************)

OrderRecs == [state: {"draft", "sent", "sale", "cancel"}, locked: BOOLEAN]
InvoiceRecs == [state: {"none", "draft", "posted", "cancel"}, before: BOOLEAN,
                open: 0..Amount, payments: 0..Amount]
Runs == [on: {TRUE}, step: 0..6, todo: SUBSET Rows, order: [Orders -> OrderRecs],
         invoice: [Invoices -> InvoiceRecs], wrote: SUBSET Rows, stale: SUBSET Rows]

Types ==
  /\ order \in [Orders -> OrderRecs]
  /\ invoice \in [Invoices -> InvoiceRecs]
  /\ run \in {Idle} \cup Runs

Live(inv, i) == inv[i].state \in {"draft", "posted"}

\* What is so in the table and in the snapshot of the action.
OneLive(inv) ==
  \A i, k \in Invoices : Live(inv, i) /\ Live(inv, k) /\ i[1] = k[1] => i = k
EachSettles(inv) == \A i \in Invoices : inv[i].payments + inv[i].open <= Amount
Right(inv) == OneLive(inv) /\ EachSettles(inv)

\* The snapshot differs from the table in the rows that one of the two sides wrote;
\* none were written by both.
SnapshotInv ==
  /\ run.wrote \cap run.stale = {}
  /\ \A o \in Orders : o \notin run.wrote \cup run.stale => run.order[o] = order[o]
  /\ \A i \in Invoices : i \notin run.wrote \cup run.stale => run.invoice[i] = invoice[i]

\* Who gives an order an invoice writes the order's row: users ...
ByHandWritesOrder ==
  \A i \in Invoices :
    i \notin run.wrote /\ Live(invoice, i) /\ ~Live(run.invoice, i) => i[1] \in run.stale

\* ... and the action.
ActionWritesOrder ==
  \A i \in Invoices :
    i \in run.wrote /\ Live(run.invoice, i) /\ ~Live(invoice, i) => i[1] \in run.wrote

\* The records that are left in a step are still ones of the step.
TodoInv ==
  /\ run.step \in 1..6
  /\ IF run.step > Len(AllSteps) THEN run.todo = {}
     ELSE run.todo \subseteq Matching(AllSteps[run.step], run.order, run.invoice)

RunInv ==
  run.on => /\ Right(run.invoice)
            /\ SnapshotInv /\ ByHandWritesOrder /\ ActionWritesOrder /\ TodoInv

IInv == Types /\ Right(invoice) /\ RunInv

\* The steps of an automatic workflow.
LEMMA FiveSteps == Len(AllSteps) = 5
BY DEF AllSteps

\* A row is of one table only.
LEMMA TwoTables ==
  /\ Rows = Orders \cup Invoices /\ Orders \cap Invoices = {}
  /\ \A i \in Invoices : i[1] \in Orders
BY WorkflowAssumption DEF Rows, Invoices

\* The invariant holds of new orders.
LEMMA InitIInv == Init => IInv
<1> SUFFICES ASSUME Init PROVE IInv
  OBVIOUS
<1>1. Types
  BY DEF Init, Types, OrderRecs, InvoiceRecs, NoInvoice, Amount
<1>2. Right(invoice)
  BY DEF Init, Right, OneLive, EachSettles, Live, NoInvoice, Amount
<1>3. ~run.on
  BY DEF Init, Idle
<1> QED
  BY <1>1, <1>2, <1>3 DEF IInv, RunInv

-----------------------------------------------------------------------------
\* The scheduled action goes from step to step.

\* The step to go on with is one of them, or the end.
LEMMA NextStepIsOne ==
  ASSUME NEW n \in 1..6
  PROVE  NextStep(n) \in n..6
<1> DEFINE on == {k \in n..Len(AllSteps) : AllSteps[k] \in Steps} \cup {Len(AllSteps) + 1}
<1>1. on \in SUBSET Nat /\ on # {} /\ on \subseteq n..6
  BY FiveSteps
<1>2. PICK k \in on : \A j \in on : k <= j
  BY <1>1, NatLeast
<1>3. NextStep(n) = CHOOSE m \in on : \A j \in on : m <= j
  BY DEF NextStep
<1> HIDE DEF on
<1>4. NextStep(n) \in on
  BY <1>2, <1>3
<1> QED
  BY <1>1, <1>4

\* At the beginning of a step its records are searched; all else stays.
LEMMA AtStepKeeps ==
  ASSUME NEW r \in Runs, NEW n \in 1..6
  PROVE  LET q == AtStep(r, n) IN
         /\ q \in Runs
         /\ q.step = n /\ q.order = r.order /\ q.invoice = r.invoice
         /\ q.wrote = r.wrote /\ q.stale = r.stale
         /\ IF n > Len(AllSteps) THEN q.todo = {}
            ELSE q.todo = Matching(AllSteps[n], r.order, r.invoice)
<1> DEFINE todo == IF n > Len(AllSteps) THEN {}
                   ELSE Matching(AllSteps[n], r.order, r.invoice)
<1>1. todo \subseteq Rows
  <2>1. CASE n > Len(AllSteps)
    BY <2>1
  <2>2. CASE n <= Len(AllSteps)
    <3>1. AllSteps[n] \in {"validate_order", "create_invoice", "validate_invoice", "sale_done",
                           "register_payment"}
      BY <2>2, FiveSteps DEF AllSteps
    <3> QED
      BY <2>2, <3>1, FiveSteps DEF Matching, Rows
  <2> QED
    BY <2>1, <2>2, FiveSteps
<1>2. AtStep(r, n) = [r EXCEPT !.step = n, !.todo = todo]
  BY DEF AtStep
<1> HIDE DEF todo
<1>3. AtStep(r, n) \in Runs
  <2>1. n \in 0..6
    OBVIOUS
  <2>2. \A m \in 0..6, t \in SUBSET Rows : [r EXCEPT !.step = m, !.todo = t] \in Runs
    BY DEF Runs
  <2> QED
    BY <1>1, <1>2, <2>1, <2>2
<1> QED
  BY <1>2, <1>3 DEF Runs, todo

\* The scheduled action starts with what is in the tables.
LEMMA StartStep == IInv /\ Start => IInv'
<1> SUFFICES ASSUME IInv, Start PROVE IInv'
  OBVIOUS
<1> DEFINE fresh == [on |-> TRUE, step |-> 0, todo |-> {}, order |-> order,
                     invoice |-> invoice, wrote |-> {}, stale |-> {}]
<1>1. fresh \in Runs
  BY DEF IInv, Types, Runs
<1>2. NextStep(1) \in 1..6
  BY NextStepIsOne
<1>3. run' = AtStep(fresh, NextStep(1))
  BY DEF Start, AtStep
<1>4. /\ run' \in Runs /\ run'.step = NextStep(1)
      /\ run'.order = order /\ run'.invoice = invoice
      /\ run'.wrote = {} /\ run'.stale = {}
      /\ IF NextStep(1) > Len(AllSteps) THEN run'.todo = {}
         ELSE run'.todo = Matching(AllSteps[NextStep(1)], order, invoice)
  BY <1>1, <1>2, <1>3, AtStepKeeps
<1>5. order' = order /\ invoice' = invoice /\ filter' = filter
  BY DEF Start
<1>6. Types' /\ Right(invoice)'
  BY <1>4, <1>5 DEF IInv, Types, Right, OneLive, EachSettles, Live
<1>7. TodoInv'
  BY <1>2, <1>4, <1>5 DEF TodoInv, Matching, NotPaid, ToInvoice, InvoicesOf, Confirmed
<1>8. RunInv'
  BY <1>4, <1>5, <1>6, <1>7 DEF RunInv, SnapshotInv, ByHandWritesOrder, ActionWritesOrder
<1> QED
  BY <1>6, <1>8 DEF IInv

\* It goes on to its next step.
LEMMA EndStepStep == IInv /\ EndStep => IInv'
<1> SUFFICES ASSUME IInv, EndStep PROVE IInv'
  OBVIOUS
<1> DEFINE n == NextStep(run.step + 1)
<1>1. run \in Runs
  BY DEF IInv, Types, EndStep, Idle
<1>2. RunInv /\ run.on /\ SnapshotInv /\ run.step \in 1..5
  BY FiveSteps DEF IInv, EndStep, RunInv, TodoInv
<1>3. n \in 1..6
  BY <1>2, NextStepIsOne
<1>4. run' = AtStep(run, n)
  BY DEF EndStep
<1>5. /\ order' = order /\ invoice' = invoice /\ filter' = filter
  BY DEF EndStep
<1> HIDE DEF n
<1>6. /\ run' \in Runs /\ run'.step = n
      /\ run'.order = run.order /\ run'.invoice = run.invoice
      /\ run'.wrote = run.wrote /\ run'.stale = run.stale
      /\ IF n > Len(AllSteps) THEN run'.todo = {}
         ELSE run'.todo = Matching(AllSteps[n], run.order, run.invoice)
  BY <1>1, <1>3, <1>4, AtStepKeeps
<1>7. Types' /\ Right(invoice)'
  BY <1>5, <1>6 DEF IInv, Types, Right, OneLive, EachSettles, Live
<1>8. TodoInv'
  BY <1>3, <1>5, <1>6 DEF TodoInv, Matching, NotPaid, ToInvoice, InvoicesOf, Confirmed
<1>9. Right(run.invoice)'
  BY <1>2, <1>6 DEF RunInv, Right, OneLive, EachSettles, Live
<1>10. RunInv'
  BY <1>2, <1>5, <1>6, <1>8, <1>9 DEF RunInv, SnapshotInv, ByHandWritesOrder,
         ActionWritesOrder, Live
<1> QED
  BY <1>7, <1>10 DEF IInv

-----------------------------------------------------------------------------
\* One record of a step.

\* What a step does on a record is to write its row, and for a new invoice two rows.
Written(x, r, q) ==
  \/ /\ x \in Orders /\ q.invoice = r.invoice /\ q.wrote = r.wrote \cup {x}
     /\ \E rec \in OrderRecs : q.order = [r.order EXCEPT ![x] = rec]
  \/ /\ x \in Orders /\ q.order = r.order
     /\ \E i \in Invoices :
          /\ i[1] = x /\ r.invoice[i].state = "none" /\ InvoicesOf(r.invoice, x) = {}
          /\ q.invoice = [r.invoice EXCEPT ![i] = Draft]
          /\ q.wrote = r.wrote \cup {x, i}
  \/ /\ x \in Invoices /\ q.order = r.order /\ q.wrote = r.wrote \cup {x}
     /\ \E rec \in InvoiceRecs :
          /\ q.invoice = [r.invoice EXCEPT ![x] = rec]
          /\ Live(r.invoice, x) /\ rec.state \in {"draft", "posted"}
          /\ rec.payments + rec.open <= r.invoice[x].payments + r.invoice[x].open
  \/ q.order = r.order /\ q.invoice = r.invoice /\ q.wrote = r.wrote

SameButWritten(q, r) ==
  q = [r EXCEPT !.order = q.order, !.invoice = q.invoice, !.wrote = q.wrote]

\* What is paid, and what is left to pay, are numbers.
LEMMA InvoiceNumbers ==
  ASSUME NEW rec \in InvoiceRecs
  PROVE  /\ rec.open \in 0..Amount /\ rec.payments \in 0..Amount
         /\ rec.open \in Nat /\ rec.payments \in Nat /\ rec.payments + rec.open \in Nat
BY DEF InvoiceRecs, Amount

\* A payment leaves less to pay, by one unit at least.
LEMMA PaidInPart ==
  ASSUME NEW was \in InvoiceRecs, was.payments + was.open <= Amount,
         NEW left \in 0..(was.open - 1)
  PROVE  LET rec == [was EXCEPT !.open = left, !.payments = @ + 1]
         IN  /\ rec \in InvoiceRecs /\ rec.state = was.state
             /\ rec.payments + rec.open <= was.payments + was.open
<1> DEFINE paid == was.payments + 1
<1>1. was.open \in 0..2 /\ was.payments \in 0..2 /\ was.payments + was.open <= 2
  BY DEF InvoiceRecs, Amount
<1>2. paid \in 0..Amount /\ left \in 0..Amount /\ paid + left <= was.payments + was.open
  BY <1>1 DEF Amount
<1> HIDE DEF paid
<1>3. \A a, b \in 0..Amount : LET q == [was EXCEPT !.open = a, !.payments = b]
                             IN  /\ q \in InvoiceRecs
                                 /\ q.state = was.state /\ q.open = a /\ q.payments = b
  BY DEF InvoiceRecs
<1>4. LET rec == [was EXCEPT !.open = left, !.payments = paid]
      IN  /\ rec \in InvoiceRecs /\ rec.state = was.state
          /\ rec.payments + rec.open <= was.payments + was.open
  BY <1>2, <1>3
<1> QED
  BY <1>4 DEF paid

\* What a step does to a row that is due for it.
LEMMA DoneWrites ==
  ASSUME NEW r \in Runs, r.step \in 1..5, EachSettles(r.invoice),
         NEW x \in Matching(AllSteps[r.step], r.order, r.invoice),
         NEW q \in DoneOn(x, r)
  PROVE  /\ Written(x, r, q)
         /\ q.on = r.on /\ q.step = r.step /\ q.todo = r.todo /\ q.stale = r.stale
         /\ SameButWritten(q, r)
<1>1. CASE AllSteps[r.step] = "validate_order"
  <2>1. x \in Orders
    BY <1>1 DEF Matching
  <2>2. q = [r EXCEPT !.order[x].state = "sale", !.wrote = @ \cup {x}]
    BY <1>1 DEF DoneOn
  <2> DEFINE rec == [r.order[x] EXCEPT !.state = "sale"]
  <2>3. rec \in OrderRecs
    BY <2>1 DEF Runs, OrderRecs
  <2>4. q.order = [r.order EXCEPT ![x] = rec]
    BY <2>1, <2>2 DEF Runs
  <2> HIDE DEF rec
  <2>5. /\ q.wrote = r.wrote \cup {x} /\ q.invoice = r.invoice
        /\ q.on = r.on /\ q.step = r.step /\ q.todo = r.todo /\ q.stale = r.stale
        /\ SameButWritten(q, r)
    BY <2>2 DEF Runs, SameButWritten
  <2> QED
    BY <2>1, <2>3, <2>4, <2>5 DEF Written
<1>2. CASE AllSteps[r.step] = "create_invoice"
  <2>1. x \in Orders /\ InvoicesOf(r.invoice, x) = {}
    BY <1>2 DEF Matching, NotPaid, ToInvoice
  <2>2. PICK i \in NewInvoices(r.invoice, x) :
          q = [r EXCEPT !.invoice[i] = Draft, !.wrote = @ \cup {x, i}]
    BY <1>2 DEF DoneOn
  <2>3. i \in Invoices /\ i[1] = x /\ r.invoice[i].state = "none"
    <3>1. PICK n \in {m \in 1..Copies : r.invoice[<<x, m>>].state = "none"} : i = <<x, n>>
      BY DEF NewInvoices
    <3> QED
      BY <2>1, <3>1 DEF Invoices
  <2>4. /\ q.invoice = [r.invoice EXCEPT ![i] = Draft] /\ q.wrote = r.wrote \cup {x, i}
        /\ q.order = r.order
        /\ q.on = r.on /\ q.step = r.step /\ q.todo = r.todo /\ q.stale = r.stale
        /\ SameButWritten(q, r)
    BY <2>2 DEF Runs, SameButWritten
  <2> QED
    BY <2>1, <2>3, <2>4 DEF Written
<1>3. CASE AllSteps[r.step] = "validate_invoice"
  <2>1. x \in Invoices /\ r.invoice[x].state = "draft"
    BY <1>3 DEF Matching
  <2> DEFINE rec == [r.invoice[x] EXCEPT !.state = "posted", !.before = TRUE]
  <2>2. q = [r EXCEPT !.invoice[x] = [@ EXCEPT !.state = "posted", !.before = TRUE],
                      !.wrote = @ \cup {x}]
    BY <1>3 DEF DoneOn
  <2>3. /\ q.invoice = [r.invoice EXCEPT ![x] = rec] /\ q.wrote = r.wrote \cup {x}
        /\ q.order = r.order
        /\ q.on = r.on /\ q.step = r.step /\ q.todo = r.todo /\ q.stale = r.stale
        /\ SameButWritten(q, r)
    BY <2>2 DEF Runs, SameButWritten
  <2>4. /\ rec \in InvoiceRecs /\ rec.state = "posted"
        /\ rec.payments = r.invoice[x].payments /\ rec.open = r.invoice[x].open
    BY <2>1 DEF Runs, InvoiceRecs
  <2> HIDE DEF rec
  <2>5. rec.payments + rec.open <= r.invoice[x].payments + r.invoice[x].open
    BY <2>4, InvoiceNumbers
  <2> QED
    BY <2>1, <2>3, <2>4, <2>5 DEF Written, Live
<1>4. CASE AllSteps[r.step] = "sale_done"
  <2>1. x \in Orders
    BY <1>4 DEF Matching
  <2>2. q = [r EXCEPT !.order[x].locked = TRUE, !.wrote = @ \cup {x}]
    BY <1>4 DEF DoneOn
  <2> DEFINE rec == [r.order[x] EXCEPT !.locked = TRUE]
  <2>3. rec \in OrderRecs
    BY <2>1 DEF Runs, OrderRecs
  <2>4. q.order = [r.order EXCEPT ![x] = rec]
    BY <2>1, <2>2 DEF Runs
  <2>5. /\ q.wrote = r.wrote \cup {x} /\ q.invoice = r.invoice
        /\ q.on = r.on /\ q.step = r.step /\ q.todo = r.todo /\ q.stale = r.stale
        /\ SameButWritten(q, r)
    BY <2>2 DEF Runs, SameButWritten
  <2> HIDE DEF rec
  <2> QED
    BY <2>1, <2>3, <2>4, <2>5 DEF Written
<1>5. CASE AllSteps[r.step] = "register_payment"
  <2>1. x \in Invoices /\ r.invoice[x].state = "posted"
    BY <1>5 DEF Matching
  <2> DEFINE paid == RegisterPayment(x, r.invoice)
  <2>2. q = [r EXCEPT !.invoice = paid,
                      !.wrote = IF paid = r.invoice THEN @ ELSE @ \cup {x}]
    BY <1>5 DEF DoneOn
  <2>3. /\ q.invoice = paid /\ q.order = r.order
        /\ q.wrote = IF paid = r.invoice THEN r.wrote ELSE r.wrote \cup {x}
        /\ q.on = r.on /\ q.step = r.step /\ q.todo = r.todo /\ q.stale = r.stale
        /\ SameButWritten(q, r)
    BY <2>2 DEF Runs, SameButWritten
  <2>4. CASE paid = r.invoice
    BY <2>3, <2>4 DEF Written
  <2>5. CASE paid # r.invoice
    <3> DEFINE was == r.invoice[x]
               rec == [was EXCEPT !.open = 0, !.payments = @ + 1]
    <3>1. /\ was \in InvoiceRecs /\ was.state = "posted" /\ was.open # 0
          /\ was.payments + was.open <= Amount
      BY <2>1, <2>5 DEF RegisterPayment, Runs, EachSettles
    <3>2. /\ rec \in InvoiceRecs /\ rec.state = "posted"
          /\ rec.payments + rec.open <= was.payments + was.open
      <4>1. 0 \in 0..(was.open - 1)
        BY <3>1, InvoiceNumbers
      <4> QED
        BY <3>1, <4>1, PaidInPart
    <3>3. paid = [r.invoice EXCEPT ![x] = rec]
      BY <2>1, <3>1 DEF RegisterPayment, Runs
    <3> HIDE DEF rec
    <3> QED
      BY <2>1, <2>3, <2>5, <3>2, <3>3 DEF Written, Live
  <2> QED
    BY <2>4, <2>5
<1>6. AllSteps[r.step] \in {"validate_order", "create_invoice", "validate_invoice",
                            "sale_done", "register_payment"}
  BY DEF AllSteps
<1> QED
  BY <1>1, <1>2, <1>3, <1>4, <1>5, <1>6

\* What it does keeps the snapshot right.
LEMMA WrittenIsRight ==
  ASSUME NEW r \in Runs, NEW x, NEW q, Written(x, r, q), Right(r.invoice)
  PROVE  /\ q.order \in [Orders -> OrderRecs] /\ q.invoice \in [Invoices -> InvoiceRecs]
         /\ q.wrote \in SUBSET Rows
         /\ Right(q.invoice)
         /\ \A o \in Orders : o \notin q.wrote => q.order[o] = r.order[o]
         /\ \A i \in Invoices : i \notin q.wrote => q.invoice[i] = r.invoice[i]
         /\ r.wrote \subseteq q.wrote
         /\ \A i \in Invoices : Live(q.invoice, i) /\ ~Live(r.invoice, i) => i[1] \in q.wrote
<1> USE TwoTables DEF Right
<1>1. /\ r.order \in [Orders -> OrderRecs] /\ r.invoice \in [Invoices -> InvoiceRecs]
      /\ r.wrote \in SUBSET Rows
  BY DEF Runs
<1>2. CASE /\ x \in Orders /\ q.invoice = r.invoice /\ q.wrote = r.wrote \cup {x}
           /\ \E rec \in OrderRecs : q.order = [r.order EXCEPT ![x] = rec]
  BY <1>1, <1>2
<1>3. ASSUME x \in Orders, q.order = r.order,
             NEW i \in Invoices, i[1] = x, r.invoice[i].state = "none",
             InvoicesOf(r.invoice, x) = {},
             q.invoice = [r.invoice EXCEPT ![i] = Draft],
             q.wrote = r.wrote \cup {x, i}
      PROVE  /\ q.invoice \in [Invoices -> InvoiceRecs]
             /\ Right(q.invoice)
             /\ \A k \in Invoices : k \notin q.wrote => q.invoice[k] = r.invoice[k]
             /\ \A k \in Invoices :
                  Live(q.invoice, k) /\ ~Live(r.invoice, k) => k[1] \in q.wrote
  <2>1. Draft \in InvoiceRecs /\ Draft.state = "draft" /\ Draft.payments + Draft.open <= Amount
    BY DEF Draft, InvoiceRecs, Amount
  <2>2. OneLive(q.invoice)
    BY <1>1, <1>3 DEF OneLive, Live, InvoicesOf
  <2>3. EachSettles(q.invoice)
    BY <1>1, <1>3, <2>1 DEF EachSettles
  <2> QED
    BY <1>1, <1>3, <2>1, <2>2, <2>3 DEF Live
<1>4. ASSUME x \in Invoices, q.order = r.order, q.wrote = r.wrote \cup {x},
             NEW rec \in InvoiceRecs,
             q.invoice = [r.invoice EXCEPT ![x] = rec],
             Live(r.invoice, x), rec.state \in {"draft", "posted"},
             rec.payments + rec.open <= r.invoice[x].payments + r.invoice[x].open
      PROVE  /\ q.invoice \in [Invoices -> InvoiceRecs]
             /\ Right(q.invoice)
             /\ \A k \in Invoices : k \notin q.wrote => q.invoice[k] = r.invoice[k]
             /\ \A k \in Invoices :
                  Live(q.invoice, k) /\ ~Live(r.invoice, k) => k[1] \in q.wrote
  <2>1. EachSettles(q.invoice)
    <3>1. r.invoice[x] \in InvoiceRecs /\ r.invoice[x].payments + r.invoice[x].open <= Amount
      BY <1>1, <1>4 DEF EachSettles
    <3>2. rec.payments + rec.open <= Amount
      BY <1>4, <3>1, InvoiceNumbers DEF Amount
    <3> QED
      BY <1>1, <1>4, <3>2 DEF EachSettles
  <2>2. /\ q.invoice \in [Invoices -> InvoiceRecs] /\ OneLive(q.invoice)
        /\ \A k \in Invoices : k \notin q.wrote => q.invoice[k] = r.invoice[k]
        /\ \A k \in Invoices :
             Live(q.invoice, k) /\ ~Live(r.invoice, k) => k[1] \in q.wrote
    BY <1>1, <1>4 DEF OneLive, Live
  <2> QED
    BY <2>1, <2>2
<1>5. CASE q.order = r.order /\ q.invoice = r.invoice /\ q.wrote = r.wrote
  BY <1>1, <1>5
<1>6. CASE \/ /\ x \in Orders /\ q.order = r.order
              /\ \E i \in Invoices :
                   /\ i[1] = x /\ r.invoice[i].state = "none"
                   /\ InvoicesOf(r.invoice, x) = {}
                   /\ q.invoice = [r.invoice EXCEPT ![i] = Draft]
                   /\ q.wrote = r.wrote \cup {x, i}
           \/ /\ x \in Invoices /\ q.order = r.order /\ q.wrote = r.wrote \cup {x}
              /\ \E rec \in InvoiceRecs :
                   /\ q.invoice = [r.invoice EXCEPT ![x] = rec]
                   /\ Live(r.invoice, x) /\ rec.state \in {"draft", "posted"}
                   /\ rec.payments + rec.open <= r.invoice[x].payments + r.invoice[x].open
  <2>1. /\ q.invoice \in [Invoices -> InvoiceRecs]
        /\ Right(q.invoice)
        /\ \A k \in Invoices : k \notin q.wrote => q.invoice[k] = r.invoice[k]
        /\ \A k \in Invoices :
             Live(q.invoice, k) /\ ~Live(r.invoice, k) => k[1] \in q.wrote
    BY <1>3, <1>4, <1>6
  <2> QED
    BY <1>1, <1>6, <2>1
<1> QED
  BY <1>2, <1>5, <1>6 DEF Written

\* It does not change what the step finds of other records.
LEMMA OthersStay ==
  ASSUME NEW r \in Runs, NEW x, NEW q, Written(x, r, q), NEW y, y # x,
         NEW step \in ToSet(AllSteps), y \in Matching(step, r.order, r.invoice)
  PROVE  y \in Matching(step, q.order, q.invoice)
<1> USE TwoTables
<1>1. /\ r.order \in [Orders -> OrderRecs] /\ r.invoice \in [Invoices -> InvoiceRecs]
  BY DEF Runs
<1>2. y \in Orders => q.order[y] = r.order[y]
  BY <1>1 DEF Written
<1>3. y \in Orders => InvoicesOf(q.invoice, y) = InvoicesOf(r.invoice, y)
  <2> SUFFICES ASSUME y \in Orders, NEW i \in Invoices, i[1] = y
               PROVE  Live(q.invoice, i) <=> Live(r.invoice, i)
    BY DEF InvoicesOf, Live
  <2> QED
    BY <1>1 DEF Written, Live
<1>4. y \in Invoices /\ r.invoice[y].state # "none" => q.invoice[y] = r.invoice[y]
  BY <1>1 DEF Written
<1>5. step \in {"validate_order", "create_invoice", "validate_invoice", "sale_done",
                "register_payment"}
  BY FiveSteps DEF ToSet, AllSteps
<1> QED
  BY <1>2, <1>3, <1>4, <1>5 DEF Matching, NotPaid, ToInvoice, Confirmed

\* A step done on a row keeps the tables of the action right.
LEMMA DoRecordStep ==
  ASSUME IInv, NEW x \in Rows, DoRecord(x)
  PROVE  IInv'
<1>1. run \in Runs /\ run.on
  BY DEF IInv, Types, DoRecord, Idle
<1>2. /\ Right(run.invoice) /\ SnapshotInv /\ ByHandWritesOrder
      /\ ActionWritesOrder /\ TodoInv
  BY <1>1 DEF IInv, RunInv
<1>3. run.step \in 1..5 /\ x \in Matching(AllSteps[run.step], run.order, run.invoice)
  BY <1>2, FiveSteps DEF DoRecord, TodoInv
<1>4. PICK q \in DoneOn(x, run) : run' = [q EXCEPT !.todo = @ \ {x}]
  BY DEF DoRecord
<1>5. /\ Written(x, run, q)
      /\ q.on = run.on /\ q.step = run.step /\ q.todo = run.todo /\ q.stale = run.stale
      /\ SameButWritten(q, run)
  BY <1>1, <1>2, <1>3, DoneWrites DEF Right
<1>6. /\ q.order \in [Orders -> OrderRecs] /\ q.invoice \in [Invoices -> InvoiceRecs]
      /\ q.wrote \in SUBSET Rows
      /\ Right(q.invoice)
      /\ \A o \in Orders : o \notin q.wrote => q.order[o] = run.order[o]
      /\ \A i \in Invoices : i \notin q.wrote => q.invoice[i] = run.invoice[i]
      /\ run.wrote \subseteq q.wrote
      /\ \A i \in Invoices : Live(q.invoice, i) /\ ~Live(run.invoice, i) => i[1] \in q.wrote
  BY <1>1, <1>2, <1>5, WrittenIsRight
<1>7. q \in Runs
  <2>1. \A ord \in [Orders -> OrderRecs], inv \in [Invoices -> InvoiceRecs],
           w \in SUBSET Rows :
             [run EXCEPT !.order = ord, !.invoice = inv, !.wrote = w] \in Runs
    BY <1>1 DEF Runs
  <2>2. q = [run EXCEPT !.order = q.order, !.invoice = q.invoice, !.wrote = q.wrote]
    BY <1>5 DEF SameButWritten
  <2>3. [run EXCEPT !.order = q.order, !.invoice = q.invoice, !.wrote = q.wrote] \in Runs
    BY <1>6, <2>1
  <2> QED
    BY <2>2, <2>3
<1>8. /\ run' \in Runs
      /\ run'.on /\ run'.step = run.step /\ run'.todo = run.todo \ {x}
      /\ run'.order = q.order /\ run'.invoice = q.invoice
      /\ run'.wrote = q.wrote /\ run'.stale = run.stale
  BY <1>1, <1>4, <1>5, <1>7 DEF Runs
<1>9. /\ order' = order /\ invoice' = invoice /\ filter' = filter
      /\ run'.wrote \cap run.stale = {}
  BY DEF DoRecord
<1>10. Types' /\ Right(invoice)'
  BY <1>8, <1>9 DEF IInv, Types, Right, OneLive, EachSettles, Live
<1>11. SnapshotInv'
  BY <1>2, <1>6, <1>8, <1>9 DEF SnapshotInv
<1>12. ByHandWritesOrder'
  BY <1>2, <1>6, <1>8, <1>9 DEF ByHandWritesOrder, Live
<1>13. ActionWritesOrder'
  <2> SUFFICES ASSUME NEW i \in Invoices, i \in q.wrote, Live(q.invoice, i),
                      ~Live(invoice, i)
               PROVE  i[1] \in q.wrote
    BY <1>8, <1>9 DEF ActionWritesOrder, Live
  <2>1. CASE ~Live(run.invoice, i)
    BY <1>6, <2>1
  <2>2. CASE Live(run.invoice, i)
    BY <1>2, <1>6, <1>8, <1>9, <2>2 DEF ActionWritesOrder, SnapshotInv, Live
  <2> QED
    BY <2>1, <2>2
<1>14. TodoInv'
  <2> SUFFICES ASSUME NEW y \in run.todo, y # x
               PROVE  y \in Matching(AllSteps[run.step], q.order, q.invoice)
    <3>1. Matching(AllSteps[run.step], run.order, run.invoice)'
            = Matching(AllSteps[run.step], q.order, q.invoice)
      BY <1>8, <1>9 DEF Matching, NotPaid, ToInvoice, InvoicesOf, Confirmed
    <3> QED
      BY <1>3, <1>8, <3>1, FiveSteps DEF TodoInv
  <2>1. y \in Matching(AllSteps[run.step], run.order, run.invoice)
    BY <1>2, <1>3, FiveSteps DEF TodoInv
  <2>2. AllSteps[run.step] \in ToSet(AllSteps)
    BY <1>3, FiveSteps DEF ToSet
  <2> QED
    BY <1>1, <1>5, <2>1, <2>2, OthersStay
<1> QED
  BY <1>6, <1>8, <1>10, <1>11, <1>12, <1>13, <1>14 DEF IInv, RunInv

\* A record that fails is left; nothing else changes.
LEMMA FailRecordStep ==
  ASSUME IInv, NEW x \in Rows, FailRecord(x)
  PROVE  IInv'
<1>1. run \in Runs /\ run.on
  BY DEF IInv, Types, FailRecord, Fails, Idle
<1>2. /\ Right(run.invoice) /\ SnapshotInv /\ ByHandWritesOrder
      /\ ActionWritesOrder /\ TodoInv
  BY <1>1 DEF IInv, RunInv
<1>3. /\ run' \in Runs
      /\ run'.on /\ run'.step = run.step /\ run'.todo = run.todo \ {x}
      /\ run'.order = run.order /\ run'.invoice = run.invoice
      /\ run'.wrote = run.wrote /\ run'.stale = run.stale
  BY <1>1 DEF FailRecord, Fails, Runs
<1>4. order' = order /\ invoice' = invoice /\ filter' = filter
  BY DEF FailRecord, Fails
<1>5. Types' /\ Right(invoice)'
  BY <1>3, <1>4 DEF IInv, Types, Right, OneLive, EachSettles, Live
<1>6. /\ Right(run.invoice)' /\ SnapshotInv'
      /\ ByHandWritesOrder' /\ ActionWritesOrder'
  BY <1>2, <1>3, <1>4 DEF Right, OneLive, EachSettles, Live, SnapshotInv,
         ByHandWritesOrder, ActionWritesOrder
<1>7. TodoInv'
  BY <1>2, <1>3, <1>4 DEF TodoInv, Matching, NotPaid, ToInvoice, InvoicesOf, Confirmed
<1> QED
  BY <1>5, <1>6, <1>7 DEF IInv, RunInv

-----------------------------------------------------------------------------
\* What the action wrote is committed beside what users wrote meanwhile.
LEMMA CommitStep == IInv /\ Commit => IInv'
<1> SUFFICES ASSUME IInv, Commit PROVE IInv'
  OBVIOUS
<1> USE DEF Right
<1>1. run \in Runs /\ run.on
  BY DEF IInv, Types, Commit, Idle
<1>2. /\ Right(run.invoice) /\ SnapshotInv /\ ByHandWritesOrder
      /\ ActionWritesOrder /\ Right(invoice)
  BY <1>1 DEF IInv, RunInv
<1>3. /\ order \in [Orders -> OrderRecs] /\ invoice \in [Invoices -> InvoiceRecs]
      /\ run.order \in [Orders -> OrderRecs] /\ run.invoice \in [Invoices -> InvoiceRecs]
  BY <1>1 DEF IInv, Types, Runs
<1>4. /\ order' = [o \in Orders |-> IF o \in run.wrote THEN run.order[o] ELSE order[o]]
      /\ invoice' = [i \in Invoices |-> IF i \in run.wrote THEN run.invoice[i]
                                       ELSE invoice[i]]
      /\ run' = Idle
  BY DEF Commit
<1>5. Types'
  BY <1>3, <1>4 DEF Types
<1>7. EachSettles(invoice')
  BY <1>2, <1>4 DEF EachSettles
<1>8. OneLive(invoice')
  <2> DEFINE Both(i, k) ==
        /\ i \in run.wrote /\ k \notin run.wrote /\ i[1] = k[1]
        /\ Live(run.invoice, i) /\ Live(invoice, k)
  <2>1. ASSUME NEW i \in Invoices, NEW k \in Invoices, Both(i, k) PROVE i = k
    <3>1. CASE Live(run.invoice, k)
      BY <1>2, <2>1, <3>1 DEF OneLive
    <3>2. CASE ~Live(run.invoice, k)
      <4>1. i[1] \in run.stale
        BY <1>2, <2>1, <3>2 DEF ByHandWritesOrder
      <4>2. Live(invoice, i)
        BY <1>2, <2>1, <4>1 DEF ActionWritesOrder, SnapshotInv
      <4> QED
        BY <1>2, <2>1, <4>2 DEF OneLive
    <3> QED
      BY <3>1, <3>2
  <2>2. \A i \in Invoices :
          Live(invoice', i) <=> IF i \in run.wrote THEN Live(run.invoice, i)
                                ELSE Live(invoice, i)
    BY <1>4 DEF Live
  <2> SUFFICES ASSUME NEW i \in Invoices, NEW k \in Invoices, i[1] = k[1],
                      Live(invoice', i), Live(invoice', k)
               PROVE  i = k
    BY DEF OneLive
  <2>3. CASE i \in run.wrote /\ k \in run.wrote
    BY <1>2, <2>2, <2>3 DEF OneLive
  <2>4. CASE i \notin run.wrote /\ k \notin run.wrote
    BY <1>2, <2>2, <2>4 DEF OneLive
  <2>5. CASE i \in run.wrote /\ k \notin run.wrote
    BY <2>1, <2>2, <2>5
  <2>6. CASE i \notin run.wrote /\ k \in run.wrote
    BY <2>1, <2>2, <2>6
  <2> QED
    BY <2>3, <2>4, <2>5, <2>6
<1>9. RunInv'
  BY <1>4 DEF RunInv, Idle
<1>10. Right(invoice)'
  BY <1>7, <1>8 DEF EachSettles, OneLive, Live
<1> QED
  BY <1>5, <1>9, <1>10 DEF IInv

\* A crash forgets the transaction.
LEMMA CrashStep == IInv /\ Crash => IInv'
BY DEF Crash, IInv, Types, RunInv, Right, OneLive, EachSettles, Live, Idle

-----------------------------------------------------------------------------
\* Users write rows that the action did not; who makes an invoice of an order live
\* writes the order.
LEMMA UserRows ==
  ASSUME IInv, NEW rows \in SUBSET Rows, UserWrites(rows),
         order' \in [Orders -> OrderRecs], invoice' \in [Invoices -> InvoiceRecs],
         \A o \in Orders : o \notin rows => order'[o] = order[o],
         \A i \in Invoices : i \notin rows => invoice'[i] = invoice[i],
         Right(invoice)',
         \A i \in Invoices : Live(invoice', i) /\ ~Live(invoice, i) => i[1] \in rows
  PROVE  IInv'
<1>1. CASE ~run.on
  <2>1. run' = run
    BY <1>1 DEF UserWrites
  <2> QED
    BY <1>1, <2>1 DEF IInv, Types, RunInv
<1>2. CASE run.on
  <2>1. run \in Runs
    BY <1>2 DEF IInv, Types, Idle
  <2>2. /\ Right(run.invoice) /\ SnapshotInv /\ ByHandWritesOrder
        /\ ActionWritesOrder /\ TodoInv
    BY <1>2 DEF IInv, RunInv
  <2>3. /\ run' \in Runs
        /\ run'.on /\ run'.step = run.step /\ run'.todo = run.todo
        /\ run'.order = run.order /\ run'.invoice = run.invoice
        /\ run'.wrote = run.wrote /\ run'.stale = run.stale \cup rows
    BY <1>2, <2>1 DEF UserWrites, Runs
  <2>4. filter' = filter /\ run.wrote \cap rows = {}
    BY <1>2 DEF UserWrites
  <2>5. Types'
    BY <2>3 DEF Types
  <2>6. Right(run.invoice)'
    BY <2>2, <2>3 DEF Right, OneLive, EachSettles, Live
  <2>7. SnapshotInv'
    BY <2>2, <2>3, <2>4 DEF SnapshotInv
  <2>8. ByHandWritesOrder'
    BY <2>2, <2>3, <2>4 DEF ByHandWritesOrder, Live
  <2>9. ActionWritesOrder'
    BY <2>2, <2>3, <2>4 DEF ActionWritesOrder, Live
  <2>10. TodoInv'
    <3>1. Matching(AllSteps[run.step], run.order, run.invoice)'
            = Matching(AllSteps[run.step], run.order, run.invoice)
      BY <2>3, <2>4 DEF Matching, NotPaid, ToInvoice, InvoicesOf, Confirmed
    <3> QED
      BY <2>2, <2>3, <3>1 DEF TodoInv
  <2> QED
    BY <2>5, <2>6, <2>7, <2>8, <2>9, <2>10 DEF IInv, RunInv
<1> QED
  BY <1>1, <1>2

\* Users send, confirm, cancel and invoice orders by hand,
LEMMA UserOrderStep ==
  ASSUME IInv, NEW o \in Orders,
         SendQuotation(o) \/ ConfirmByHand(o) \/ CancelOrder(o) \/ InvoiceByHand(o)
  PROVE  IInv'
<1> USE TwoTables DEF Right
<1>1. /\ order \in [Orders -> OrderRecs] /\ invoice \in [Invoices -> InvoiceRecs]
      /\ OneLive(invoice) /\ EachSettles(invoice)
  BY DEF IInv, Types
<1>2. CASE SendQuotation(o) \/ ConfirmByHand(o)
  <2>1. PICK st \in {"sent", "sale"} :
          /\ order' = [order EXCEPT ![o].state = st] /\ invoice' = invoice
          /\ UserWrites({o}) /\ {o} \in SUBSET Rows
    BY <1>2 DEF SendQuotation, ConfirmByHand
  <2>2. order' \in [Orders -> OrderRecs]
    BY <1>1, <2>1 DEF OrderRecs
  <2>3. Right(invoice)'
    BY <1>1, <2>1 DEF OneLive, EachSettles, Live
  <2> QED
    BY <1>1, <2>1, <2>2, <2>3, UserRows DEF Live
<1>3. CASE CancelOrder(o)
  <2> DEFINE drafts == {i \in InvoicesOf(invoice, o) : invoice[i].state = "draft"}
             rows == {o} \cup drafts
  <2>1. /\ order' = [order EXCEPT ![o].state = "cancel"]
        /\ invoice' = [i \in Invoices |->
                        IF i \in drafts THEN [invoice[i] EXCEPT !.state = "cancel"]
                        ELSE invoice[i]]
        /\ UserWrites(rows) /\ rows \in SUBSET Rows
    BY <1>3 DEF CancelOrder, InvoicesOf
  <2>2. order' \in [Orders -> OrderRecs] /\ invoice' \in [Invoices -> InvoiceRecs]
    <3>1. order' \in [Orders -> OrderRecs]
      BY <1>1, <2>1 DEF OrderRecs
    <3>2. \A i \in Invoices : [invoice[i] EXCEPT !.state = "cancel"] \in InvoiceRecs
      BY <1>1 DEF InvoiceRecs
    <3> QED
      BY <1>1, <2>1, <3>1, <3>2
  <2>3. \A i \in Invoices : /\ Live(invoice', i) => Live(invoice, i)
                            /\ invoice'[i].payments = invoice[i].payments
                            /\ invoice'[i].open = invoice[i].open
    BY <1>1, <2>1 DEF InvoiceRecs, Live, InvoicesOf
  <2>4. Right(invoice)'
    <3>1. OneLive(invoice') /\ EachSettles(invoice')
      BY <1>1, <2>3 DEF OneLive, EachSettles
    <3> QED
      BY <3>1 DEF OneLive, EachSettles, Live
  <2>5. /\ \A p \in Orders : p \notin rows => order'[p] = order[p]
        /\ \A i \in Invoices : i \notin rows => invoice'[i] = invoice[i]
    BY <1>1, <2>1
  <2> HIDE DEF rows
  <2> QED
    BY <2>1, <2>2, <2>3, <2>4, <2>5, UserRows
<1>4. ASSUME NEW i \in NewInvoices(invoice, o), UserWrites({o, i}), order' = order,
             invoice' = [invoice EXCEPT ![i] = Draft], InvoicesOf(invoice, o) = {}
      PROVE  IInv'
  <2>1. i \in Invoices /\ i[1] = o /\ invoice[i].state = "none"
    <3>1. PICK n \in {m \in 1..Copies : invoice[<<o, m>>].state = "none"} : i = <<o, n>>
      BY DEF NewInvoices
    <3> QED
      BY <3>1 DEF Invoices
  <2>2. Draft \in InvoiceRecs /\ Draft.state = "draft" /\ Draft.payments + Draft.open <= Amount
    BY DEF Draft, InvoiceRecs, Amount
  <2>3. {o, i} \in SUBSET Rows /\ invoice' \in [Invoices -> InvoiceRecs]
    BY <1>1, <1>4, <2>1, <2>2
  <2>4. Right(invoice)'
    <3>1. OneLive(invoice')
      BY <1>1, <1>4, <2>1 DEF OneLive, Live, InvoicesOf
    <3>2. EachSettles(invoice')
      BY <1>1, <1>4, <2>1, <2>2 DEF EachSettles
    <3> QED
      BY <3>1, <3>2 DEF OneLive, EachSettles, Live
  <2>5. \A k \in Invoices : Live(invoice', k) /\ ~Live(invoice, k) => k[1] \in {o, i}
    BY <1>1, <1>4, <2>1 DEF Live
  <2>6. /\ \A p \in Orders : p \notin {o, i} => order'[p] = order[p]
        /\ \A k \in Invoices : k \notin {o, i} => invoice'[k] = invoice[k]
    BY <1>1, <1>4, <2>1
  <2> QED
    BY <1>1, <1>4, <2>3, <2>4, <2>5, <2>6, UserRows
<1>5. CASE InvoiceByHand(o)
  BY <1>4, <1>5 DEF InvoiceByHand, ToInvoice
<1> QED
  BY <1>2, <1>3, <1>5

\* Users write the row of an invoice that is live, and no payment of it settles nothing.
UserWrote(i, rec) ==
  /\ invoice' = [invoice EXCEPT ![i] = rec] /\ order' = order
  /\ rec \in InvoiceRecs /\ Live(invoice, i)
  /\ rec.state # "none"
  /\ rec.payments + rec.open <= invoice[i].payments + invoice[i].open
  /\ UserWrites({i}) \/ UserWrites({i, i[1]})

\* and post, reset, cancel and pay invoices.
LEMMA UserInvoiceStep ==
  ASSUME IInv, NEW i \in Invoices,
         PostByHand(i) \/ ResetInvoice(i) \/ CancelInvoice(i) \/ PayByHand(i)
  PROVE  IInv'
<1> USE TwoTables DEF Right
<1>1. /\ order \in [Orders -> OrderRecs] /\ invoice \in [Invoices -> InvoiceRecs]
      /\ OneLive(invoice) /\ EachSettles(invoice)
      /\ invoice[i] \in InvoiceRecs
  BY DEF IInv, Types
<1>2. PICK rec : UserWrote(i, rec)
  <2>1. CASE PostByHand(i)
    <3> DEFINE rec == [invoice[i] EXCEPT !.state = "posted", !.before = TRUE]
    <3>1. /\ rec \in InvoiceRecs /\ rec.state = "posted"
          /\ rec.payments = invoice[i].payments /\ rec.open = invoice[i].open
      BY <1>1 DEF InvoiceRecs
    <3>2. /\ invoice' = [invoice EXCEPT ![i] = rec] /\ order' = order
          /\ Live(invoice, i) /\ UserWrites({i})
      BY <2>1 DEF PostByHand, Live
    <3> HIDE DEF rec
    <3>3. UserWrote(i, rec)
      BY <3>1, <3>2, InvoiceNumbers DEF UserWrote
    <3> QED
      BY <3>3
  <2>2. ASSUME NEW st \in {"draft", "cancel"},
               invoice' = [invoice EXCEPT ![i].state = st], order' = order,
               Live(invoice, i), UserWrites({i}) \/ UserWrites({i, i[1]})
        PROVE  \E rec : UserWrote(i, rec)
    <3> DEFINE rec == [invoice[i] EXCEPT !.state = st]
    <3>1. /\ rec \in InvoiceRecs /\ rec.state = st
          /\ rec.payments = invoice[i].payments /\ rec.open = invoice[i].open
      BY <1>1 DEF InvoiceRecs
    <3>2. invoice' = [invoice EXCEPT ![i] = rec]
      BY <1>1, <2>2
    <3> HIDE DEF rec
    <3>3. UserWrote(i, rec)
      <4>1. rec.payments + rec.open <= invoice[i].payments + invoice[i].open
        BY <1>1, <3>1, InvoiceNumbers
      <4> QED
        BY <2>2, <3>1, <3>2, <4>1 DEF UserWrote
    <3> QED
      BY <3>3
  <2>3. CASE ResetInvoice(i) \/ CancelInvoice(i)
    BY <2>2, <2>3 DEF ResetInvoice, CancelInvoice, Live
  <2>4. CASE PayByHand(i)
    <3> DEFINE was == invoice[i]
    <3>1. /\ was.state = "posted" /\ was \in InvoiceRecs
          /\ was.payments + was.open <= Amount
      BY <1>1, <2>4 DEF PayByHand, EachSettles
    <3>2. PICK left \in 0..(was.open - 1) :
            invoice' = [invoice EXCEPT ![i].open = left, ![i].payments = @ + 1]
      BY <2>4 DEF PayByHand
    <3> DEFINE rec == [was EXCEPT !.open = left, !.payments = @ + 1]
    <3>3. /\ rec \in InvoiceRecs /\ rec.state = was.state
          /\ rec.payments + rec.open <= was.payments + was.open
      BY <3>1, PaidInPart
    <3>4. invoice' = [invoice EXCEPT ![i] = rec]
      BY <1>1, <3>2
    <3>5. order' = order /\ UserWrites({i}) /\ Live(invoice, i)
      BY <2>4 DEF PayByHand, Live
    <3> HIDE DEF rec
    <3>6. UserWrote(i, rec)
      BY <3>1, <3>3, <3>4, <3>5 DEF UserWrote
    <3> QED
      BY <3>6
  <2> QED
    BY <2>1, <2>3, <2>4
<1>3. PICK rows \in SUBSET {i, i[1]} : i \in rows /\ UserWrites(rows)
  BY <1>2 DEF UserWrote
<1>4. rows \in SUBSET Rows
  OBVIOUS
<1>5. invoice' \in [Invoices -> InvoiceRecs] /\ order' \in [Orders -> OrderRecs]
  BY <1>1, <1>2 DEF UserWrote
<1>6. OneLive(invoice') /\ EachSettles(invoice')
  <2>1. rec.payments + rec.open <= Amount
    <3>1. /\ rec \in InvoiceRecs /\ invoice[i].payments + invoice[i].open <= Amount
          /\ rec.payments + rec.open <= invoice[i].payments + invoice[i].open
      BY <1>1, <1>2 DEF UserWrote, EachSettles
    <3> QED
      BY <1>1, <3>1, InvoiceNumbers DEF Amount
  <2>2. EachSettles(invoice')
    BY <1>1, <1>2, <2>1 DEF EachSettles, UserWrote
  <2>3. OneLive(invoice')
    BY <1>1, <1>2 DEF OneLive, Live, UserWrote
  <2> QED
    BY <2>2, <2>3
<1>7. Right(invoice)'
  BY <1>1, <1>2, <1>6 DEF OneLive, EachSettles, Live, UserWrote
<1>8. /\ \A p \in Orders : p \notin rows => order'[p] = order[p]
      /\ \A k \in Invoices : k \notin rows => invoice'[k] = invoice[k]
      /\ \A k \in Invoices : Live(invoice', k) /\ ~Live(invoice, k) => k[1] \in rows
  BY <1>1, <1>2, <1>3 DEF Live, UserWrote
<1> QED
  BY <1>3, <1>4, <1>5, <1>7, <1>8, UserRows

\* Every step.
LEMMA NextIInv == IInv /\ [Next]_vars => IInv'
<1> SUFFICES ASSUME IInv, [Next]_vars PROVE IInv'
  OBVIOUS
<1>1. CASE Action
  BY <1>1, StartStep, EndStepStep, CommitStep, DoRecordStep, FailRecordStep DEF Action
<1>2. CASE Crash
  BY <1>2, CrashStep
<1>3. CASE \E o \in Orders :
             SendQuotation(o) \/ ConfirmByHand(o) \/ CancelOrder(o) \/ InvoiceByHand(o)
  BY <1>3, UserOrderStep
<1>4. CASE \E i \in Invoices :
             PostByHand(i) \/ ResetInvoice(i) \/ CancelInvoice(i) \/ PayByHand(i)
  BY <1>4, UserInvoiceStep
<1>5. CASE UNCHANGED vars
  <2>1. /\ order' = order /\ invoice' = invoice /\ filter' = filter /\ run' = run
    BY <1>5 DEF vars
  <2>2. Matching(AllSteps[run.step], run.order, run.invoice)'
          = Matching(AllSteps[run.step], run.order, run.invoice)
    BY <2>1 DEF Matching, NotPaid, ToInvoice, InvoicesOf, Confirmed
  <2>3. TodoInv' <=> TodoInv
    BY <2>1, <2>2 DEF TodoInv
  <2> QED
    BY <2>1, <2>3 DEF IInv, Types, RunInv, Right, OneLive, EachSettles, Live,
           SnapshotInv, ByHandWritesOrder, ActionWritesOrder
<1> QED
  BY <1>1, <1>2, <1>3, <1>4, <1>5 DEF Next

\* The invariant holds always.
THEOREM Invariance == Spec => []IInv
<1>1. Init => IInv
  BY InitIInv
<1>2. IInv /\ [Next]_vars => IInv'
  BY NextIInv
<1> QED
  BY <1>1, <1>2, PTL DEF Spec

\* An order gets one invoice, and every payment of an invoice settles a part of it, for
\* any number of orders and however the scheduled action and users interleave
\* (automatic_workflow_job.py, run_with_workflow and the steps it calls).
THEOREM EachStepOnce == Spec => []StepsDoneOnce
<1>1. IInv => StepsDoneOnce
  <2> SUFFICES ASSUME IInv PROVE StepsDoneOnce
    OBVIOUS
  <2>1. invoice \in [Invoices -> InvoiceRecs] /\ OneLive(invoice) /\ EachSettles(invoice)
    BY DEF IInv, Types, Right
  <2>2. ASSUME NEW o \in Orders PROVE Cardinality(InvoicesOf(invoice, o)) <= 1
    <3>1. CASE InvoicesOf(invoice, o) = {}
      BY <3>1, FS_EmptySet
    <3>2. CASE InvoicesOf(invoice, o) # {}
      <4>1. PICK i \in InvoicesOf(invoice, o) : TRUE
        BY <3>2
      <4>2. InvoicesOf(invoice, o) = {i}
        BY <2>1, <4>1 DEF InvoicesOf, OneLive, Live
      <4> QED
        BY <4>2, FS_Singleton
    <3> QED
      BY <3>1, <3>2
  <2>3. \A i \in Invoices : invoice[i].payments + invoice[i].open <= Amount
    BY <2>1 DEF EachSettles
  <2> QED
    BY <2>2, <2>3 DEF StepsDoneOnce
<1> QED
  BY <1>1, Invariance, PTL
=============================================================================
