------------------------------ MODULE Billing ------------------------------
(***************************************************************************)
(* The summary invoices of one customer (account_billing with              *)
(* l10n_jp_summary_invoice and l10n_jp_summary_invoice_carryover): billings *)
(* list invoices, adjust their tax by an entry of their own, and carry over *)
(* what earlier billings left unpaid.                                      *)
(*                                                                         *)
(* Company, currency and bank are the same for all, so that billings form  *)
(* one stream.  A step is a transaction: each that bills an invoice writes  *)
(* account_move.billing_id, so that two of them on one invoice conflict.   *)
(***************************************************************************)
EXTENDS Integers, FiniteSets, FiniteSetsExt, SequencesExt

CONSTANTS
  Invoices,       \* invoices and credit notes of the customer
  Refunds,        \* those that are credit notes
  Amount,         \* [i |-> amount of invoice i, never negative]
  DueOn,          \* [i |-> its date, compared with that of a billing]
  TaxDiff,        \* [invoices |-> tax of their sum less the sum of their taxes]
  Billings,       \* ids of billings, given in order
  Dates,          \* dates a billing may have, its threshold date too
  None,           \* no billing
  Careless,       \* what users do: press buttons of a "stale form", reopen a
                  \* billing whose invoices are "unposted"
  MaxValidations, \* bound: validations of all billings
  MaxEvents       \* bound: payments, resets of invoices, cancellations, reopenings

Carelessness == {"stale form", "unposted"}

ASSUME BillingAssumption ==
  /\ IsFiniteSet(Invoices) /\ Refunds \subseteq Invoices
  /\ Amount \in [Invoices -> Nat] /\ DueOn \in [Invoices -> Nat]
  /\ TaxDiff \in [SUBSET Invoices -> Int]
  /\ IsFiniteSet(Billings) /\ Billings \subseteq Nat /\ Dates \subseteq Nat
  /\ None \notin Billings
  /\ Careless \subseteq Carelessness
  /\ MaxValidations \in Nat /\ MaxEvents \in Nat

VARIABLES
  invoice,     \* [i |-> draft or posted]
  open,        \* [i |-> amount_residual]
  bill,        \* [b |-> the billing, or Missing]
  validations, \* validations so far
  events,      \* other events so far
  straight     \* history: drafts whose previous billings were always the billed ones

billingVars == <<invoice, open, bill, validations, events, straight>>

Missing ==
  [state |-> "none", date |-> 0, lines |-> {}, prev |-> None,
   manual |-> FALSE, prevManual |-> 0, paymentManual |-> 0,
   prevBilled |-> 0, payment |-> 0, total |-> 0,
   entries |-> <<>>, entry |-> 0]
Existing == {b \in Billings : bill[b].state # "none"}
IsOpen(b) == bill[b].state \in {"draft", "billed"}

\* Billings that are not cancelled and list invoice i.
OpenBillings(bs, i) ==
  {b \in Billings : bs[b].state \in {"draft", "billed"} /\ i \in bs[b].lines}

Sum(f, S) == MapThenSumSet(LAMBDA x : f[x], S)

\* Amounts of invoices, those of credit notes negative.
Signed(amounts) == [i \in Invoices |-> IF i \in Refunds THEN -amounts[i] ELSE amounts[i]]

AmountTotal(lines) == Sum(Signed(Amount), lines) + TaxDiff[lines]

InitBilling ==
  /\ invoice = [i \in Invoices |-> "posted"]
  /\ open = Amount
  /\ bill = [b \in Billings |-> Missing]
  /\ validations = 0 /\ events = 0
  /\ straight = {}

-----------------------------------------------------------------------------
\* Amounts carried over, given billings bs and residuals rs of invoices.

\* prev_billing_candidate_ids: billed, and of an earlier date.
Candidates(bs, b) ==
  {c \in Billings : bs[c].state = "billed" /\ c # b /\ bs[c].date < bs[b].date}

\* prev_billing_id: the latest of them; of two with one date, the later one.
PrevBilling(bs, b) ==
  LET later(c, d) == bs[c].date > bs[d].date \/ (bs[c].date = bs[d].date /\ c >= d)
      all == Candidates(bs, b)
  IN  IF all = {} THEN None ELSE CHOOSE c \in all : \A d \in all : later(c, d)

\* amount_residual of the lines of a billing and of its adjustment, whose own
\* residual is positive whether it is an invoice or a credit note.
LinesOpen(rs, b, bs) == Sum(Signed(rs), bs[b].lines)
EntryOpen(bs, b) == IF bs[b].entry = 0 THEN 0 ELSE bs[b].entries[bs[b].entry].open

\* What _compute_carryover_amounts gives billing b, whose previous one has total
\* prevTotal: manual values, if there are any, go before computed ones.
Amounts(bs, rs, b, prevTotal) ==
  LET record == bs[b]
      prior == Candidates(bs, b)
      outstanding == Sum([c \in prior |-> LinesOpen(rs, c, bs) + EntryOpen(bs, c)], prior)
      prevBilled == IF record.prev = None THEN 0 ELSE prevTotal
      payment == IF record.prev = None THEN 0 ELSE prevBilled - outstanding
      carryover == IF record.manual THEN record.prevManual - record.paymentManual
                   ELSE prevBilled - payment
  IN  [record EXCEPT
        !.prevBilled = prevBilled, !.payment = payment,
        !.total = AmountTotal(record.lines) + carryover]

\* MUTANT: a change of a total does not reach the billings after the next.
RecomputeNext(bs, rs, touched) ==
  [b \in Billings |->
    IF b \notin touched \/ bs[b].state = "none" THEN bs[b]
    ELSE Amounts(bs, rs, b, IF bs[b].prev = None THEN 0 ELSE bs[bs[b].prev].total)]

\* The billings reached from each by prev_billing_id.
Chain(bs) ==
  LET chain[b \in Billings] ==
        IF bs[b].prev = None THEN {} ELSE {bs[b].prev} \cup chain[bs[b].prev]
  IN  chain

\* Billings after the recomputation of those touched and, as total_billed_amount
\* depends on that of the previous billing, of all that follow one of them.
Recompute(bs, rs, touched) ==
  LET new[b \in Billings] ==
        IF ({b} \cup Chain(bs)[b]) \cap touched = {} THEN bs[b]
        ELSE Amounts(bs, rs, b, IF bs[b].prev = None THEN 0 ELSE new[bs[b].prev].total)
  IN  new

\* Billings that depend on what is still open of billings in changed.
After(bs, changed) == {b \in Billings : bs[b].state # "none" /\ bs[b].prev \in changed}

-----------------------------------------------------------------------------
\* _check_account_move_billability, whenever lines or state of b are written.
Billable(bs, b) == \A i \in bs[b].lines : Cardinality(OpenBillings(bs, i)) <= 1

\* The form shows a button in the states it is meant for; a form that was opened
\* earlier still shows it.
Button(b, states) ==
  /\ b \in Existing
  /\ bill[b].state \in states \/ "stale form" \in Careless

Event == events < MaxEvents /\ events' = events + 1 /\ UNCHANGED validations

-----------------------------------------------------------------------------
\* Invoices.

PostInvoice(i) ==
  /\ Event
  /\ invoice[i] = "draft"
  /\ invoice' = [invoice EXCEPT ![i] = "posted"]
  /\ UNCHANGED <<open, bill>>

\* button_draft, refused while a billing that is not cancelled lists the invoice.
\* (One that is paid in part is left out: its payments would be undone too.)
ResetInvoice(i) ==
  /\ Event
  /\ invoice[i] = "posted" /\ open[i] = Amount[i]
  /\ OpenBillings(bill, i) = {}
  /\ invoice' = [invoice EXCEPT ![i] = "draft"]
  /\ UNCHANGED <<open, bill>>

\* A payment is reconciled with an invoice, or undone: amount is left open.
Pay(i, amount) ==
  /\ Event
  /\ invoice[i] = "posted" /\ amount # open[i]
  /\ open' = [open EXCEPT ![i] = amount]
  /\ bill' = Recompute(bill, open', After(bill, {b \in Existing : i \in bill[b].lines}))
  /\ UNCHANGED invoice

\* The adjustment of a billing is paid.
PayEntry(b) ==
  /\ Event
  /\ b \in Existing /\ EntryOpen(bill, b) # 0
  /\ LET paid == [bill EXCEPT ![b].entries[bill[b].entry].open = 0]
     IN  bill' = Recompute(paid, open, After(paid, {b}))
  /\ UNCHANGED <<invoice, open>>

-----------------------------------------------------------------------------
\* Billings.

\* The next id gets a billing with lines and date d.
CreateBilling(lines, d) ==
  /\ Existing # Billings
  /\ LET b == CHOOSE c \in Billings \ Existing : \A o \in Billings \ Existing : c <= o
         made == [bill EXCEPT ![b].state = "draft", ![b].date = d, ![b].lines = lines]
         chained == [made EXCEPT ![b].prev = PrevBilling(made, b)]
     IN  /\ Billable(chained, b)
         /\ bill' = Recompute(chained, open, {b})
  /\ UNCHANGED <<invoice, open, validations, events>>

\* action_create_billing on invoices that are selected in their list.
CreateFromInvoices(selected, d) ==
  /\ selected # {}
  /\ \A i \in selected : invoice[i] = "posted" /\ open[i] # 0
  /\ CreateBilling(selected, d)

\* _get_moves: invoices that compute_lines lists, once the lines are cleared.
GetMoves(b) ==
  LET cleared == [bill EXCEPT ![b].lines = {}]
  IN  {i \in Invoices : /\ invoice[i] = "posted" /\ open[i] # 0
                        /\ DueOn[i] <= bill[b].date
                        /\ OpenBillings(cleared, i) = {}}

ComputeLines(b) ==
  /\ Button(b, {"draft"})
  /\ LET listed == [bill EXCEPT ![b].lines = GetMoves(b)]
     IN  /\ Billable(listed, b)
         /\ bill' = Recompute(listed, open, {b} \cup After(listed, {b}))
  /\ UNCHANGED <<invoice, open, validations, events>>

\* The billing as its new state is written: prev_billing_id is searched again.
WithState(bs, b, state) ==
  LET written == [bs EXCEPT ![b].state = state]
  IN  [written EXCEPT ![b].prev = PrevBilling(written, b)]

\* MUTANT: the amounts of a billing stay computed.
FrozenNot(bs, b) == bs[b]

\* Computed amounts become manual ones unless they are already.  The switch is written
\* first, whereupon they are computed anew, and what that gives is kept.
Frozen(bs, b) ==
  LET fresh == Amounts(bs, open, b, IF bs[b].prev = None THEN 0 ELSE bs[bs[b].prev].total)
  IN  IF bs[b].manual THEN bs[b]
      ELSE [fresh EXCEPT !.manual = TRUE, !.prevManual = fresh.prevBilled,
                         !.paymentManual = fresh.payment]

\* The entry that adjusts the tax is created and posted, if there is a difference.
Adjusted(record) ==
  LET diff == TaxDiff[record.lines]
      new == [amount |-> diff, open |-> IF diff < 0 THEN -diff ELSE diff]
  IN  IF diff = 0 THEN record
      ELSE [record EXCEPT !.entries = Append(@, new), !.entry = Len(record.entries) + 1]

\* validate_billing of the three modules, which look at no state.
Validate(b) ==
  /\ Button(b, {"draft"})
  /\ validations < MaxValidations
  /\ bill[b].lines # {}
  /\ \A i \in bill[b].lines : DueOn[i] <= bill[b].date
  /\ LET billed == WithState([bill EXCEPT ![b] = Frozen(bill, b)], b, "billed")
         done == [billed EXCEPT ![b] = Adjusted(@)]
     IN  /\ Billable(billed, b)
         /\ bill' = Recompute(done, open, {b} \cup After(done, {b}))
  /\ validations' = validations + 1
  /\ UNCHANGED <<invoice, open, events>>

\* MUTANT: the entry is forgotten, not cancelled.
CancelKeepingEntry(b) ==
  /\ Event
  /\ Button(b, {"draft", "billed"})
  /\ \A i \in bill[b].lines : open[i] # 0
  /\ LET cancelled == [WithState(bill, b, "cancel") EXCEPT ![b].entry = 0]
     IN  bill' = Recompute(cancelled, open, {b} \cup After(cancelled, {b}))
  /\ UNCHANGED <<invoice, open>>

\* action_cancel, refused when an invoice is paid; the adjustment is cancelled.
Cancel(b) ==
  /\ Event
  /\ Button(b, {"draft", "billed"})
  /\ \A i \in bill[b].lines : ~(invoice[i] = "posted" /\ open[i] = 0)
  /\ LET n == bill[b].entry
         entries == IF n = 0 THEN bill[b].entries ELSE RemoveAt(bill[b].entries, n)
         cancelled == [WithState(bill, b, "cancel") EXCEPT
                        ![b].entries = entries, ![b].entry = 0]
     IN  bill' = Recompute(cancelled, open, {b} \cup After(cancelled, {b}))
  /\ UNCHANGED <<invoice, open>>

\* action_cancel_draft, which looks at no state either.  Careful users do not
\* reopen a billing with invoices that were reset to draft meanwhile.
SetToDraft(b) ==
  /\ Event
  /\ Button(b, {"cancel"})
  /\ "unposted" \in Careless \/ \A i \in bill[b].lines : invoice[i] = "posted"
  /\ LET draft == WithState(bill, b, "draft")
     IN  /\ Billable(draft, b)
         /\ bill' = Recompute(draft, open, {b})
  /\ UNCHANGED <<invoice, open>>

Step ==
  \/ \E i \in Invoices : PostInvoice(i) \/ ResetInvoice(i)
  \/ \E i \in Invoices : \E amount \in {0, Amount[i]} : Pay(i, amount)
  \/ \E d \in Dates : CreateBilling({}, d)
  \/ \E selected \in SUBSET Invoices, d \in Dates : CreateFromInvoices(selected, d)
  \/ \E b \in Billings :
       \/ PayEntry(b) \/ ComputeLines(b)
       \/ Validate(b) \/ Cancel(b) \/ SetToDraft(b)

\* Drafts whose chain is that of all billed ones before them, since it was searched.
Straight ==
  {b \in Billings : /\ bill'[b].state = "draft"
                    /\ Chain(bill')[b] = Candidates(bill', b)
                    /\ b \in straight \/ bill[b].state # "draft"}

NextBilling == Step /\ straight' = Straight

SpecBilling == InitBilling /\ [][NextBilling]_billingVars

-----------------------------------------------------------------------------
\* An invoice is on one billing at most that is not cancelled, through any sequence of
\* creating, recomputing, cancelling and reopening billings: the constraint looks only
\* at the billing that is written.  The invoices of a billed billing stay posted (the
\* error of button_draft says that one that has been billed cannot be reset to draft),
\* and its tax is adjusted once, by an entry that is still referred to; none is left
\* behind when it is cancelled or reopened.
BilledAndAdjusted ==
  /\ \A i \in Invoices : Cardinality(OpenBillings(bill, i)) <= 1
  /\ \A b \in Existing :
      LET entries == bill[b].entries
      IN  /\ bill[b].state = "billed" => \A i \in bill[b].lines : invoice[i] = "posted"
          /\ IF bill[b].state = "billed" /\ TaxDiff[bill[b].lines] # 0
             THEN /\ Len(entries) = 1 /\ bill[b].entry = 1
                  /\ entries[1].amount = TaxDiff[bill[b].lines]
             ELSE Len(entries) = 0

\* What the customer owes for billing b, credit notes counted as such.
Owed(b) ==
  LinesOpen(open, b, bill)
    + IF bill[b].entry = 0 THEN 0
      ELSE LET e == bill[b].entries[bill[b].entry] IN IF e.amount < 0 THEN -e.open ELSE e.open

\* A draft whose previous billings have always been those billed before it carries
\* over what is still owed for all of them (the help of payment_amount: what still
\* stands open across every earlier billing in the stream), although only the next
\* billing depends on the payments of one.
CarriesWhatIsOwed ==
  \A b \in straight : ~bill[b].manual =>
    bill[b].total = AmountTotal(bill[b].lines)
                      + Sum([c \in Candidates(bill, b) |-> Owed(c)], Candidates(bill, b))

\* The total of a billing that was validated does not change any more, whatever is
\* paid, billed or cancelled before it (USAGE.md of the carryover module).
TotalIsFrozen ==
  [][\A b \in Existing : bill[b].state = "billed" /\ bill'[b].state = "billed" =>
       bill'[b].total = bill[b].total]_billingVars
=============================================================================
