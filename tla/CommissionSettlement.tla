------------------------ MODULE CommissionSettlement ------------------------
(***************************************************************************)
(* Commissions of one agent (commission_oca, account_commission_oca): the  *)
(* lines of customer invoices that earn one, the settlements that collect  *)
(* them per period, and the bills of the agent made from settlements.      *)
(*                                                                         *)
(* Every action is a button or wizard of one user, in one transaction, on  *)
(* a snapshot.  Two that write the same row exclude each other, since the  *)
(* later one fails and Odoo runs it again: settling writes the field       *)
(* "settled" of the lines, billing the state of the settlements.  Settling *)
(* and the cancelling of an invoice read what the other writes, and write  *)
(* no row together: both commit.  That is modelled, and so is what lies    *)
(* between the opening of a wizard and its button.                         *)
(*                                                                         *)
(* Days are numbered from the first of January of a leap year, 0.  Amounts *)
(* are left out: what a bill pays is the set of lines it was made for.     *)
(***************************************************************************)
EXTENDS Integers, FiniteSets, SequencesExt

CONSTANTS
  Lines,          \* lines of customer invoices, one per invoice, with the agent
  DayOf,          \* [l |-> the date of its invoice]
  PaymentBased,   \* lines whose commission is due when the invoice is paid
  Kinds,          \* how often the agent is settled: subset of AllKinds
  Careless,       \* what users do although it leads to double payments: see AllCareless
  SettleUpTo,     \* dates that users enter in the wizard "Settle commissions"
  MaxSettlements, \* bound: settlements at the same time
  MaxBills        \* bound: bills at the same time

AllKinds == {"biweekly", "monthly", "quaterly", "semi", "annual"}

\* The code lets users
\*   regenerate the agents of a settled line, which frees it;
\*   press the button of a wizard whose settlements were billed or cancelled
\*     since it was opened;
\*   set a cancelled bill to draft when its settlements do not wait for one, or
\*     have changed, or draft or delete settlements that wait for such a bill;
\*   delete a cancelled bill whose settlements were billed again.
AllCareless == {"regenerate", "wizard", "revive", "delete"}

ASSUME SettlementAssumption ==
  /\ IsFiniteSet(Lines)
  /\ Careless \subseteq AllCareless
  /\ DayOf \in [Lines -> 0 .. 365]
  /\ PaymentBased \subseteq Lines
  /\ SettleUpTo \subseteq 0 .. 396
  /\ Kinds \subseteq AllKinds
  /\ MaxSettlements \in Nat /\ MaxBills \in Nat

VARIABLES
  kind,       \* res.partner.settlement of the agent
  invoice,    \* state of the invoice of each line
  settlement, \* state of each settlement
  period,     \* its first and last day
  earned,     \* the lines it pays for
  linked,     \* those of them whose agent line still exists
  bill,       \* state of each bill
  billed,     \* the settlements whose lines it has
  paysFor,    \* the lines its amount pays for
  wizard,     \* settlements chosen in an open wizard "Make invoice"
  crossed     \* history: lines settled while their invoice was being cancelled

vars == <<kind, invoice, settlement, period, earned, linked, bill, billed, paysFor,
          wizard, crossed>>

Settlements == 1 .. MaxSettlements
Bills == 1 .. MaxBills

NoPeriod == [from |-> 0, to |-> 0]

Init ==
  /\ kind \in Kinds
  /\ invoice = [l \in Lines |-> "draft"]
  /\ settlement = [s \in Settlements |-> "none"]
  /\ period = [s \in Settlements |-> NoPeriod]
  /\ earned = [s \in Settlements |-> {}]
  /\ linked = [s \in Settlements |-> {}]
  /\ bill = [b \in Bills |-> "none"]
  /\ billed = [b \in Bills |-> {}]
  /\ paysFor = [b \in Bills |-> {}]
  /\ wizard = {} /\ crossed = {}

-----------------------------------------------------------------------------
(* The calendar                                                            *)

\* First day of each month, and of the two after the end of the year.
FirstDays == <<0, 31, 60, 91, 121, 152, 182, 213, 244, 274, 305, 335, 366, 397>>
MonthOf(day) == CHOOSE m \in 1 .. 13 : FirstDays[m] <= day /\ day < FirstDays[m + 1]

\* The first month of the n months, counted from January, that m is one of.
FirstOf(n, m) == FirstDays[((m - 1) \div n) * n + 1]

\* _get_period_start
PeriodStart(k, day) ==
  LET m == MonthOf(day) IN
  CASE k = "monthly"  -> FirstOf(1, m)
    [] k = "biweekly" -> IF day >= FirstDays[m] + 15 THEN FirstDays[m] + 15 ELSE FirstDays[m]
    [] k = "quaterly" -> FirstOf(3, m)
    [] k = "semi"     -> FirstOf(6, m)
    [] k = "annual"   -> FirstOf(12, m)

\* _get_next_period_date, of the first day of a period.  For the second half of
\* a month it returns the last day of the month, not the day after it.
NextPeriod(k, start) ==
  LET m == MonthOf(start) IN
  CASE k = "monthly"  -> FirstDays[m + 1]
    [] k = "biweekly" -> IF start = FirstDays[m] THEN start + 15 ELSE FirstDays[m + 1] - 1
    [] k = "quaterly" -> FirstDays[m + 3]
    [] k = "semi"     -> FirstDays[m + 6]
    [] k = "annual"   -> FirstDays[m + 12]

PeriodOf(k, day) ==
  [from |-> PeriodStart(k, day), to |-> NextPeriod(k, PeriodStart(k, day)) - 1]

-----------------------------------------------------------------------------
(* Helpers                                                                 *)

\* A bill that has a line for the settlement and is not cancelled.
HasLiveBill(s) == \E b \in Bills : bill[b] \in {"draft", "posted"} /\ s \in billed[b]

\* MUTANT: only settlements that are not invoiced yet count.
SettledNotInvoiced(l) == \E s \in Settlements : l \in linked[s] /\ settlement[s] = "settled"

\* account_move.py _compute_settled
Settled(l) ==
  \E s \in Settlements : l \in linked[s] /\ settlement[s] \notin {"none", "cancel"}

LinesOf(ss) == UNION {earned[s] : s \in ss}

-----------------------------------------------------------------------------
(* Customer invoices                                                       *)

SetInvoice(l, from, to) ==
  /\ invoice[l] \in from
  /\ invoice' = [invoice EXCEPT ![l] = to] /\ crossed' = crossed \ {l}
  /\ UNCHANGED <<kind, settlement, period, earned, linked, bill, billed, paysFor, wizard>>

PostInvoice(l)  == SetInvoice(l, {"draft"}, "posted")
PayInvoice(l)   == SetInvoice(l, {"posted"}, "paid")
ResetInvoice(l) == SetInvoice(l, {"posted", "paid", "cancel"}, "draft")

\* MUTANT: the check of settled lines is left out.
CancelInvoiceUnchecked(l) == SetInvoice(l, {"draft", "posted", "paid"}, "cancel")

\* button_cancel, of a customer invoice: not with settled lines.
CancelInvoice(l) == ~Settled(l) /\ SetInvoice(l, {"draft", "posted", "paid"}, "cancel")

\* "Regenerate agents" (recompute_lines_agents): agent lines are replaced by new
\* ones, which are not settled.
RegenerateAgents(l) ==
  /\ invoice[l] = "draft"
  /\ Settled(l) => "regenerate" \in Careless
  /\ linked' = [s \in Settlements |-> linked[s] \ {l}]
  /\ UNCHANGED <<kind, invoice, settlement, period, earned, bill, billed, paysFor, wizard, crossed>>

-----------------------------------------------------------------------------
(* Settlements                                                             *)

\* _skip_settlement
Skipped(l) ==
  \/ l \in PaymentBased /\ invoice[l] # "paid"
  \/ invoice[l] \notin {"posted", "paid"}

DueLines(day) == {l \in Lines : ~Settled(l) /\ DayOf[l] < PeriodStart(kind, day)}

\* MUTANT: lines in no order of their dates.
AgentLinesUnordered(day) == SetToSeqs(DueLines(day))

\* _get_agent_lines, in the order of their dates; lines of one day come in any
AgentLines(day) ==
  {q \in SetToSeqs(DueLines(day)) :
     \A i, j \in DOMAIN q : i < j => DayOf[q[i]] <= DayOf[q[j]]}

\* _get_settlement: those the database has, those made earlier in the same run
\* included, whose periods are in ps.
OpenSettlements(ps, p) ==
  {s \in Settlements : settlement[s] \in {"none", "settled"} /\ ps[s] = p}

\* One pass of the loop of action_settle: a line after the end of the period
\* looks for a settlement of its own period, or makes one.
Collect(acc, l) ==
  LET p == PeriodOf(kind, DayOf[l])
      open == OpenSettlements(acc.period, p)
      new == {s \in Settlements : settlement[s] = "none" /\ acc.period[s] = NoPeriod}
      s == IF DayOf[l] <= acc.period[acc.into].to THEN acc.into
           ELSE IF open # {} THEN CHOOSE x \in open : TRUE
           ELSE IF new # {} THEN CHOOSE x \in new : TRUE ELSE 0
  IN
  IF Skipped(l) THEN acc
  ELSE [into |-> s,
        period |-> IF s \in new THEN [acc.period EXCEPT ![s] = p] ELSE acc.period,
        earned |-> [acc.earned EXCEPT ![s] = @ \cup {l}]]

\* Before the first pass.  Settlement 0 stands for none: it ends before all days.
NothingCollected ==
  [into |-> 0,
   period |-> [s \in Settlements \cup {0} |->
                 IF s = 0 THEN [from |-> -1, to |-> -1] ELSE period[s]],
   earned |-> [s \in Settlements \cup {0} |-> {}]]

\* The loop of action_settle
Collected(lines) ==
  LET pass[n \in 0 .. Len(lines)] ==
        IF n = 0 THEN NothingCollected ELSE Collect(pass[n - 1], lines[n])
  IN pass[Len(lines)]

\* The wizard "Settle commissions" up to a day.  Some of the invoices whose lines it
\* settles are cancelled after its snapshot: they have no settled lines as yet.
Settle(day, cancelled) ==
  /\ \E lines \in AgentLines(day) :
       LET end == Collected(lines) IN
       /\ end.into # 0
       /\ end.earned[0] = {}
       /\ cancelled \subseteq UNION {end.earned[s] : s \in Settlements}
       /\ period' = [s \in Settlements |-> end.period[s]]
       /\ settlement' = [s \in Settlements |->
                            IF settlement[s] = "none" /\ end.earned[s] # {}
                            THEN "settled" ELSE settlement[s]]
       /\ earned' = [s \in Settlements |-> earned[s] \cup end.earned[s]]
       /\ linked' = [s \in Settlements |-> linked[s] \cup end.earned[s]]
  /\ invoice' = [l \in Lines |-> IF l \in cancelled THEN "cancel" ELSE invoice[l]]
  /\ crossed' = crossed \cup cancelled
  /\ UNCHANGED <<kind, bill, billed, paysFor, wizard>>

SetSettlement(s, from, to) ==
  /\ settlement[s] = from
  /\ settlement' = [settlement EXCEPT ![s] = to]
  /\ UNCHANGED <<kind, invoice, period, earned, linked, bill, billed, paysFor, wizard, crossed>>

\* action_cancel
CancelSettlement(s) == SetSettlement(s, "settled", "cancel")

\* action_draft, shown in state "except_invoice"
ResetSettlement(s) ==
  /\ HasLiveBill(s) => "revive" \in Careless
  /\ SetSettlement(s, "except_invoice", "settled")

\* unlink: the lines of the settlement go with it, those of bills stay.
DeleteSettlement(s) ==
  /\ settlement[s] \in {"settled", "cancel", "except_invoice"}
  /\ HasLiveBill(s) => "revive" \in Careless
  /\ settlement' = [settlement EXCEPT ![s] = "none"]
  /\ period' = [period EXCEPT ![s] = NoPeriod]
  /\ earned' = [earned EXCEPT ![s] = {}]
  /\ linked' = [linked EXCEPT ![s] = {}]
  /\ billed' = [b \in Bills |-> billed[b] \ {s}]
  /\ wizard' = wizard \ {s}
  /\ UNCHANGED <<kind, invoice, bill, paysFor, crossed>>

-----------------------------------------------------------------------------
(* Bills of the agent                                                      *)

Billable == {s \in Settlements : settlement[s] = "settled"}

\* _default_settlement_ids, and what the user leaves of them
OpenWizard(ss) ==
  /\ wizard = {} /\ ss # {}
  /\ wizard' = ss
  /\ UNCHANGED <<kind, invoice, settlement, period, earned, linked, bill, billed, paysFor, crossed>>

\* make_invoices, one bill per group, whatever the state of the settlements
MakeBills(ss, groups) ==
  /\ \E of \in Injection(groups, {b \in Bills : bill[b] = "none"}) :
       LET made(b) == UNION {g \in groups : of[g] = b} IN
       /\ bill' = [b \in Bills |-> IF \E g \in groups : of[g] = b THEN "draft" ELSE bill[b]]
       /\ billed' = [b \in Bills |-> billed[b] \cup made(b)]
       /\ paysFor' = [b \in Bills |-> paysFor[b] \cup LinesOf(made(b))]
  /\ settlement' = [s \in Settlements |-> IF s \in ss THEN "invoiced" ELSE settlement[s]]

\* button_create: the settlements of the wizard, or all
ButtonCreate(grouped) ==
  LET ss == IF wizard # {} THEN wizard ELSE Billable IN
  /\ ss # {}
  /\ ss \subseteq Billable \/ "wizard" \in Careless
  /\ MakeBills(ss, IF grouped THEN {ss} ELSE {{s} : s \in ss})
  /\ wizard' = {}
  /\ UNCHANGED <<kind, invoice, period, earned, linked, crossed>>

SetBill(b, from, to) ==
  /\ bill[b] \in from
  /\ bill' = [bill EXCEPT ![b] = to]
  /\ UNCHANGED <<kind, invoice, period, earned, linked, wizard, crossed>>

\* action_post
PostBill(b) ==
  /\ SetBill(b, {"draft"}, "posted")
  /\ settlement' = [s \in Settlements |-> IF s \in billed[b] THEN "invoiced" ELSE settlement[s]]
  /\ UNCHANGED <<billed, paysFor>>

\* button_cancel, of a bill
CancelBill(b) ==
  /\ SetBill(b, {"draft", "posted"}, "cancel")
  /\ settlement' = [s \in Settlements |->
                      IF s \in billed[b] THEN "except_invoice" ELSE settlement[s]]
  /\ UNCHANGED <<billed, paysFor>>

\* button_draft
ResetBill(b) ==
  LET waiting == {s \in billed[b] : settlement[s] = "except_invoice" /\ ~HasLiveBill(s)} IN
  /\ \/ bill[b] = "posted"
     \/ bill[b] = "cancel" /\ waiting = billed[b] /\ paysFor[b] = LinesOf(waiting)
     \/ "revive" \in Careless
  /\ SetBill(b, {"posted", "cancel"}, "draft")
  /\ UNCHANGED <<settlement, billed, paysFor>>

\* unlink, of a bill
DeleteBill(b) ==
  LET back == {s \in billed[b] : settlement[s] = "invoiced"} IN
  /\ bill[b] = "cancel" /\ back # {} => "delete" \in Careless
  /\ SetBill(b, {"draft", "cancel"}, "none")
  /\ settlement' = [s \in Settlements |-> IF s \in back THEN "settled" ELSE settlement[s]]
  /\ billed' = [billed EXCEPT ![b] = {}]
  /\ paysFor' = [paysFor EXCEPT ![b] = {}]

-----------------------------------------------------------------------------
Next ==
  \/ \E l \in Lines : PostInvoice(l) \/ ResetInvoice(l) \/ CancelInvoice(l) \/ RegenerateAgents(l)
  \/ \E l \in PaymentBased : PayInvoice(l)
  \/ \E day \in SettleUpTo, cancelled \in SUBSET Lines : Settle(day, cancelled)
  \/ \E s \in Settlements : CancelSettlement(s) \/ ResetSettlement(s) \/ DeleteSettlement(s)
  \/ \E ss \in SUBSET Billable : OpenWizard(ss)
  \/ \E grouped \in BOOLEAN : ButtonCreate(grouped)
  \/ \E b \in Bills : PostBill(b) \/ CancelBill(b) \/ ResetBill(b) \/ DeleteBill(b)

Spec == Init /\ [][Next]_vars

-----------------------------------------------------------------------------
(* Properties                                                              *)

\* A commission is paid once: no two posted bills of the agent pay for the same
\* line, whatever is cancelled, reset, deleted and settled again in between; and it
\* is not forgotten: an invoiced settlement has a bill that is not cancelled and pays
\* for all its lines (_compute_settled, make_invoices, action_post, button_cancel,
\* unlink).
PaidOnce ==
  /\ \A l \in Lines : \A b1, b2 \in Bills :
       /\ bill[b1] = "posted" /\ l \in paysFor[b1]
       /\ bill[b2] = "posted" /\ l \in paysFor[b2]
       => b1 = b2
  /\ \A s \in Settlements :
       settlement[s] = "invoiced" =>
         \E b \in Bills : /\ bill[b] \in {"draft", "posted"}
                          /\ s \in billed[b] /\ earned[s] \subseteq paysFor[b]

\* No commission on an invoice that is cancelled, unless it was cancelled while the line
\* was settled; and such an invoice, set to draft, cannot be cancelled again while the
\* line is settled (button_cancel of invoices, action_settle).
NoneForCancelled ==
  \A l \in Lines \ crossed : \A s \in Settlements :
    l \in earned[s] /\ settlement[s] # "cancel" => invoice[l] # "cancel"

\* A settlement has the lines of its period, as printed on the bill; only the
\* last day of a month is added to a period that ends the day before (action_settle,
\* _get_next_period_date).
EachInItsPeriod ==
  \A s \in Settlements : \A l \in earned[s] :
    /\ period[s].from <= DayOf[l]
    /\ \/ DayOf[l] <= period[s].to
       \/ DayOf[l] = period[s].to + 1 /\ kind = "biweekly" /\ DayOf[l] + 1 \in Range(FirstDays)
=============================================================================
