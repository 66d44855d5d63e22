------------------------------ MODULE Receipts ------------------------------
(***************************************************************************)
(* Receipts and returns of one line of a purchase order: the bills that a   *)
(* scheduled action makes of them (purchase_auto_bill_on_receipt), and the  *)
(* effective dates of transfers and scraps (stock_date_done), which date    *)
(* stock moves, journal entries and the value of what was received          *)
(* (purchase_stock_date_done_revaluation).                                  *)
(*                                                                         *)
(* What a user does is one transaction.  The scheduled action is one of     *)
(* several steps, which reads a snapshot; a row that was written since then *)
(* cannot be written by it, and a user who writes a row it has written      *)
(* waits for its end.                                                       *)
(***************************************************************************)
EXTENDS Integers, FiniteSets, FiniteSetsExt

CONSTANTS
  Pickings,  \* transfers of the order
  Returns,   \* those that return goods, to be refunded
  Scraps,    \* scraps
  Extra,     \* moves that users add to transfers that are done
  Hands,     \* bills and credit notes that users make
  Qty,       \* [m |-> quantity of the move of a transfer or scrap, or an added one]
  Of,        \* [m |-> transfer that a scrap or an added move refers to]
  Bounds     \* bounds of which each behaviour has one: days that pass, dates entered,
             \* interventions of users, bills they post or reset to draft, faults of the
             \* scheduled action

Moves == Pickings \cup Scraps \cup Extra
Docs == Pickings \cup Scraps
NoDate == 0

ASSUME ReceiptsAssumption ==
  /\ IsFiniteSet(Moves) /\ IsFiniteSet(Hands)
  /\ Returns \subseteq Pickings
  /\ Pickings \cap Scraps = {} /\ Docs \cap Extra = {}
  /\ Qty \in [Moves -> Nat \ {0}] /\ Of \in [Scraps \cup Extra -> Pickings \ Returns]
  /\ Bounds \subseteq [days : Nat, edits : Nat, manuals : Nat, posts : Nat,
                 faults : Nat]

VARIABLES
  today, lock,    \* the day; the last day of the period that is locked for good
  done,           \* transfers and scraps that are done, moves that were added
  dateDone,       \* [d |-> effective date of a transfer or scrap, or NoDate]
  origin,         \* [d |-> origin_date_done]
  moveDate,       \* [m |-> date of a move that is done]
  valued,         \* [m |-> day whose exchange rate its value has]
  entry,          \* [m |-> date of its journal entry]
  kept,           \* history: moves last dated while a bill was posted
  blocked,        \* block_auto_bill of the order
  pending,        \* transfers with auto_bill_pending
  auto,           \* [p |-> quantity billed (refunded, if negative) automatically]
  draft,          \* transfers whose automatic bill is not posted
  manual,         \* [b |-> quantity billed (refunded, if negative) by users]
  byHand,         \* those of their bills that are posted
  left,           \* history: transfers whose billing is left to users
  unbilled,       \* history: quantity of the bills that users cancelled
  uncredited,     \* history: quantity of the credit notes that users cancelled
  cron,           \* the transaction of the scheduled action
  bound           \* what is left of its bounds

dates == <<today, lock, dateDone, origin, moveDate, valued, entry, kept>>
billing == <<auto, draft, manual, byHand, left, unbilled, uncredited>>
vars == <<dates, done, blocked, pending, billing, cron, bound>>

Stored == [m \in Moves |-> IF m \in Returns \cup Scraps THEN -Qty[m] ELSE Qty[m]]
Total(f, S) == MapThenSumSet(LAMBDA x : f[x], S)
Stock(d) == Total(Stored, d)
Received(d) == Total(Stored, d \ Scraps)
Invoiced(a, m) == Total(a, Pickings) + Total(m, Hands)

Spend(what) == bound[what] > 0 /\ bound' = [bound EXCEPT ![what] = @ - 1]

\* No scheduled action is running.
Idle == [on |-> FALSE]

Init ==
  /\ today = 1 /\ lock = 0
  /\ done = {}
  /\ dateDone = [d \in Docs |-> NoDate] /\ origin = [d \in Docs |-> NoDate]
  /\ moveDate = [m \in Moves |-> NoDate]
  /\ valued = [m \in Moves |-> NoDate]
  /\ entry = [m \in Moves |-> NoDate] /\ kept = {}
  /\ blocked = FALSE /\ pending = {}
  /\ auto = [p \in Pickings |-> 0] /\ draft = {}
  /\ manual = [b \in Hands |-> 0] /\ byHand = {}
  /\ left = {} /\ unbilled = 0 /\ uncredited = 0
  /\ cron = Idle
  /\ bound \in Bounds

-----------------------------------------------------------------------------
\* Rows the scheduled action has written are locked until its end; rows users write
\* while it runs are stale in its snapshot.

LineFree == ~(cron.on /\ cron.bills # {})
PickingFree(p) == ~(cron.on /\ p \in cron.cleared)
StaleLine == IF cron.on THEN [cron EXCEPT !.staleLine = TRUE] ELSE cron
StalePicking(p) == IF cron.on THEN [cron EXCEPT !.stalePickings = @ \cup {p}] ELSE cron

\* _is_purchase_billed, of the whole line: some bill of it is posted now.
IsPurchaseBilled == byHand # {} \/ \E p \in Pickings : auto[p] # 0 /\ p \notin draft

\* Moves that follow the date of a document: core would date those of its scraps too.
MovesOfDoc(d) == {d} \cup {m \in Extra : Of[m] = d}

\* Moves in ms that are done are given a date; receipts that are not billed are
\* valued anew.
Revalued(ms, date, old) ==
  [m \in Moves |->
    IF m \in ms /\ m \notin Returns \cup Scraps /\ ~IsPurchaseBilled THEN date ELSE old[m]]
Kept(ms) == IF IsPurchaseBilled THEN kept \cup ms ELSE kept \ ms
Dated(ms, date) == [m \in Moves |-> IF m \in ms THEN date ELSE moveDate[m]]

-----------------------------------------------------------------------------
\* Dates.

Tick ==
  /\ Spend("days")
  /\ today' = today + 1
  /\ UNCHANGED <<lock, dateDone, origin, moveDate, valued, entry, kept, done, blocked,
                 pending, billing, cron>>

\* The period before today is locked.
Lock ==
  /\ lock < today - 1
  /\ lock' = today - 1
  /\ UNCHANGED <<today, dateDone, origin, moveDate, valued, entry, kept, done, blocked,
                 pending, billing, cron, bound>>

\* A date is entered before the document is done.  (Core checks that of a transfer.)
EnterDate(d, date) ==
  /\ Spend("edits") /\ d \notin done /\ dateDone[d] # date
  /\ date > lock
  /\ dateDone' = [dateDone EXCEPT ![d] = date]
  /\ UNCHANGED <<today, lock, origin, moveDate, valued, entry, kept, done, blocked,
                 pending, billing, cron>>

\* A user of the group changes the date of a document that is done: write of the
\* transfer or of the scrap.  The new date must not be locked (_check_backdate_allowed);
\* core asks the same of the date a transfer had.
EditDate(d, date) ==
  /\ Spend("edits") /\ d \in done /\ dateDone[d] # date
  /\ date > lock
  /\ d \in Pickings => dateDone[d] > lock /\ PickingFree(d)
  /\ LET ms == MovesOfDoc(d) \cap done
     IN  /\ moveDate' = Dated(ms, date)
         /\ valued' = Revalued(ms, date, valued)
         /\ kept' = Kept(ms)
  /\ dateDone' = [dateDone EXCEPT ![d] = date]
  /\ cron' = IF d \in Pickings THEN StalePicking(d) ELSE cron
  /\ UNCHANGED <<today, lock, origin, entry, done, blocked, pending, billing>>

\* MUTANT: the date that was entered is restored without valuing the move anew.
SetDateDoneUnvalued(d) ==
  LET date == IF dateDone[d] = NoDate THEN today ELSE dateDone[d]
  IN  /\ date > lock
      /\ origin' = [origin EXCEPT ![d] = today]
      /\ dateDone' = [dateDone EXCEPT ![d] = date]
      /\ moveDate' = [moveDate EXCEPT ![d] = date]
      /\ entry' = [entry EXCEPT ![d] = date]
      /\ valued' = [valued EXCEPT ![d] = today]
      /\ kept' = Kept({d})

\* _action_done and do_scrap: core dates the document and its move by today, after
\* the journal entry was dated by the date entered; _set_date_done_origin keeps
\* today and restores that date, whereupon the move is valued anew.
SetDateDone(d) ==
  LET date == IF dateDone[d] = NoDate THEN today ELSE dateDone[d]
  IN  /\ date > lock
      /\ origin' = [origin EXCEPT ![d] = today]
      /\ dateDone' = [dateDone EXCEPT ![d] = date]
      /\ moveDate' = [moveDate EXCEPT ![d] = date]
      /\ entry' = [entry EXCEPT ![d] = date]
      /\ valued' = Revalued({d}, date, [valued EXCEPT ![d] = today])
      /\ kept' = Kept({d})

\* do_scrap; check_negative_qty refuses what is not in stock.
DoScrap(s) ==
  /\ s \notin done /\ Of[s] \in done
  /\ Stock(done \cup {s}) >= 0
  /\ done' = done \cup {s}
  /\ SetDateDone(s)
  /\ UNCHANGED <<today, lock, blocked, pending, billing, cron, bound>>

-----------------------------------------------------------------------------
\* Transfers.

\* _auto_bill_enabled: here the vendor's and the company's settings are on.
AutoBillEnabled == ~blocked

SetBlocked ==
  /\ ~blocked /\ Spend("manuals")
  /\ blocked' = TRUE
  /\ UNCHANGED <<dates, done, pending, billing, cron>>

\* button_validate
ButtonValidate(p) ==
  /\ p \notin done /\ LineFree
  /\ Stock(done \cup {p}) >= 0
  /\ done' = done \cup {p}
  /\ SetDateDone(p)
  /\ pending' = IF AutoBillEnabled THEN pending \cup {p} ELSE pending
  /\ left' = IF AutoBillEnabled THEN left ELSE left \cup {p}
  /\ cron' = StaleLine
  /\ UNCHANGED <<today, lock, blocked, auto, draft, manual, byHand, unbilled, uncredited,
                 bound>>

\* A move is added to a transfer that is done, and is done and dated at once; what
\* comes after the scheduled action, or while it runs, may not be billed by it.
CreateMove(m) ==
  LET p == Of[m]
  IN  /\ m \notin done /\ p \in done /\ LineFree
      /\ done' = done \cup {m}
      /\ moveDate' = [moveDate EXCEPT ![m] = dateDone[p]]
      /\ valued' = Revalued({m}, dateDone[p], [valued EXCEPT ![m] = today])
      /\ kept' = Kept({m})
      /\ entry' = [entry EXCEPT ![m] = dateDone[p]]
      /\ left' = IF p \in pending /\ ~cron.on THEN left ELSE left \cup {p}
      /\ cron' = StaleLine
      /\ UNCHANGED <<today, lock, dateDone, origin, blocked, pending, auto, draft,
                     manual, byHand, unbilled, uncredited, bound>>

-----------------------------------------------------------------------------
\* Bills.

\* A user makes a draft that bills, or refunds, all or some of what is to be invoiced.
BillByHand(b, all) ==
  /\ Spend("manuals") /\ LineFree
  /\ manual[b] = 0
  /\ LET due == Received(done) - Invoiced(auto, manual)
     IN  /\ due # 0
         /\ manual' = [manual EXCEPT ![b] = IF all THEN due ELSE IF due > 0 THEN 1 ELSE -1]
  /\ cron' = StaleLine
  /\ UNCHANGED <<dates, done, blocked, pending, auto, draft, byHand, left, unbilled,
                 uncredited>>

\* A user resets a bill to draft; it still counts as invoiced.
ResetBill(p) ==
  /\ Spend("posts") /\ auto[p] # 0 /\ p \notin draft
  /\ draft' = draft \cup {p}
  /\ UNCHANGED <<dates, done, blocked, pending, auto, manual, byHand, left, unbilled,
                 uncredited, cron>>
ResetByHand(b) ==
  /\ Spend("posts") /\ b \in byHand
  /\ byHand' = byHand \ {b}
  /\ UNCHANGED <<dates, done, blocked, pending, auto, draft, manual, left, unbilled,
                 uncredited, cron>>

\* A user posts a bill that is a draft.
PostBill(p) ==
  /\ Spend("posts") /\ p \in draft
  /\ draft' = draft \ {p}
  /\ UNCHANGED <<dates, done, blocked, pending, auto, manual, byHand, left, unbilled,
                 uncredited, cron>>
PostByHand(b) ==
  /\ Spend("posts") /\ manual[b] # 0 /\ b \notin byHand
  /\ byHand' = byHand \cup {b}
  /\ UNCHANGED <<dates, done, blocked, pending, auto, draft, manual, left, unbilled,
                 uncredited, cron>>

\* A user cancels a bill or credit note, whose quantity is not invoiced any more; no
\* transfer becomes pending again.
Uninvoiced(q) ==
  /\ Spend("manuals") /\ LineFree
  /\ q # 0
  /\ unbilled' = IF q > 0 THEN unbilled + q ELSE unbilled
  /\ uncredited' = IF q < 0 THEN uncredited - q ELSE uncredited
  /\ cron' = StaleLine
  /\ UNCHANGED <<dates, done, blocked, pending, left>>
CancelBill(p) ==
  /\ Uninvoiced(auto[p])
  /\ auto' = [auto EXCEPT ![p] = 0] /\ draft' = draft \ {p}
  /\ UNCHANGED <<manual, byHand>>
CancelByHand(b) ==
  /\ Uninvoiced(manual[b])
  /\ manual' = [manual EXCEPT ![b] = 0] /\ byHand' = byHand \ {b}
  /\ UNCHANGED <<auto, draft>>

-----------------------------------------------------------------------------
\* The scheduled action, _cron_auto_bill.

\* It searches the pending transfers, and sees the line as it is now.
CronStart ==
  /\ ~cron.on /\ pending # {}
  /\ cron' = [on |-> TRUE, todo |-> pending, done |-> done, auto |-> auto,
              manual |-> manual, enabled |-> AutoBillEnabled, cleared |-> {},
              bills |-> {}, drafts |-> {}, failed |-> {},
              staleLine |-> FALSE, stalePickings |-> {}]
  /\ UNCHANGED <<dates, done, blocked, pending, billing, bound>>

MinOf(a, b) == IF a <= b THEN a ELSE b

\* MUTANT: the quantity of the transfer is billed whatever was billed before.
QtyOfPicking(p, toInvoice) ==
  LET qty == Total(Qty, MovesOfDoc(p) \cap cron.done)
  IN  IF p \in Returns THEN IF toInvoice < 0 THEN -qty ELSE 0
      ELSE IF toInvoice > 0 THEN qty ELSE 0

\* What _auto_bill_for_picking bills of transfer p, 0 if its line is not eligible.
QtyToBill(p, toInvoice) ==
  LET qty == Total(Qty, MovesOfDoc(p) \cap cron.done)
  IN  IF p \in Returns THEN IF toInvoice < 0 THEN -MinOf(qty, -toInvoice) ELSE 0
      ELSE IF toInvoice > 0 THEN MinOf(qty, toInvoice) ELSE 0

\* _auto_create_vendor_bill clears the mark of the transfer first.
Cleared(p, c) == [c EXCEPT !.todo = @ \ {p}, !.cleared = @ \cup {p}]

\* MUTANT: an exception clears the mark of the transfer all the same.
CronSkipClearing(p) ==
  /\ cron.on /\ p \in cron.todo /\ p \in cron.stalePickings
  /\ cron' = [Cleared(p, cron) EXCEPT !.stalePickings = @ \ {p}]
  /\ UNCHANGED <<dates, done, blocked, pending, billing, bound>>

\* A transfer that users wrote meanwhile cannot be written: the savepoint of the
\* loop is rolled back and the transfer stays pending.
CronSkip(p) ==
  /\ cron.on /\ p \in cron.todo /\ p \in cron.stalePickings
  /\ cron' = [cron EXCEPT !.todo = @ \ {p}]
  /\ UNCHANGED <<dates, done, blocked, pending, billing, bound>>

ToBill(p) == QtyToBill(p, Received(cron.done) - Invoiced(cron.auto, cron.manual))
CanBill(p) == cron.on /\ p \in cron.todo /\ p \notin cron.stalePickings

\* The order does not want a bill, or there is nothing to bill.
CronNothing(p) ==
  /\ CanBill(p)
  /\ ~cron.enabled \/ ToBill(p) = 0
  /\ cron' = [Cleared(p, cron) EXCEPT !.failed = IF cron.enabled THEN @ ELSE @ \cup {p}]
  /\ UNCHANGED <<dates, done, blocked, pending, billing, bound>>

\* The bill is created, which writes the line, and posted.
CronBill(p) ==
  /\ CanBill(p) /\ cron.enabled /\ ToBill(p) # 0 /\ ~cron.staleLine
  /\ cron' = [Cleared(p, cron) EXCEPT !.bills = @ \cup {p}, !.auto[p] = ToBill(p)]
  /\ UNCHANGED <<dates, done, blocked, pending, billing, bound>>

\* It is created but cannot be posted: it stays a draft, which counts as invoiced.
CronBillUnposted(p) ==
  /\ CanBill(p) /\ cron.enabled /\ ToBill(p) # 0 /\ ~cron.staleLine
  /\ Spend("faults")
  /\ cron' = [Cleared(p, cron) EXCEPT !.bills = @ \cup {p}, !.auto[p] = ToBill(p),
                                      !.drafts = @ \cup {p}]
  /\ UNCHANGED <<dates, done, blocked, pending, billing>>

\* It cannot be created, of itself or because users wrote the line meanwhile: the
\* failure is logged on the order and the transfer is not tried again.
CronFail(p) ==
  /\ CanBill(p) /\ cron.enabled /\ ToBill(p) # 0
  /\ IF cron.staleLine THEN UNCHANGED bound ELSE Spend("faults")
  /\ cron' = [Cleared(p, cron) EXCEPT !.failed = @ \cup {p}]
  /\ UNCHANGED <<dates, done, blocked, pending, billing>>

CronCommit ==
  /\ cron.on /\ cron.todo = {}
  /\ pending' = pending \ cron.cleared
  /\ auto' = [p \in Pickings |-> IF p \in cron.bills THEN cron.auto[p] ELSE auto[p]]
  /\ draft' = draft \cup cron.drafts
  /\ left' = left \cup cron.failed
  /\ cron' = Idle
  /\ UNCHANGED <<dates, done, blocked, manual, byHand, unbilled, uncredited, bound>>

\* The server dies while it runs.
CronCrash ==
  /\ cron.on /\ Spend("faults")
  /\ cron' = Idle
  /\ UNCHANGED <<dates, done, blocked, pending, billing>>

Next ==
  \/ Tick \/ Lock \/ SetBlocked
  \/ \E d \in Docs, date \in 1..today : EnterDate(d, date) \/ EditDate(d, date)
  \/ \E s \in Scraps : DoScrap(s)
  \/ \E p \in Pickings : ButtonValidate(p)
  \/ \E m \in Extra : CreateMove(m)
  \/ \E b \in Hands :
       \/ \E all \in BOOLEAN : BillByHand(b, all)
       \/ ResetByHand(b) \/ PostByHand(b) \/ CancelByHand(b)
  \/ \E p \in Pickings : ResetBill(p) \/ PostBill(p) \/ CancelBill(p)
  \/ CronStart \/ CronCommit \/ CronCrash
  \/ \E p \in Pickings :
       \/ CronSkip(p) \/ CronNothing(p) \/ CronFail(p)
       \/ CronBill(p) \/ CronBillUnposted(p)

Spec == Init /\ [][Next]_vars

-----------------------------------------------------------------------------
\* A move that is done has the effective date of its own document, scrap or
\* transfer, in whatever order dates are entered and changed, moves are added, and
\* bills posted, reset and cancelled; and a receipt has the value of that date, unless
\* it got the date while some bill of the line was posted.
MovesFollowDates ==
  /\ \A d \in Docs \cap done : moveDate[d] = dateDone[d]
  /\ \A m \in Extra \cap done : moveDate[m] = dateDone[Of[m]]
  /\ \A m \in done \ (Scraps \cup Returns \cup kept) : valued[m] = moveDate[m]

\* No more is billed than was received, but for returns that are still to be refunded
\* and credit notes that users cancelled: neither by transfers that are billed in any
\* order, nor by users who bill and cancel while the scheduled action runs.
NeverOverbilled ==
  LET open == {p \in Returns \cap done : p \in pending \cup left}
  IN  Invoiced(auto, manual) <= Received(done) + Total(Qty, open) + uncredited

\* When no transfer is pending and none was left to users, what was received and what
\* is billed differ by no more than what users cancelled.
AllBilled ==
  pending = {} /\ left = {} =>
    LET due == Received(done) - Invoiced(auto, manual)
    IN  -uncredited <= due /\ due <= unbilled
=============================================================================
