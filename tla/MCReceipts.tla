----------------------------- MODULE MCReceipts -----------------------------
(* Transfers and scraps for the run of Receipts.                           *)
EXTENDS Receipts, TLC

CONSTANTS r1, r2, ret, scrap, more, b1

\* Two receipts, a return, a scrap and a move added to the first receipt.
Quantities == r1 :> 2 @@ r2 :> 1 @@ ret :> 1 @@ scrap :> 1 @@ more :> 1
From == scrap :> r1 @@ more :> r1

\* Two dates that are entered in two days; one, and a bill that is reset; bills that
\* users make, post, reset and cancel while the scheduled action fails once.
SomeBounds ==
  { [days |-> 1, edits |-> 2, manuals |-> 0, posts |-> 0, faults |-> 0],
    [days |-> 1, edits |-> 1, manuals |-> 0, posts |-> 1, faults |-> 0],
    [days |-> 0, edits |-> 0, manuals |-> 1, posts |-> 2, faults |-> 1],
    [days |-> 0, edits |-> 1, manuals |-> 2, posts |-> 0, faults |-> 1] }
=============================================================================
