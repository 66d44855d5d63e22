----------------------------- MODULE MCBilling -----------------------------
(* Amounts, dates and taxes for the runs of Billing.                       *)
EXTENDS Billing, TLC

CONSTANTS inv, ref

\* An invoice, and a credit note of a later date.
Amounts2 == inv :> 3 @@ ref :> 2
Days == inv :> 1 @@ ref :> 2

\* The tax recomputed for the invoice, alone or not, is higher by one.
RoundedUp == [lines \in SUBSET {inv, ref} |-> IF inv \in lines THEN 1 ELSE 0]
\* Here it is lower by one.
RoundedDown == [lines \in SUBSET {inv, ref} |-> IF inv \in lines THEN -1 ELSE 0]
=============================================================================
