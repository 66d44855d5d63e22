----------------------- MODULE MCCommissionSettlement -----------------------
(* Lines and dates of the runs of CommissionSettlement.                    *)
EXTENDS CommissionSettlement

CONSTANTS a, b

\* A line of the first half of January and one of its last day: the same quarter,
\* two periods of half a month.
January == [l \in Lines |-> IF l = a THEN 10 ELSE 30]

\* The whole calendar: each day lies in the period that is computed for it, and
\* a period starts where the one before ends; but for the last day of a month.
ASSUME CalendarAssumption ==
  \A k \in AllKinds : \A day \in 0 .. 365 :
    LET p == PeriodOf(k, day)
        missing == IF k = "biweekly" /\ p.to + 2 \in Range(FirstDays) THEN 1 ELSE 0
    IN
    /\ p.from <= day /\ day <= p.to + missing
    /\ p.to + 1 + missing <= 365 => PeriodOf(k, p.to + 1 + missing).from = p.to + 1 + missing
=============================================================================
