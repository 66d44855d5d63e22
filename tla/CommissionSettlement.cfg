\* Settlements and bills of one agent.
CONSTANTS
  a = a
  b = b
  Lines = {a, b}
  DayOf <- January
  PaymentBased = {a}
  Kinds = {"biweekly", "quaterly"}
  Careless = {}
  SettleUpTo = {20, 366}
  MaxSettlements = 2
  MaxBills = 2
SPECIFICATION Spec
INVARIANTS
  PaidOnce
  NoneForCancelled
  EachInItsPeriod
CHECK_DEADLOCK FALSE
