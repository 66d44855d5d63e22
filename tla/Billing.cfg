SPECIFICATION SpecBilling
CONSTANTS
  inv = inv
  ref = ref
  Invoices = {inv, ref}
  Refunds = {ref}
  Amount <- Amounts2
  DueOn <- Days
  TaxDiff <- RoundedUp
  Billings = {1, 2, 3}
  Dates = {1, 2, 3}
  None = None
  Careless = {}
  MaxValidations = 3
  MaxEvents = 3
INVARIANTS
  BilledAndAdjusted
  CarriesWhatIsOwed
PROPERTIES
  TotalIsFrozen
CHECK_DEADLOCK FALSE
