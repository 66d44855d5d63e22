SPECIFICATION Spec
CONSTANTS
  Orders = {o1, o2}
  Copies = 3
  Steps = {"validate_order", "create_invoice", "validate_invoice", "sale_done", "register_payment"}
  Filters = {"shipped", "posted"}
  MaxUsers = 4
  MaxFaults = 2
INVARIANTS
  StepsDoneOnce
PROPERTIES
  EveryOrderCompletes
