SPECIFICATION Spec
CONSTANTS
  r1 = r1
  r2 = r2
  ret = ret
  scrap = scrap
  more = more
  Pickings = {r1, r2, ret}
  Returns = {ret}
  Scraps = {scrap}
  Extra = {more}
  b1 = b1
  Hands = {b1}
  Qty <- Quantities
  Of <- From
  Bounds <- SomeBounds
INVARIANTS
  
  NeverOverbilled
  AllBilled
CHECK_DEADLOCK FALSE
