CONSTANTS
  c1 = c1
  s1 = s1
  s2 = s2
  s3 = s3
  s4 = s4
  s5 = s5
  NoCheck = NoCheck
  NoTable = NoTable
  NoOrder = NoOrder
  Check = {c1, c2}
  Table = {t1, t2}
  Order = {o1, o2}
  Item = {i1, i2}
  Clerk = {k1}
  Waiter = {}
  Guest = {g1, g2}
  Sale = {}
  Price <- EvenPrices
  SaleCheck <- OnOneCheck
  SaleKey <- OwnKeys
  Amount <- TwoUnits
  Rounding <- NoRounding
  Step = 2
  Ceiling = 0
  Flows = {}
  Asks = {}
SYMMETRY FloorSymmetry
SPECIFICATION Spec
INVARIANTS
  FloorPlanAgrees
  OneOpenCheckPerTable
CHECK_DEADLOCK FALSE
