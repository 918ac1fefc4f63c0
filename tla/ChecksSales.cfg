CONSTANTS
  c1 = c1
  s1 = s1
  s2 = s2
  s3 = s3
  s4 = s4
  s5 = s5
  NoCheck = NoCheck
  NoTable = NoTable
  NoOrder = NoOrder
  Check = {c1}
  Table = {}
  Order = {o1}
  Item = {i1, i2}
  Clerk = {}
  Waiter = {}
  Guest = {}
  Sale = {s1, s2, s3, s4, s5}
  Price <- EvenPrices
  SaleCheck <- LastWithoutCheck
  SaleKey <- RetriedKey
  Amount <- TwoUnits
  Rounding <- RoundedByOne
  Step = 2
  Ceiling = 1
  Flows = {}
  Asks = {}
SYMMETRY ItemSymmetry
SPECIFICATION Spec
INVARIANTS
  RetriesDoNotRefuseThemselves
  RoundingWithinCeiling
  DoubleChargeNeedsAFlip
CHECK_DEADLOCK FALSE
