CONSTANTS
  c1 = c1
  s1 = s1
  s2 = s2
  s3 = s3
  s4 = s4
  s5 = s5
  NoCheck = NoCheck
  NoTable = NoTable
  NoOrder = NoOrder
  Check = {c1, c2}
  Table = {}
  Order = {o1, o2}
  Item = {i1}
  Clerk = {k1}
  Waiter = {w1}
  Guest = {}
  Sale = {s1}
  Price <- EvenPrices
  SaleCheck <- OnOneCheck
  SaleKey <- OwnKeys
  Amount <- ThreeUnits
  Rounding <- NoRounding
  Step = 2
  Ceiling = 0
  Flows = {"full", "simple"}
  Asks = {"accepted", "preparing", "ready", "delivered", "rejected", "cancelled"}
SYMMETRY OrderSymmetry
SPECIFICATION Spec
INVARIANTS
  TypeOK
  NoFoodForDeadChecks
  ClosedChecksArePaid
  OrphanedMoneyWasRaced
PROPERTIES
  SettledChecksAreStill
CHECK_DEADLOCK FALSE
