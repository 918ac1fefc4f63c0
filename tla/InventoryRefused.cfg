CONSTANTS
  depot = depot
  branch = branch
  flour = flour
  salt = salt
  s1 = s1
  s2 = s2
  k1 = k1
  k2 = k2
  Warehouse = {depot, branch}
  StockItem = {flour}
  Shipment = {s1, s2}
  Clerk = {k1}
  OrderItem = {flour}
  Linked = {s1, s2}
  LineOf <- AllFlour
  Qty <- Single
  From <- FromDepot
  Requested <- AskedOne
  Opening <- TwoInDepot
  Approvals = {1}
  Hand <- NoHand
SPECIFICATION Spec
INVARIANTS
  ArrivalsAreNotRefused
CHECK_DEADLOCK FALSE
