CONSTANTS
  depot = depot
  branch = branch
  flour = flour
  salt = salt
  s1 = s1
  s2 = s2
  k1 = k1
  k2 = k2
  Warehouse = {depot, branch}
  StockItem = {flour, salt}
  Shipment = {s1, s2}
  Clerk = {k1, k2}
  OrderItem = {flour, salt}
  Linked = {s1, s2}
  LineOf <- OneEach
  Qty <- Single
  From <- FromDepot
  Requested <- AskedOne
  Opening <- OneInDepot
  Approvals = {0}
  Hand <- Issued
SYMMETRY ClerkSymmetry
SPECIFICATION Spec
INVARIANTS
  StockIsConserved
  OrderCountsAgree
  GoodsMoveForLiveOrders
  OrdersCloseOnDelivery
CHECK_DEADLOCK FALSE
