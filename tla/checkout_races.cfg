\* Overlapping requests of every kind: the books, and progress through opposite
\* lock orders and colliding inserts.
SPECIFICATION FairSpec
CONSTANTS
  Request <- MCRequest3
  Key <- MCKey
  NoRow = NoRow
  Nobody = Nobody
  User <- MCUser
  Store <- MCStore
  Product <- MCProduct
  Coupon <- MCCoupon
  IdempotencyKey = {k1}
  Account <- MCAccount
  StoreOf <- MCStoreOf
  InitialRow <- MCInitialRow
  Checkouts <- RaceCheckouts
  Grants <- RaceGrants
  Patches <- RacePatches
  Applications <- RaceApplications
  Creations <- RaceCreations
  MaxInFlight = 2
  r1 = r1
  r2 = r2
  r3 = r3
  alice = alice
  bob = bob
  olive = olive
  north = north
  south = south
  apple = apple
  pear = pear
  plum = plum
  SAVE = SAVE
  FRESH = FRESH
  FAR = FAR
  k1 = k1
INVARIANTS
  TypeOK
  NoStrayVersions
  BalanceNonNegative
  StockNonNegative
  RedemptionsHaveOrders
  ChargeMatchesLines
  StockAddsUpWhenApart
  CreditAddsUpWhenApart
  CouponReuseNeedsOverlap
  CouponsIssuedOnce
  CreditStaysInRange
PROPERTIES
  RequestsFinish
