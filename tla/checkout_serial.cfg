\* One request at a time, no product twice in a cart: the shop as promised.
SPECIFICATION Spec
CONSTANTS
  Request <- MCRequest3
  Key <- MCKey
  NoRow = NoRow
  Nobody = Nobody
  User <- MCUser
  Store <- MCStore
  Product <- MCProduct
  Coupon <- MCCoupon
  IdempotencyKey = {k1}
  Account <- MCAccount
  StoreOf <- MCStoreOf
  InitialRow <- MCInitialRow
  Checkouts <- SerialCheckouts
  Grants <- RaceGrants
  Patches <- SerialPatches
  Applications <- SerialApplications
  Creations <- SerialCreations
  MaxInFlight = 1
  r1 = r1
  r2 = r2
  r3 = r3
  alice = alice
  bob = bob
  olive = olive
  north = north
  south = south
  apple = apple
  pear = pear
  plum = plum
  SAVE = SAVE
  FRESH = FRESH
  FAR = FAR
  k1 = k1
INVARIANTS
  NoOversell
  CouponsSingleUse
PROPERTIES
  ImplementsShop
