\* Two checkouts of the last unit.
SPECIFICATION Spec
CONSTANTS
  Request <- MCRequest2
  Key <- MCKey
  NoRow = NoRow
  Nobody = Nobody
  User <- MCUser
  Store <- MCStore
  Product <- MCProduct
  Coupon <- MCCoupon
  IdempotencyKey = {k1}
  Account <- MCAccount
  StoreOf <- MCStoreOf
  InitialRow <- MCInitialRow
  Checkouts <- LastUnitCheckouts
  Grants = {}
  Patches = {}
  Applications = {}
  Creations = {}
  MaxInFlight = 2
  r1 = r1
  r2 = r2
  r3 = r3
  alice = alice
  bob = bob
  olive = olive
  north = north
  south = south
  apple = apple
  pear = pear
  plum = plum
  SAVE = SAVE
  FRESH = FRESH
  FAR = FAR
  k1 = k1
INVARIANTS
  NoOversell
