----------------------------- MODULE MCCheckout -----------------------------
(***************************************************************************)
(* Small instances of CheckoutBooks: two stores, three products, two     *)
(* customers of the first store and its owner.  Each run chooses the       *)
(* bodies that clients send.                                               *)
(***************************************************************************)
EXTENDS CheckoutRefinement, TLC

CONSTANTS r1, r2, r3,
          alice, bob, olive,        \* two customers, a store owner
          north, south,             \* stores
          apple, pear, plum,        \* plum is sold by the other store
          SAVE, FRESH, FAR,         \* coupons: FRESH does not exist yet,
                                    \* FAR is of the other store
          k1

MCRequest2 == {r1, r2}
MCRequest3 == {r1, r2, r3}
MCUser == {alice, bob, olive}
MCStore == {north, south}
MCProduct == {apple, pear, plum}
MCCoupon == {SAVE, FRESH, FAR}
MCKey == MCUser \cup MCProduct \cup MCCoupon

MCAccount ==
  alice :> [id |-> alice, role |-> "customer", store |-> north]
  @@ bob :> [id |-> bob, role |-> "customer", store |-> north]
  @@ olive :> [id |-> olive, role |-> "store_owner", store |-> north]

MCStoreOf ==
  apple :> north @@ pear :> north @@ plum :> south @@ SAVE :> north @@ FRESH :> north
  @@ FAR :> south

MCInitialRow ==
  apple :> [stock |-> 2, price |-> 4, active |-> TRUE]
  @@ pear :> [stock |-> 1, price |-> 3, active |-> TRUE]
  @@ plum :> [stock |-> 1, price |-> 1, active |-> TRUE]
  @@ alice :> 9 @@ bob :> NoRow @@ olive :> NoRow
  @@ SAVE :> 50 @@ FRESH :> NoRow @@ FAR :> 20

L(p, n) == [product |-> p, quantity |-> n]
Place(u, lines, c, key) ==
  [op |-> "place", actor |-> u, store |-> north, lines |-> lines,
   coupon |-> c, key |-> key]
Grant(u, n) == [op |-> "grant", actor |-> u, user |-> u, amount |-> n]
Patch(p, s, c, a) ==
  [op |-> "patch", actor |-> olive, product |-> p, stock |-> s, price |-> c,
   active |-> a]
Apply(u, o, c) == [op |-> "apply", actor |-> u, order |-> o, coupon |-> c]
Create(u, c, n) == [op |-> "create", actor |-> u, coupon |-> c, percent |-> n]

\* Carts that write the same rows in opposite orders, that ask for too much
\* and that name a product of another store.
RaceCheckouts ==
  {Place(alice, <<L(apple, 1), L(pear, 1)>>, SAVE, NoRow),
   Place(bob, <<L(pear, 1), L(apple, 1)>>, NoRow, NoRow),
   Place(alice, <<L(apple, 2)>>, FRESH, NoRow),
   Place(alice, <<L(plum, 1)>>, NoRow, NoRow)}
RaceGrants == {Grant(alice, 3), Grant(bob, 7)}
RacePatches == {Patch(apple, NoRow, 5, NoRow), Patch(pear, 2, NoRow, FALSE)}
RaceApplications == {Apply(alice, r1, SAVE), Apply(alice, r1, FAR)}
RaceCreations == {Create(olive, FRESH, 25), Create(bob, FRESH, 25)}

\* Served one at a time: carts without repetitions, every other kind of body.
SerialCheckouts ==
  {Place(alice, <<L(apple, 1), L(pear, 1)>>, SAVE, NoRow),
   Place(alice, <<L(apple, 2)>>, FRESH, NoRow),
   Place(bob, <<L(pear, 1)>>, SAVE, NoRow),
   Place(bob, <<L(apple, 1), L(plum, 1)>>, NoRow, NoRow),
   Place(olive, <<L(apple, 1)>>, NoRow, NoRow)}
SerialPatches ==
  {Patch(apple, NoRow, 5, NoRow), Patch(pear, 2, NoRow, FALSE),
   Patch(plum, 5, NoRow, NoRow)}
SerialApplications ==
  {Apply(alice, r1, SAVE), Apply(bob, r1, FRESH), Apply(olive, r2, FRESH)}
SerialCreations ==
  {Create(olive, FRESH, 25), Create(olive, FRESH, 100), Create(olive, FRESH, 101)}

\* The three bodies behind the findings.
RepeatedLineCheckouts == {Place(alice, <<L(pear, 1), L(pear, 1)>>, NoRow, NoRow)}
LastUnitCheckouts == {Place(alice, <<L(pear, 1)>>, NoRow, NoRow)}
CouponCheckouts == {Place(alice, <<L(apple, 1)>>, SAVE, NoRow)}
RetriedCheckouts == {Place(alice, <<L(apple, 1)>>, NoRow, k1)}
=============================================================================
