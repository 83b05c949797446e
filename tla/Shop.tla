-------------------------------- MODULE Shop --------------------------------
(***************************************************************************)
(* What the shop promises its customers and owners: every request takes    *)
(* effect at most once and at one instant, and then stock, credit, orders  *)
(* and redemptions change together.  A cart is a bag of products here:     *)
(* what matters of it is how many units of each product it demands.        *)
(***************************************************************************)
EXTENDS Integers, FiniteSets, Functions, Authorization

CONSTANTS Request, Key, NoRow, Product, Account, StoreOf, InitialRow, Jobs

VARIABLES row,          \* stock, price, balance, discount: the shared rows
          order,        \* the order each request placed, or NoRow
          redemption,   \* the coupon each request redeemed, or NoRow
          served        \* the requests that took effect

shopvars == <<row, order, redemption, served>>

Init ==
  /\ row = InitialRow
  /\ order = [r \in Request |-> NoRow]
  /\ redemption = [r \in Request |-> NoRow]
  /\ served = {}

Serve(r) == r \notin served /\ served' = served \cup {r}

Balance(u) == IF row[u] = NoRow THEN 0 ELSE row[u]

LinesFor(j, p) == {i \in DOMAIN j.lines : j.lines[i].product = p}
InCart(j) == {p \in Product : LinesFor(j, p) # {}}
Demand(j, p) == SumFunction([i \in LinesFor(j, p) |-> j.lines[i].quantity])
Price(j) == SumFunction([p \in InCart(j) |-> row[p].price * Demand(j, p)])

Discounted(cents, percent) == cents - (cents * percent) \div 100
Total(j) ==
  Discounted(Price(j), IF j.coupon = NoRow THEN 0 ELSE row[j.coupon])

\* A coupon of this store that nobody has redeemed.
Redeemable(c, store) ==
  /\ StoreOf[c] = store
  /\ row[c] # NoRow
  /\ \A q \in Request : redemption[q] # NoRow => redemption[q].coupon # c

Buy(r, j) ==
  /\ Serve(r)
  /\ can_place_order(Account[j.actor], j.store)
  /\ InCart(j) # {} /\ \A i \in DOMAIN j.lines : j.lines[i].quantity > 0
  /\ \A p \in InCart(j) : /\ StoreOf[p] = j.store
                          /\ row[p].active
                          /\ row[p].stock >= Demand(j, p)
  /\ j.coupon # NoRow => Redeemable(j.coupon, j.store)
  /\ Balance(j.actor) >= Total(j)
  /\ row' = [k \in Key |->
       IF k \in InCart(j) THEN [row[k] EXCEPT !.stock = @ - Demand(j, k)]
       ELSE IF k = j.actor THEN Balance(j.actor) - Total(j)
       ELSE row[k]]
  /\ order' = [order EXCEPT ![r] =
       [store |-> j.store, customer |-> j.actor, total |-> Total(j),
        lines |-> [i \in DOMAIN j.lines |->
                    [product |-> j.lines[i].product,
                     quantity |-> j.lines[i].quantity,
                     unit_price |-> row[j.lines[i].product].price]]]]
  /\ redemption' = [redemption EXCEPT ![r] =
       IF j.coupon = NoRow THEN NoRow ELSE [coupon |-> j.coupon, order |-> r]]

Grant(r, j) ==
  /\ Serve(r)
  /\ can_grant_credits(Account[j.actor])
  /\ Account[j.actor].role = "customer" => j.actor = j.user
  /\ row' = [row EXCEPT ![j.user] = Balance(j.user) + j.amount]
  /\ UNCHANGED <<order, redemption>>

Edit(r, j) ==
  /\ Serve(r)
  /\ can_write_store_catalog(Account[j.actor], StoreOf[j.product])
  /\ row' = [row EXCEPT ![j.product] =
       [stock |-> IF j.stock = NoRow THEN @.stock ELSE j.stock,
        price |-> IF j.price = NoRow THEN @.price ELSE j.price,
        active |-> IF j.active = NoRow THEN @.active ELSE j.active]]
  /\ UNCHANGED <<order, redemption>>

Redeem(r, j) ==
  /\ Serve(r)
  /\ order[j.order] # NoRow
  /\ can_read_order(Account[j.actor], order[j.order])
  /\ Redeemable(j.coupon, order[j.order].store)
  /\ redemption' = [redemption EXCEPT ![r] =
       [coupon |-> j.coupon, order |-> j.order]]
  /\ UNCHANGED <<row, order>>

Issue(r, j) ==
  /\ Serve(r)
  /\ can_manage_coupons(Account[j.actor], StoreOf[j.coupon])
  /\ row[j.coupon] = NoRow
  /\ row' = [row EXCEPT ![j.coupon] = j.percent]
  /\ UNCHANGED <<order, redemption>>

Next ==
  \E r \in Request, j \in Jobs :
    \/ j.op = "place" /\ Buy(r, j)
    \/ j.op = "grant" /\ Grant(r, j)
    \/ j.op = "patch" /\ Edit(r, j)
    \/ j.op = "apply" /\ Redeem(r, j)
    \/ j.op = "create" /\ Issue(r, j)

Spec == Init /\ [][Next]_shopvars
=============================================================================
