--------------------------- MODULE CheckoutBooks ---------------------------
(***************************************************************************)
(* The properties of Checkout that relate the committed rows to everything *)
(* the committed requests did: sums of what was sold, granted and charged. *)
(* They say when the shop's books are right (whenever the requests that    *)
(* wrote a row did not overlap) and what the documentation promises.       *)
(***************************************************************************)
EXTENDS Checkout, Functions

-----------------------------------------------------------------------------
Orders == {r \in Request : OrderVisible(r)}

LinesOf(r, p) == {i \in DOMAIN order[r].lines : order[r].lines[i].product = p}

Units(r, p) ==
  SumFunction([i \in LinesOf(r, p) |-> order[r].lines[i].quantity])

Sold(p) == SumFunction([r \in Orders |-> Units(r, p)])

Subtotal(o) ==
  SumFunction([i \in DOMAIN o.lines |-> o.lines[i].unit_price * o.lines[i].quantity])

GrantsTo(u) ==
  {r \in Request : Committed(r) /\ job[r].op = "grant" /\ job[r].user = u}
OrdersOf(u) == {r \in Orders : order[r].customer = u}

Granted(u) == SumFunction([r \in GrantsTo(u) |-> job[r].amount])
Charged(u) == SumFunction([r \in OrdersOf(u) |-> order[r].total])

Balance(value) == IF value = NoRow THEN 0 ELSE value

StockWriters(p) ==
  {r \in Request : /\ Committed(r)
                   /\ \/ r \in Orders /\ LinesOf(r, p) # {}
                      \/ job[r].op = "patch" /\ job[r].product = p}

StockSet(p) ==
  \E r \in StockWriters(p) : job[r].op = "patch" /\ job[r].stock # NoRow

RepeatedLine(p) == \E r \in Orders : Cardinality(LinesOf(r, p)) > 1

\* No two of these requests were in flight together.
Apart(S) == \A r, q \in S : q \notin met[r]

StockAddsUp(p) == row[p].stock = InitialRow[p].stock - Sold(p)

CreditAddsUp(u) ==
  Balance(row[u]) = Balance(InitialRow[u]) + Granted(u) - Charged(u)

-----------------------------------------------------------------------------
\* An order is charged the prices its lines record, less the discount of the
\* coupon it redeemed, even while the owner patches those prices.
ChargeMatchesLines ==
  \A r \in Orders :
    order[r].total =
      Charge(Subtotal(order[r]),
             IF redemption[r] = NoRow THEN 0 ELSE row[redemption[r].coupon])

\* Units leave the stock once per unit sold, if the requests that wrote the
\* product were served one after the other and none listed it twice.
StockAddsUpWhenApart ==
  \A p \in Product :
    Apart(StockWriters(p)) /\ ~RepeatedLine(p) /\ ~StockSet(p) => StockAddsUp(p)

\* A balance is what was granted less what was charged, if the requests that
\* wrote it were served one after the other.
CreditAddsUpWhenApart ==
  \A u \in User : Apart(GrantsTo(u) \cup OrdersOf(u)) => CreditAddsUp(u)

\* Two requests that read one balance and save it back may lose what the first
\* of them granted or charged.  Nothing else is lost, and nothing is invented:
\* a balance is never below what is left if every grant is lost, never above
\* what is left if every charge is, however requests overlap, fail or collide.
CreditStaysInRange ==
  \A u \in User :
    /\ Balance(row[u]) >= Balance(InitialRow[u]) - Charged(u)
    /\ Balance(row[u]) <= Balance(InitialRow[u]) + Granted(u)

-----------------------------------------------------------------------------
(***************************************************************************)
(* What checkout.py, its comments and its advisory claim without condition *)
(***************************************************************************)

\* checkout.py: "stock is checked before decrement (no oversell)".
NoOversell == \A p \in Product : Sold(p) <= InitialRow[p].stock

\* checkout.py: "coupons are single-use (redemption ledger checked and
\* written)".
CouponsSingleUse ==
  \A r, q \in Request :
    /\ Committed(r) /\ redemption[r] # NoRow
    /\ Committed(q) /\ redemption[q] # NoRow
    /\ redemption[r].coupon = redemption[q].coupon
    => r = q

\* The advisory of iteration 05: "Honour optional checkout idempotency keys
\* for safe retries".
OneOrderPerIdempotencyKey ==
  \A r, q \in Orders :
    job[r].key # NoRow /\ job[r].key = job[q].key => r = q
=============================================================================
