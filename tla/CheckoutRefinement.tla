------------------------- MODULE CheckoutRefinement -------------------------
(***************************************************************************)
(* Checkout implements Shop when requests are served one after the other   *)
(* and no cart lists a product twice.  The rows of a request come into     *)
(* being, for everybody else, at its commit.                               *)
(***************************************************************************)
EXTENDS CheckoutBooks

IfCommitted(inserted) ==
  [r \in Request |-> IF Committed(r) THEN inserted[r] ELSE NoRow]

TheShop ==
  INSTANCE Shop WITH order <- IfCommitted(order),
                     redemption <- IfCommitted(redemption),
                     served <- {r \in Request : Committed(r)}

\* The statements of PlaceOrder, GrantCredits, UpdateProduct, CreateCoupon and
\* ApplyCouponToOrder, and the commit or rollback of get_session after them,
\* amount to one atomic step of the shop or to none.
ImplementsShop == TheShop!Spec
=============================================================================
