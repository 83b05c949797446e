---------------------------- MODULE Authorization ----------------------------
(***************************************************************************)
(* The authorization policies of domain/authorization.py: pure predicates  *)
(* of an actor and a store or an order, called by every use case before it *)
(* touches a row.  An actor is a record with the fields id, role and       *)
(* store; an order is anything with the fields store and customer.         *)
(***************************************************************************)

Roles == {"admin", "store_owner", "customer", "delivery_manager"}

\* Staff of no particular store: they see every store.
IsGlobal(actor) == actor.role \in {"admin", "delivery_manager"}

\* A store owner or a customer of this very store.
IsOf(actor, store) ==
  /\ actor.role \in {"store_owner", "customer"}
  /\ actor.store = store

can_list_all_stores(actor) == IsGlobal(actor)

can_read_store(actor, store) == IsGlobal(actor) \/ IsOf(actor, store)

can_create_store(actor) == actor.role = "admin"

can_read_store_catalog(actor, store) == IsGlobal(actor) \/ IsOf(actor, store)

can_write_store_catalog(actor, store) ==
  \/ actor.role = "admin"
  \/ actor.role = "store_owner" /\ actor.store = store

can_read_order(actor, order) ==
  \/ IsGlobal(actor)
  \/ actor.role = "store_owner" /\ actor.store = order.store
  \/ actor.role = "customer" /\ actor.id = order.customer

can_list_store_orders(actor, store) == IsGlobal(actor) \/ IsOf(actor, store)

can_update_order_status(actor, order) ==
  \/ IsGlobal(actor)
  \/ actor.role = "store_owner" /\ actor.store = order.store

must_anonymize_order_for(actor) == actor.role = "delivery_manager"

can_list_users(actor) == actor.role = "admin"

can_list_audit_events(actor) == actor.role = "admin"

can_write_store_theme(actor, store) == can_write_store_catalog(actor, store)

can_manage_order_receipt(actor, order) ==
  \/ actor.role = "admin"
  \/ actor.role = "store_owner" /\ actor.store = order.store
  \/ actor.role = "customer" /\ actor.id = order.customer

can_update_order_notes(actor, order) == can_manage_order_receipt(actor, order)

can_grant_credits(actor) == actor.role \in {"admin", "customer"}

can_manage_coupons(actor, store) == can_write_store_catalog(actor, store)

can_place_order(actor, store) ==
  \/ actor.role = "admin"
  \/ actor.role = "customer" /\ actor.store = store

\* RevenueAccessPolicy of use_cases/revenue.py.
can_read_store_revenue(actor, store) ==
  \/ actor.role = "admin"
  \/ actor.role = "store_owner" /\ actor.store = store
=============================================================================
