-------------------------- MODULE MCOrderLifecycle --------------------------
(***************************************************************************)
(* One order, its customer, a delivery manager and the owner of another    *)
(* store.                                                                  *)
(***************************************************************************)
EXTENDS OrderLifecycle, TLC

CONSTANTS o1, alice, dave, oscar, north, south

MCUser == {alice, dave, oscar}
MCAccount ==
  alice :> [id |-> alice, role |-> "customer", store |-> north]
  @@ dave :> [id |-> dave, role |-> "delivery_manager", store |-> NoRow]
  @@ oscar :> [id |-> oscar, role |-> "store_owner", store |-> south]
MCPlaced == o1 :> [store |-> north, customer |-> alice]
MCNote == {"", "ring twice"}

MCStatusUpdates ==
  {[op |-> "status", actor |-> dave, order |-> o1, target |-> s] : s \in Status}
  \cup {[op |-> "status", actor |-> oscar, order |-> o1, target |-> "confirmed"]}
MCNoteUpdates ==
  {[op |-> "notes", actor |-> alice, order |-> o1, target |-> n] : n \in Note}
  \cup {[op |-> "notes", actor |-> dave, order |-> o1, target |-> ""]}
=============================================================================
