--------------------------- MODULE OrderLifecycle ---------------------------
(***************************************************************************)
(* The life of an order after checkout: UpdateOrderStatus and              *)
(* UpdateOrderNotes of application/use_cases/orders.py over the table of   *)
(* domain/order_status_transitions.py, with the repository methods they    *)
(* call.  A Request is a thread of the server's pool here: it serves one   *)
(* request after another, each in a transaction of its own.                *)
(***************************************************************************)
EXTENDS Database, Authorization

CONSTANTS User, Account,   \* as in module Checkout
          Placed,          \* [Key -> [store, customer]]: the orders
          Note,            \* the texts of notes; "" is among them
          StatusUpdates,   \* bodies of PATCH /orders/{id}/status
          NoteUpdates      \* bodies of PATCH /orders/{id}/notes

Status ==
  {"pending", "confirmed", "packed", "in_transit", "delivered", "cancelled"}

ALLOWED_ORDER_STATUS_TRANSITIONS ==
  [pending |-> {"confirmed", "cancelled"},
   confirmed |-> {"packed", "cancelled"},
   packed |-> {"in_transit", "cancelled"},
   in_transit |-> {"delivered"},
   delivered |-> {},
   cancelled |-> {}]

is_allowed_order_status_transition(current, target) ==
  \/ current = target
  \/ target \in ALLOWED_ORDER_STATUS_TRANSITIONS[current]

OrderRow == [status : Status, notes : Note]
Update ==
  [op : {"status"}, actor : User, order : Key, target : Status]
  \cup [op : {"notes"}, actor : User, order : Key, target : Note]

ASSUME LifecycleAssumption ==
  /\ "" \in Note
  /\ NoRow \notin StatusUpdates \cup NoteUpdates
  /\ \A j \in StatusUpdates : j \in Update /\ j.op = "status"
  /\ \A j \in NoteUpdates : j \in Update /\ j.op = "notes"

VARIABLES
  job,      \* the body each thread is serving
  pc,       \* its next statement
  past,     \* history: every status each order has had
  stale     \* history: the status r read has been replaced since

vars == <<row, latest, writer, job, pc, past, stale>>

InFlight == {r \in Request : pc[r] # "idle"}

Init ==
  /\ DatabaseInit([o \in Key |-> [status |-> "pending", notes |-> ""]])
  /\ job = [r \in Request |-> NoRow]
  /\ pc = [r \in Request |-> "idle"]
  /\ past = [o \in Key |-> {"pending"}]
  /\ stale = [r \in Request |-> FALSE]

Goto(r, label) == pc' = [pc EXCEPT ![r] = label]

Begin(r) ==
  /\ pc[r] = "idle"
  /\ \E j \in StatusUpdates \cup NoteUpdates : job' = [job EXCEPT ![r] = j]
  /\ Goto(r, "read")
  /\ UNCHANGED <<row, latest, writer, past, stale>>

Permitted(r) ==
  LET actor == Account[job[r].actor]
      order == Placed[job[r].order]
  IN  IF job[r].op = "status" THEN can_update_order_status(actor, order)
      ELSE can_update_order_notes(actor, order)

\* Mutants of Resolved: the resolver fails open, as it did before it was
\* remediated; and it looks at a version that is not committed.
ResolvedOpen(r) == TRUE
ResolvedDirty(r) ==
  job[r].op = "status" =>
    is_allowed_order_status_transition(latest[job[r].order].status, job[r].target)

\* resolve_order_status_transition raises ConflictError otherwise.
Resolved(r) ==
  job[r].op = "status" =>
    is_allowed_order_status_transition(
      Visible(r, job[r].order).status, job[r].target)

\* get_by_id, the authorization check and the transition table: the last
\* look at the status before it is overwritten.
Read(r) ==
  /\ pc[r] = "read"
  /\ Permitted(r) /\ Resolved(r)
  /\ stale' = [stale EXCEPT ![r] = FALSE]
  /\ Goto(r, "select")
  /\ UNCHANGED <<row, latest, writer, job, past>>

\* Mutant of WithUpdate: update_status resets the notes to their default.
WithUpdateResetting(r, base) ==
  IF job[r].op = "status" THEN [status |-> job[r].target, notes |-> ""]
  ELSE [base EXCEPT !.notes = job[r].target]

WithUpdate(r, base) ==
  IF job[r].op = "status" THEN [base EXCEPT !.status = job[r].target]
  ELSE [base EXCEPT !.notes = job[r].target]

\* The SELECT of update_status and update_notes: an equal value needs no
\* UPDATE.
Select(r) ==
  LET seen == Visible(r, job[r].order)
  IN  /\ pc[r] = "select"
      /\ Goto(r, IF WithUpdate(r, seen) = seen THEN "commit" ELSE "update")
      /\ UNCHANGED <<row, latest, writer, job, past, stale>>

\* Their UPDATE, of one column of the newest version of the row.
UpdateRow(r) ==
  LET o == job[r].order
  IN  /\ pc[r] = "update"
      /\ Lockable(r, o)
      /\ Put(r, o, WithUpdate(r, latest[o]))
      /\ Goto(r, "commit")
      /\ UNCHANGED <<job, past, stale>>

\* Mutant of Finish: the thread drops the body and goes on.
FinishEarly(r) ==
  /\ job' = [job EXCEPT ![r] = NoRow]
  /\ UNCHANGED pc

Finish(r) ==
  /\ job' = [job EXCEPT ![r] = NoRow]
  /\ Goto(r, "idle")

Commit(r) ==
  LET o == job[r].order
  IN  /\ pc[r] = "commit"
      /\ Publish(r)
      /\ Finish(r)
      /\ past' = [past EXCEPT ![o] = @ \cup {Visible(r, o).status}]
      /\ stale' = [q \in Request |->
           /\ q # r
           /\ \/ stale[q]
              \/ /\ q \in InFlight
                 /\ job[q].order = o
                 /\ Visible(r, o).status # row[o].status]

\* Mutant of Rollback: the request is tried again.
RollbackRetrying(r) ==
  /\ Discard(r)
  /\ Goto(r, "read")
  /\ UNCHANGED <<job, past, stale>>

\* get_session after an exception.
Rollback(r) ==
  /\ Discard(r)
  /\ Finish(r)
  /\ stale' = [stale EXCEPT ![r] = FALSE]
  /\ UNCHANGED past

Refuse(r) == pc[r] = "read" /\ ~(Permitted(r) /\ Resolved(r)) /\ Rollback(r)

\* Any statement may fail: connection lost, process killed.
Fail(r) == r \in InFlight /\ Rollback(r)

Step(r) == Read(r) \/ Select(r) \/ UpdateRow(r) \/ Commit(r) \/ Refuse(r)

Next == \E r \in Request : Begin(r) \/ Step(r) \/ Fail(r)

Spec == Init /\ [][Next]_vars

\* A thread serves its request to the end.  It waits for at most one lock,
\* whose holder waits for none, and PostgreSQL grants a lock to a waiter even
\* if others keep asking for it: UpdateRow is strongly fair.
FairSpec ==
  /\ Spec
  /\ \A r \in Request : WF_vars(Step(r)) /\ SF_vars(UpdateRow(r))

-----------------------------------------------------------------------------
TypeOK ==
  /\ row \in [Key -> OrderRow]
  /\ latest \in [Key -> OrderRow]
  /\ writer \in [Key -> Request \cup {Nobody}]
  /\ job \in [Request -> StatusUpdates \cup NoteUpdates \cup {NoRow}]
  /\ pc \in [Request -> {"idle", "read", "select", "update", "commit"}]
  /\ \A r \in Request : pc[r] # "idle" => job[r] # NoRow
  /\ past \in [Key -> SUBSET Status]
  /\ stale \in [Request -> BOOLEAN]

\* Whatever updates race, every status an order has had, except the first, was
\* reached from a status that it also had and that allows it: an order is
\* never delivered that has not been in transit, packed and confirmed.
StatusesAreReached ==
  \A o \in Key :
    /\ row[o].status \in past[o]
    /\ \A s \in past[o] \ {"pending"} :
         \E t \in past[o] : s \in ALLOWED_ORDER_STATUS_TRANSITIONS[t]

Changes(o) == row'[o].status # row[o].status

\* A status changes against the table only if another change of the status was
\* committed between the read and the commit of the request that changes it.
LegalUnlessStale ==
  [][\A o \in Key :
       Changes(o) =>
         \/ is_allowed_order_status_transition(row[o].status, row'[o].status)
         \/ \E r \in Request : /\ pc[r] = "commit" /\ pc'[r] = "idle"
                               /\ stale[r] /\ job[r].order = o]_vars

\* An edit of the notes never brings back an old status, nor a change of
\* status old notes, although both rewrite the same row.
ColumnsAreIndependent ==
  [][\A o \in Key, r \in Request :
       /\ pc[r] = "commit" /\ pc'[r] = "idle"
       /\ job[r].order = o
       => IF job[r].op = "notes" THEN row'[o].status = row[o].status
          ELSE row'[o].notes = row[o].notes]_vars

\* Every update is answered.
UpdatesFinish == \A r \in Request : pc[r] # "idle" ~> pc[r] = "idle"

\* order_status_transitions.py: "Remediated behaviour fails closed: invalid
\* transitions raise ConflictError".
TransitionsFollowTable ==
  [][\A o \in Key :
       is_allowed_order_status_transition(row[o].status, row'[o].status)]_vars
=============================================================================
