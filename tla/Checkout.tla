------------------------------ MODULE Checkout ------------------------------
(***************************************************************************)
(* The shop: application/use_cases/checkout.py (PlaceOrder, GrantCredits,  *)
(* CreateCoupon, ApplyCouponToOrder) and UpdateProduct of products.py,     *)
(* with the repositories they call.  Requests run concurrently, each in    *)
(* its own transaction; one action stands for one SQL statement of a       *)
(* request together with the Python code around it.  The domain entities a *)
(* request holds (Product, Coupon, CustomerCredit) are copies made when    *)
(* the row was read: they go stale, and save() writes them back.           *)
(***************************************************************************)
EXTENDS Integers, Sequences, FiniteSets, Database, Authorization

CONSTANTS User, Store, Product, Coupon,
          IdempotencyKey,
          Account,        \* [User -> actor record of module Authorization]
          StoreOf,        \* the store of each product and coupon
          InitialRow,     \* the rows that the seeding left
          Checkouts, Grants, Patches, Applications, Creations,
                          \* the bodies that clients send, per endpoint
          MaxInFlight     \* database connections: requests served at once

(***************************************************************************)
(* Values                                                                  *)
(***************************************************************************)
Column == {"stock", "price", "active"}

ProductRow == [stock : Int, price : Int, active : BOOLEAN]
CouponRow == 1..100                     \* its discount percent
CreditRow == Int                        \* its balance in cents

Line == [product : Product, quantity : Int]

\* Request bodies; NoRow stands for a field that is null or absent.
PlaceJob ==
  [op : {"place"}, actor : User, store : Store, lines : Seq(Line),
   coupon : Coupon \cup {NoRow}, key : IdempotencyKey \cup {NoRow}]
GrantJob == [op : {"grant"}, actor : User, user : User, amount : Int]
PatchJob ==
  [op : {"patch"}, actor : User, product : Product, stock : Int \cup {NoRow},
   price : Nat \cup {NoRow}, active : BOOLEAN \cup {NoRow}]
ApplyJob == [op : {"apply"}, actor : User, order : Request, coupon : Coupon]
CreateJob == [op : {"create"}, actor : User, coupon : Coupon, percent : Int]

Jobs == Checkouts \cup Grants \cup Patches \cup Applications \cup Creations

OrderLine == [product : Product, quantity : Int, unit_price : Int]
OrderRow ==
  [store : Store, customer : User, lines : Seq(OrderLine), total : Int]
RedemptionRow == [coupon : Coupon, order : Request]

RowOK(k, v) ==
  /\ k \in Product => v \in ProductRow
  /\ k \in User => v \in CreditRow \cup {NoRow}
  /\ k \in Coupon => v \in CouponRow \cup {NoRow}

ASSUME CheckoutAssumption ==
  /\ Key = Product \cup User \cup Coupon
  /\ Product \cap User = {} /\ Product \cap Coupon = {} /\ User \cap Coupon = {}
  /\ NoRow \notin Int \cup BOOLEAN \cup Coupon \cup IdempotencyKey
  /\ NoRow \notin Jobs /\ NoRow \notin OrderRow /\ NoRow \notin RedemptionRow
  /\ \A u \in User : Account[u].id = u /\ Account[u].role \in Roles
  /\ StoreOf \in [Product \cup Coupon -> Store]
  /\ IsTable(InitialRow) /\ \A k \in Key : RowOK(k, InitialRow[k])
  /\ Checkouts \subseteq PlaceJob /\ Grants \subseteq GrantJob
  /\ Patches \subseteq PatchJob /\ Applications \subseteq ApplyJob
  /\ Creations \subseteq CreateJob
  /\ MaxInFlight \in Nat \ {0}

VARIABLES
  job,         \* what each request asks for
  pc,          \* the next statement of each request
  mem,         \* the local variables of its use case
  order,       \* the orders row a request inserted, visible once committed
  redemption,  \* the coupon_redemptions row it inserted, likewise
  results,     \* PlaceOrder._idempotency_results of each use-case instance
  met          \* history: the requests each one was in flight with

vars ==
  <<row, latest, writer, job, pc, mem, order, redemption, results, met>>

Final == {"committed", "rolledback"}
Phase == {"idle", "lines", "coupon", "redeemed", "credit", "stock", "update",
          "order", "fresh", "save", "redeem", "grant", "patch", "apply",
          "lookup", "insert", "commit"} \cup Final

InFlight == {r \in Request : pc[r] \notin {"idle"} \cup Final}

\* copies: the Product entities read so far, one per line of the cart;
\* line: the loop index; dirty: the columns that save() found changed;
\* balance: the balance to be saved; inserting: the credit row is new.
Blank == [line |-> 1, copies |-> <<>>, subtotal |-> 0, percent |-> 0,
          balance |-> 0, dirty |-> {}, inserting |-> FALSE]

Memory ==
  [line : Nat \ {0}, copies : Seq(ProductRow), subtotal : Int,
   percent : 0..100, balance : Int, dirty : SUBSET Column,
   inserting : BOOLEAN]

Init ==
  /\ DatabaseInit(InitialRow)
  /\ job = [r \in Request |-> NoRow]
  /\ pc = [r \in Request |-> "idle"]
  /\ mem = [r \in Request |-> Blank]
  /\ order = [r \in Request |-> NoRow]
  /\ redemption = [r \in Request |-> NoRow]
  /\ results = [r \in Request |-> {}]
  /\ met = [r \in Request |-> {}]

Goto(r, label) == pc' = [pc EXCEPT ![r] = label]

-----------------------------------------------------------------------------
(***************************************************************************)
(* Entering and leaving                                                    *)
(***************************************************************************)

\* The instance of PlaceOrder that serves r: get_place_order builds one for
\* every request, so no two requests share _idempotency_results.
UseCase(r) == r

Replayed(r, j) ==
  /\ j.op = "place"
  /\ j.key # NoRow
  /\ j.key \in results[UseCase(r)]

\* The checks that precede the first statement of each operation.
PlaceAdmitted(j) ==
  /\ can_place_order(Account[j.actor], j.store)
  /\ j.lines # <<>>

GrantAdmitted(j) ==
  /\ can_grant_credits(Account[j.actor])
  /\ Account[j.actor].role = "customer" => j.actor = j.user
  /\ j.amount > 0

\* After the SELECT of the product in the code; but store_id never changes.
PatchAdmitted(j) ==
  can_write_store_catalog(Account[j.actor], StoreOf[j.product])

CreateAdmitted(j) ==
  /\ can_manage_coupons(Account[j.actor], StoreOf[j.coupon])
  /\ j.percent \in 1..100

Admitted(j) ==
  \/ j.op = "place" /\ PlaceAdmitted(j)
  \/ j.op = "grant" /\ GrantAdmitted(j)
  \/ j.op = "patch" /\ PatchAdmitted(j)
  \/ j.op = "apply"
  \/ j.op = "create" /\ CreateAdmitted(j)

Entry(op) ==
  CASE op = "place" -> "lines"
    [] op = "grant" -> "grant"
    [] op = "patch" -> "patch"
    [] op = "apply" -> "apply"
    [] op = "create" -> "lookup"

\* r meets the requests in flight, and they meet r.
Meet(r) ==
  met' = [q \in Request |-> IF q = r THEN InFlight
                            ELSE IF q \in InFlight THEN met[q] \cup {r}
                            ELSE met[q]]

Begin(r) ==
  /\ pc[r] = "idle"
  /\ Cardinality(InFlight) < MaxInFlight
  /\ \E j \in Jobs :
       /\ job' = [job EXCEPT ![r] = j]
       /\ Goto(r, IF Replayed(r, j) THEN "commit"
                  ELSE IF Admitted(j) THEN Entry(j.op) ELSE "rolledback")
  /\ Meet(r)
  /\ UNCHANGED <<row, latest, writer, mem, order, redemption, results>>

\* get_session after the handler returned: commit, then close.
Commit(r) ==
  /\ pc[r] = "commit"
  /\ Publish(r)
  /\ Goto(r, "committed")
  /\ mem' = [mem EXCEPT ![r] = Blank]
  /\ UNCHANGED <<job, order, redemption, results, met>>

\* Mutant of Rollback: the request is tried again.
RollbackRetrying(r) ==
  /\ Discard(r)
  /\ Goto(r, Entry(job[r].op))
  /\ mem' = [mem EXCEPT ![r] = Blank]
  /\ order' = [order EXCEPT ![r] = NoRow]
  /\ redemption' = [redemption EXCEPT ![r] = NoRow]
  /\ UNCHANGED <<job, results, met>>

\* get_session after the handler raised: rollback, then close.
Rollback(r) ==
  /\ Discard(r)
  /\ Goto(r, "rolledback")
  /\ mem' = [mem EXCEPT ![r] = Blank]
  /\ order' = [order EXCEPT ![r] = NoRow]
  /\ redemption' = [redemption EXCEPT ![r] = NoRow]
  /\ UNCHANGED <<job, results, met>>

-----------------------------------------------------------------------------
(***************************************************************************)
(* What the statements of a request read                                   *)
(***************************************************************************)
Committed(r) == pc[r] = "committed"

\* OrderRepository.get_by_id
OrderVisible(q) == Committed(q) /\ order[q] # NoRow

RequestStore(r) ==
  IF job[r].op = "place" THEN job[r].store ELSE order[job[r].order].store

\* Mutant of CouponFound: a coupon that does not exist is used.
CouponFoundAnyway(r) == StoreOf[job[r].coupon] = RequestStore(r)

\* CouponRepository.get_by_code, within the store of the order; no code path
\* deactivates a coupon.
CouponFound(r) ==
  /\ StoreOf[job[r].coupon] = RequestStore(r)
  /\ Visible(r, job[r].coupon) # NoRow

\* CouponRepository.has_been_redeemed
HasBeenRedeemed(c) ==
  \E q \in Request : /\ Committed(q)
                     /\ redemption[q] # NoRow
                     /\ redemption[q].coupon = c

\* The user whose credit row r reads and saves.
Owner(r) == IF job[r].op = "place" THEN job[r].actor ELSE job[r].user

\* A user without a credit row has a balance of 0.
Funds(r) ==
  IF Visible(r, Owner(r)) = NoRow THEN 0 ELSE Visible(r, Owner(r))

Charge(subtotal, percent) ==
  LET net == subtotal - (subtotal * percent) \div 100
  IN  IF net > 0 THEN net ELSE 0

CartLine(r) == job[r].lines[mem[r].line]
CurrentProduct(r) ==
  IF job[r].op = "place" THEN CartLine(r).product ELSE job[r].product

\* The row that r writes next, if its next statement writes a shared row.
Target(r) ==
  CASE pc[r] = "update" -> CurrentProduct(r)
    [] pc[r] = "save" -> Owner(r)
    [] pc[r] = "insert" -> job[r].coupon

Writing(r) == pc[r] \in {"update", "save", "insert"}

\* Whom each request waits for.
Waits ==
  [r \in Request |->
    IF Writing(r) /\ ~Lockable(r, Target(r)) THEN writer[Target(r)] ELSE Nobody]

-----------------------------------------------------------------------------
(***************************************************************************)
(* PlaceOrder                                                              *)
(***************************************************************************)
\* Mutant of LineAccepted: the product may belong to any store.
LineAcceptedAnyStore(r) ==
  LET seen == Visible(r, CartLine(r).product)
  IN  /\ CartLine(r).quantity > 0
      /\ seen.active
      /\ seen.stock >= CartLine(r).quantity

LineAccepted(r) ==
  LET seen == Visible(r, CartLine(r).product)
  IN  /\ CartLine(r).quantity > 0
      /\ StoreOf[CartLine(r).product] = job[r].store
      /\ seen.active
      /\ seen.stock >= CartLine(r).quantity

\* One turn of the loop that resolves the lines.  The subtotal, which the
\* code sums after the loop from the same copies, is accumulated here.
ReadLine(r) ==
  LET m == mem[r]
      seen == Visible(r, CartLine(r).product)
      last == m.line = Len(job[r].lines)
  IN  /\ pc[r] = "lines"
      /\ LineAccepted(r)
      /\ mem' = [mem EXCEPT ![r] =
           [m EXCEPT !.copies = Append(m.copies, seen),
                     !.subtotal = m.subtotal + seen.price * CartLine(r).quantity,
                     !.line = IF last THEN 1 ELSE m.line + 1]]
      /\ Goto(r, IF ~last THEN "lines"
                 ELSE IF job[r].coupon = NoRow THEN "credit" ELSE "coupon")
      /\ UNCHANGED <<row, latest, writer, job, order, redemption, results, met>>

ReadCoupon(r) ==
  /\ pc[r] = "coupon"
  /\ CouponFound(r)
  /\ mem' = [mem EXCEPT ![r].percent = Visible(r, job[r].coupon)]
  /\ Goto(r, "redeemed")
  /\ UNCHANGED <<row, latest, writer, job, order, redemption, results, met>>

\* Mutant of CheckRedeemed: the redemption ledger is not looked at.
CheckRedeemedNever(r) ==
  /\ pc[r] = "redeemed"
  /\ Goto(r, IF job[r].op = "place" THEN "credit" ELSE "redeem")
  /\ UNCHANGED <<row, latest, writer, job, mem, order, redemption, results, met>>

CheckRedeemed(r) ==
  /\ pc[r] = "redeemed"
  /\ ~HasBeenRedeemed(job[r].coupon)
  /\ Goto(r, IF job[r].op = "place" THEN "credit" ELSE "redeem")
  /\ UNCHANGED <<row, latest, writer, job, mem, order, redemption, results, met>>

Total(r) == Charge(mem[r].subtotal, mem[r].percent)

\* Mutant of ReadCredit: the balance need not cover the charge.
ReadCreditUnchecked(r) ==
  /\ pc[r] = "credit"
  /\ mem' = [mem EXCEPT ![r].balance = Funds(r) - Total(r)]
  /\ Goto(r, "stock")
  /\ UNCHANGED <<row, latest, writer, job, order, redemption, results, met>>

ReadCredit(r) ==
  /\ pc[r] = "credit"
  /\ Funds(r) >= Total(r)
  /\ mem' = [mem EXCEPT ![r].balance = Funds(r) - Total(r)]
  /\ Goto(r, "stock")
  /\ UNCHANGED <<row, latest, writer, job, order, redemption, results, met>>

\* Mutant of Saved: the newest stock is decremented, without a new check.
SavedRelative(r) ==
  LET copy == mem[r].copies[mem[r].line]
  IN  IF job[r].op = "place"
      THEN [copy EXCEPT
             !.stock = Visible(r, CurrentProduct(r)).stock - CartLine(r).quantity]
      ELSE copy

\* The copy that save() writes back: for a checkout, decremented.
Saved(r) ==
  LET copy == mem[r].copies[mem[r].line]
  IN  IF job[r].op = "place"
      THEN [copy EXCEPT !.stock = @ - CartLine(r).quantity]
      ELSE copy

\* Mutant of Differing: a changed stock goes unnoticed.
DifferingPriceOnly(a, b) ==
  {c \in Column : \/ c = "price" /\ a.price # b.price
                  \/ c = "active" /\ a.active # b.active}

Differing(a, b) ==
  {c \in Column : \/ c = "stock" /\ a.stock # b.stock
                  \/ c = "price" /\ a.price # b.price
                  \/ c = "active" /\ a.active # b.active}

\* The row after an UPDATE of the columns in dirty, which PostgreSQL applies
\* to the newest version of the row.
Overwrite(base, saved, dirty) ==
  [stock |-> IF "stock" \in dirty THEN saved.stock ELSE base.stock,
   price |-> IF "price" \in dirty THEN saved.price ELSE base.price,
   active |-> IF "active" \in dirty THEN saved.active ELSE base.active]

LastCopy(r) == mem[r].line = Len(mem[r].copies)
NextCopy(r) == IF LastCopy(r) THEN 1 ELSE mem[r].line + 1

AfterStock(r) ==
  IF ~LastCopy(r) THEN "stock"
  ELSE IF job[r].op = "place" THEN "order" ELSE "commit"

\* The re-check before the decrement looks at the copy read by ReadLine, not
\* at the row.
RecheckFails(r) ==
  /\ pc[r] = "stock"
  /\ job[r].op = "place"
  /\ mem[r].copies[mem[r].line].stock < CartLine(r).quantity

\* The decrement of the copy and the SELECT of ProductRepository.save.
SelectForStock(r) ==
  LET dirty == Differing(Saved(r), Visible(r, CurrentProduct(r)))
  IN  /\ pc[r] = "stock"
      /\ ~RecheckFails(r)
      /\ IF dirty = {}
         THEN /\ mem' = [mem EXCEPT ![r].line = NextCopy(r)]
              /\ Goto(r, AfterStock(r))
         ELSE /\ mem' = [mem EXCEPT ![r].dirty = dirty]
              /\ Goto(r, "update")
      /\ UNCHANGED <<row, latest, writer, job, order, redemption, results, met>>

\* The UPDATE of ProductRepository.save, once the row lock is free.
UpdateStock(r) ==
  LET p == CurrentProduct(r)
  IN  /\ pc[r] = "update"
      /\ Lockable(r, p)
      /\ Put(r, p, Overwrite(latest[p], Saved(r), mem[r].dirty))
      /\ mem' = [mem EXCEPT ![r] =
           [mem[r] EXCEPT !.dirty = {}, !.line = NextCopy(r)]]
      /\ Goto(r, AfterStock(r))
      /\ UNCHANGED <<job, order, redemption, results, met>>

\* Mutant of NewOrder: unit prices are read again.
NewOrderRepriced(r) ==
  [store |-> job[r].store,
   customer |-> job[r].actor,
   lines |-> [i \in 1..Len(mem[r].copies) |->
               [product |-> job[r].lines[i].product,
                quantity |-> job[r].lines[i].quantity,
                unit_price |-> Visible(r, job[r].lines[i].product).price]],
   total |-> Total(r)]

\* OrderRepository.add: unit prices come from the copies.
NewOrder(r) ==
  [store |-> job[r].store,
   customer |-> job[r].actor,
   lines |-> [i \in 1..Len(mem[r].copies) |->
               [product |-> job[r].lines[i].product,
                quantity |-> job[r].lines[i].quantity,
                unit_price |-> mem[r].copies[i].price]],
   total |-> Total(r)]

\* Mutant of InsertOrder: an INSERT that fails is passed over.
InsertOrderTolerant(r) ==
  /\ pc[r] = "order"
  /\ order' \in {order, [order EXCEPT ![r] = NewOrder(r)]}
  /\ Goto(r, "fresh")
  /\ UNCHANGED <<row, latest, writer, job, mem, redemption, results, met>>

InsertOrder(r) ==
  /\ pc[r] = "order"
  /\ order' = [order EXCEPT ![r] = NewOrder(r)]
  /\ Goto(r, "fresh")
  /\ UNCHANGED <<row, latest, writer, job, mem, redemption, results, met>>

-----------------------------------------------------------------------------
(***************************************************************************)
(* CreditRepository.save, for PlaceOrder and GrantCredits                  *)
(***************************************************************************)
AfterCredit(r) ==
  IF job[r].op = "place" /\ job[r].coupon # NoRow THEN "redeem" ELSE "commit"

\* PlaceOrder fills its idempotency cache when it returns.
Remember(r) ==
  IF job[r].op = "place" /\ job[r].key # NoRow
  THEN results' = [results EXCEPT ![UseCase(r)] = @ \cup {job[r].key}]
  ELSE UNCHANGED results

\* The SELECT of save: no row means INSERT, an equal balance no statement.
SelectForCredit(r) ==
  LET seen == Visible(r, Owner(r))
      clean == seen = mem[r].balance
  IN  /\ pc[r] = "fresh"
      /\ mem' = [mem EXCEPT ![r].inserting = seen = NoRow]
      /\ Goto(r, IF clean THEN AfterCredit(r) ELSE "save")
      /\ IF clean /\ AfterCredit(r) = "commit"
         THEN Remember(r) ELSE UNCHANGED results
      /\ UNCHANGED <<row, latest, writer, job, order, redemption, met>>

\* Mutant of Duplicate: the code of a coupon is no key.
DuplicateCredit(r) ==
  /\ pc[r] = "save"
  /\ mem[r].inserting
  /\ Lockable(r, Target(r))
  /\ row[Target(r)] # NoRow

\* INSERT into a table whose unique key another request has committed.
Duplicate(r) ==
  /\ Writing(r)
  /\ mem[r].inserting
  /\ Lockable(r, Target(r))
  /\ row[Target(r)] # NoRow

SaveCredit(r) ==
  /\ pc[r] = "save"
  /\ Lockable(r, Owner(r))
  /\ ~Duplicate(r)
  /\ Put(r, Owner(r), mem[r].balance)
  /\ Goto(r, AfterCredit(r))
  /\ IF AfterCredit(r) = "commit" THEN Remember(r) ELSE UNCHANGED results
  /\ UNCHANGED <<job, mem, order, redemption, met>>

-----------------------------------------------------------------------------
(***************************************************************************)
(* Redemptions, credits, coupons and product patches                       *)
(***************************************************************************)
RecordRedemption(r) ==
  /\ pc[r] = "redeem"
  /\ redemption' = [redemption EXCEPT ![r] =
       [coupon |-> job[r].coupon,
        order |-> IF job[r].op = "place" THEN r ELSE job[r].order]]
  /\ Remember(r)
  /\ Goto(r, "commit")
  /\ UNCHANGED <<row, latest, writer, job, mem, order, met>>

\* Mutant of ReadForGrant: the grant replaces the balance.
ReadForGrantReplacing(r) ==
  /\ pc[r] = "grant"
  /\ mem' = [mem EXCEPT ![r].balance = job[r].amount]
  /\ Goto(r, "fresh")
  /\ UNCHANGED <<row, latest, writer, job, order, redemption, results, met>>

\* GrantCredits: the balance read, plus the amount.
ReadForGrant(r) ==
  /\ pc[r] = "grant"
  /\ mem' = [mem EXCEPT ![r].balance = Funds(r) + job[r].amount]
  /\ Goto(r, "fresh")
  /\ UNCHANGED <<row, latest, writer, job, order, redemption, results, met>>

Patched(old, new) == IF new = NoRow THEN old ELSE new

\* UpdateProduct: the product read, with the fields of the body replaced.
ReadForPatch(r) ==
  LET seen == Visible(r, job[r].product)
  IN  /\ pc[r] = "patch"
      /\ mem' = [mem EXCEPT ![r].copies =
                  <<[stock |-> Patched(seen.stock, job[r].stock),
                     price |-> Patched(seen.price, job[r].price),
                     active |-> Patched(seen.active, job[r].active)]>>]
      /\ Goto(r, "stock")
      /\ UNCHANGED <<row, latest, writer, job, order, redemption, results, met>>

OrderReadable(r) ==
  /\ OrderVisible(job[r].order)
  /\ can_read_order(Account[job[r].actor], order[job[r].order])

\* ApplyCouponToOrder: it redeems the coupon and charges nothing.
ReadForApply(r) ==
  /\ pc[r] = "apply"
  /\ OrderReadable(r)
  /\ Goto(r, "coupon")
  /\ UNCHANGED <<row, latest, writer, job, mem, order, redemption, results, met>>

\* CreateCoupon: the code must be free in its store ...
LookUpCode(r) ==
  /\ pc[r] = "lookup"
  /\ Visible(r, job[r].coupon) = NoRow
  /\ mem' = [mem EXCEPT ![r].inserting = TRUE]
  /\ Goto(r, "insert")
  /\ UNCHANGED <<row, latest, writer, job, order, redemption, results, met>>

\* ... and is claimed by the unique constraint on (store_id, code).
InsertCoupon(r) ==
  /\ pc[r] = "insert"
  /\ Lockable(r, job[r].coupon)
  /\ ~Duplicate(r)
  /\ Put(r, job[r].coupon, job[r].percent)
  /\ Goto(r, "commit")
  /\ UNCHANGED <<job, mem, order, redemption, results, met>>

-----------------------------------------------------------------------------
(***************************************************************************)
(* Failures                                                                *)
(***************************************************************************)

\* The use case raises, or PostgreSQL reports a unique violation.
Refused(r) ==
  \/ pc[r] = "lines" /\ ~LineAccepted(r)
  \/ pc[r] = "coupon" /\ ~CouponFound(r)
  \/ pc[r] = "redeemed" /\ HasBeenRedeemed(job[r].coupon)
  \/ pc[r] = "credit" /\ Funds(r) < Total(r)
  \/ RecheckFails(r)
  \/ pc[r] = "apply" /\ ~OrderReadable(r)
  \/ pc[r] = "lookup" /\ Visible(r, job[r].coupon) # NoRow
  \/ Duplicate(r)

Refuse(r) == Refused(r) /\ Rollback(r)

\* PostgreSQL cancels one of the transactions that wait for each other.
DeadlockVictim(r) == InCycle(r, Waits) /\ Rollback(r)

\* Any statement may fail: connection lost, process killed, value out of
\* range.  A restart of the process is this step for every request in flight.
Fail(r) == r \in InFlight /\ Rollback(r)

-----------------------------------------------------------------------------
Step(r) ==
  \/ ReadLine(r) \/ ReadCoupon(r) \/ CheckRedeemed(r) \/ ReadCredit(r)
  \/ SelectForStock(r) \/ UpdateStock(r) \/ InsertOrder(r)
  \/ SelectForCredit(r) \/ SaveCredit(r) \/ RecordRedemption(r)
  \/ ReadForGrant(r) \/ ReadForPatch(r) \/ ReadForApply(r)
  \/ LookUpCode(r) \/ InsertCoupon(r)
  \/ Refuse(r) \/ Commit(r)

\* Every request has been served: the server idles.
Quiesce ==
  /\ \A r \in Request : pc[r] \in Final
  /\ UNCHANGED vars

Next ==
  \/ \E r \in Request : Begin(r) \/ Step(r) \/ DeadlockVictim(r) \/ Fail(r)
  \/ Quiesce

Spec == Init /\ [][Next]_vars

\* A request that was begun is a thread of the pool, which keeps running, and
\* PostgreSQL runs its deadlock check after deadlock_timeout: no request can
\* both take a step and be in a cycle, so one condition says both.  Nothing
\* makes clients send requests, and nothing makes statements fail.
Fairness == \A r \in Request : WF_vars(Step(r) \/ DeadlockVictim(r))

FairSpec == Spec /\ Fairness

-----------------------------------------------------------------------------
(***************************************************************************)
(* Properties                                                              *)
(***************************************************************************)

\* Every variable has its type.
TypeOK ==
  /\ IsTable(row) /\ \A k \in Key : RowOK(k, row[k])
  /\ IsTable(latest) /\ \A k \in Key : RowOK(k, latest[k])
  /\ writer \in [Key -> Request \cup {Nobody}]
  /\ job \in [Request -> Jobs \cup {NoRow}]
  /\ pc \in [Request -> Phase]
  /\ mem \in [Request -> Memory]
  /\ order \in [Request -> OrderRow \cup {NoRow}]
  /\ redemption \in [Request -> RedemptionRow \cup {NoRow}]
  /\ results \in [Request -> SUBSET IdempotencyKey]
  /\ met \in [Request -> SUBSET Request]

\* The lock protocol behind the transactions: a row version that is not
\* committed belongs to a request in flight that will publish or discard it
\* (get_session never leaves a session open), and nothing else differs from
\* the committed rows.
NoStrayVersions ==
  \A k \in Key : /\ writer[k] # Nobody => writer[k] \in InFlight
                 /\ writer[k] = Nobody => latest[k] = row[k]

\* However checkouts, grants and patches interleave, no customer is ever in
\* debt: PlaceOrder compares the balance with the charge and saves their
\* difference, both from one reading.
BalanceNonNegative ==
  \A u \in User : row[u] # NoRow => row[u] >= 0

\* However checkouts and patches interleave, no product has negative stock,
\* although no CHECK constraint guards the column.  (It does not follow that
\* no unit is sold twice: see NoOversell.)
StockNonNegative == \A p \in Product : row[p].stock >= 0

\* A redemption row that can be seen belongs to an order that can be seen,
\* of the store of its coupon, and that coupon exists: a request leaves all
\* of its rows or none.
RedemptionsHaveOrders ==
  \A q \in Request :
    Committed(q) /\ redemption[q] # NoRow =>
      LET o == redemption[q].order
          c == redemption[q].coupon
      IN  /\ OrderVisible(o)
          /\ order[o].store = StoreOf[c]
          /\ row[c] # NoRow

\* A coupon is redeemed twice only by requests that were in flight together.
CouponReuseNeedsOverlap ==
  \A r, q \in Request :
    /\ r # q
    /\ Committed(r) /\ redemption[r] # NoRow
    /\ Committed(q) /\ redemption[q] # NoRow
    /\ redemption[r].coupon = redemption[q].coupon
    => q \in met[r]

\* CreateCoupon: a code that is free when it is looked up may be taken when it
\* is inserted.  Every request that was answered for a coupon has inserted it:
\* the code was free, nobody else was answered for it, and the coupon has the
\* discount asked for.
Issuers(c) ==
  {r \in Request : Committed(r) /\ job[r].op = "create" /\ job[r].coupon = c}

CouponsIssuedOnce ==
  \A c \in Coupon : \A r \in Issuers(c) :
    /\ InitialRow[c] = NoRow
    /\ Issuers(c) = {r}
    /\ row[c] = job[r].percent

\* Every request that was begun is answered, whatever locks it meets: a request
\* is sent once, so one that is never answered would be in flight for ever.
RequestsFinish == []<>(InFlight = {})
=============================================================================
