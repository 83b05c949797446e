------------------------------ MODULE Catalog ------------------------------
(***************************************************************************)
(* The use cases of a store's catalog, of its orders as they are read, of  *)
(* themes, receipts, revenue and the admin's lists, with the audit trail   *)
(* inside their transactions: routers, use cases and repositories of       *)
(* stores, products, orders, themes, receipts, revenue, admin and audit.   *)
(*                                                                         *)
(* A key is <<table, id>>.  The id of a store or an audit event is the     *)
(* request that inserts it, that of a product <<request, n>>; the rows of  *)
(* InitialRow have ids of their own.                                       *)
(***************************************************************************)
EXTENDS Serving, Sequences

\* get_current_user: the columns a policy looks at never change.
Actor(r) == row[<<"user", job[r].actor>>]

\* What a use case returns or raises.
Ok(value) == [verdict |-> "ok", value |-> value]
Denied == [verdict |-> "denied", value |-> NoRow]
NotFound == [verdict |-> "not_found", value |-> NoRow]
Conflict == [verdict |-> "conflict", value |-> NoRow]

-----------------------------------------------------------------------------
(* Rows, with the columns that something depends on.                       *)

IsUser(v) == DOMAIN v = {"id", "role", "store", "password"} /\ v.role \in Roles
IsProduct(v) == DOMAIN v = {"store", "name"}
IsOrder(v) == DOMAIN v = {"store", "customer", "status"}
IsAuditEvent(v) ==
  DOMAIN v = {"actor", "outcome"} /\ v.outcome \in {"success", "authorization_denied"}
IsStoreTheme(v) == DOMAIN v = {"artifact", "type"}
IsOrderReceipt(v) == DOMAIN v = {"payload"}
IsPasswordResetToken(v) == DOMAIN v = {"user"}

IsRow(k, v) ==
  \/ v = NoRow
  \/ k[1] = "user" /\ IsUser(v)
  \/ k[1] = "store"
  \/ k[1] = "product" /\ IsProduct(v)
  \/ k[1] = "order" /\ IsOrder(v)
  \/ k[1] = "event" /\ IsAuditEvent(v)
  \/ k[1] = "theme" /\ IsStoreTheme(v)
  \/ k[1] = "receipt" /\ IsOrderReceipt(v)
  \/ k[1] = "token" /\ IsPasswordResetToken(v)

-----------------------------------------------------------------------------
(* Repositories: what a SELECT of request r returns.                       *)

Get(r, key) == IF key \in Key THEN Visible(r, key) ELSE NoRow
Ids(r, table) == {k[2] : k \in {k \in Key : k[1] = table /\ Visible(r, k) # NoRow}}

list_all_stores(r) == Ids(r, "store")
list_all_users(r) == Ids(r, "user")
list_recent(r) == Ids(r, "event")
list_products_for_store(r, s) ==
  {i \in Ids(r, "product") : Get(r, <<"product", i>>).store = s}
search_for_store(r, s, query) ==
  {i \in list_products_for_store(r, s) : Get(r, <<"product", i>>).name = query}
list_orders_for_store(r, s) ==
  {o \in Ids(r, "order") : Get(r, <<"order", o>>).store = s}
list_for_store_and_customer(r, s, u) ==
  {o \in list_orders_for_store(r, s) : Get(r, <<"order", o>>).customer = u}

-----------------------------------------------------------------------------
(* Use cases that only read.                                               *)

ListStores(r) ==
  Ok(IF can_list_all_stores(Actor(r)) THEN list_all_stores(r)
     ELSE {s \in list_all_stores(r) : can_read_store(Actor(r), s)})

\* The shape of every use case about one store: the policy, then the row,
\* then the answer.
InStore(r, permitted, value) ==
  IF ~permitted THEN Denied
  ELSE IF job[r].store \notin list_all_stores(r) THEN NotFound
  ELSE Ok(value)

GetStore(r) ==
  InStore(r, can_read_store(Actor(r), job[r].store), {job[r].store})

ListProductsForStore(r) ==
  InStore(r, can_read_store_catalog(Actor(r), job[r].store),
          list_products_for_store(r, job[r].store))

SearchProductsForStore(r) ==
  InStore(r, can_read_store_catalog(Actor(r), job[r].store),
          search_for_store(r, job[r].store, job[r].query))

GetProduct(r) ==
  LET product == Get(r, <<"product", job[r].product>>)
  IN  IF product = NoRow THEN NotFound
      ELSE IF ~can_read_store_catalog(Actor(r), product.store) THEN Denied
      ELSE Ok({job[r].product})

GetStoreTheme(r) ==
  LET theme == Get(r, <<"theme", job[r].store>>)
      found == InStore(r, can_read_store(Actor(r), job[r].store), theme)
  IN  IF found = Ok(NoRow) THEN NotFound ELSE found

\* to_order_detail_view and to_anonymized_order_view.
View(r, o) ==
  LET order == Get(r, <<"order", o>>)
  IN  IF must_anonymize_order_for(Actor(r)) THEN [order |-> o, customer |-> NoRow]
      ELSE [order |-> o, customer |-> order.customer]

\* Mutant of ListOrdersForStore: a customer sees the store's orders.
ListOrdersUnfiltered(r) ==
  InStore(r, can_list_store_orders(Actor(r), job[r].store),
          {View(r, o) : o \in list_orders_for_store(r, job[r].store)})

ListOrdersForStore(r) ==
  LET orders == IF Actor(r).role = "customer"
                THEN list_for_store_and_customer(r, job[r].store, Actor(r).id)
                ELSE list_orders_for_store(r, job[r].store)
  IN  InStore(r, can_list_store_orders(Actor(r), job[r].store),
              {View(r, o) : o \in orders})

\* The shape of every use case about one order: the row, then the policy.
order_get_by_id(r) == Get(r, <<"order", job[r].order>>)
OfOrder(r, permitted, value) ==
  IF order_get_by_id(r) = NoRow THEN NotFound
  ELSE IF ~permitted THEN Denied
  ELSE Ok(value)

GetOrder(r) ==
  OfOrder(r, can_read_order(Actor(r), order_get_by_id(r)), {View(r, job[r].order)})

\* The checksum of a receipt that save() built is right.
LoadOrderReceipt(r) ==
  LET receipt == Get(r, <<"receipt", job[r].order>>)
      found == OfOrder(r, can_manage_order_receipt(Actor(r), order_get_by_id(r)),
                       receipt)
  IN  IF found = Ok(NoRow) THEN NotFound ELSE found

\* The revenue of a store is a sum over these orders.
GetStoreRevenue(r) ==
  IF job[r].store \notin list_all_stores(r) THEN NotFound
  ELSE IF ~can_read_store_revenue(Actor(r), job[r].store) THEN Denied
  ELSE Ok({o \in list_orders_for_store(r, job[r].store) :
             Get(r, <<"order", o>>).status # "cancelled"})

ListUsers(r) == IF can_list_users(Actor(r)) THEN Ok(list_all_users(r)) ELSE Denied

ListAuditEvents(r) ==
  IF can_list_audit_events(Actor(r)) THEN Ok(list_recent(r)) ELSE Denied

-----------------------------------------------------------------------------
(* Handlers that only read, and the audit trail.                           *)

\* An error is raised; anything else is kept for the answer.
Answer(r, outcome) ==
  /\ mem' = [mem EXCEPT ![r] = outcome.value]
  /\ IF outcome.verdict = "ok" THEN Return(r) ELSE Raise(r, outcome.verdict)
  /\ UNCHANGED <<dbvars, job, proc, earlier>>

\* With an AdminAuditTrail: denials are recorded before they are raised, and
\* so is what an admin was given.
AnswerAudited(r, outcome) ==
  /\ mem' = [mem EXCEPT ![r] = outcome.value]
  /\ IF outcome.verdict = "denied" THEN Goto(r, "deny") /\ UNCHANGED answer
     ELSE IF outcome.verdict # "ok" THEN Raise(r, outcome.verdict)
     ELSE IF Actor(r).role = "admin" THEN Goto(r, "audit") /\ UNCHANGED answer
     ELSE Return(r)
  /\ UNCHANGED <<dbvars, job, proc, earlier>>

AddEvent(r, outcome) ==
  /\ Put(r, <<"event", r>>, [actor |-> job[r].actor, outcome |-> outcome])
  /\ UNCHANGED <<job, proc, mem, earlier>>

record_success(r) ==
  /\ pc[r] = "audit"
  /\ AddEvent(r, "success")
  /\ Return(r)

record_authorization_failure(r) ==
  /\ pc[r] = "deny"
  /\ AddEvent(r, "authorization_denied")
  /\ Raise(r, "denied")

read_current_user(r) ==
  At(r, "read_current_user", "begin") /\ Answer(r, Ok({job[r].actor}))
list_stores(r) == At(r, "list_stores", "begin") /\ Answer(r, ListStores(r))
read_store(r) == At(r, "read_store", "begin") /\ Answer(r, GetStore(r))
list_products(r) ==
  At(r, "list_products", "begin") /\ Answer(r, ListProductsForStore(r))
search_products(r) ==
  At(r, "search_products", "begin") /\ Answer(r, SearchProductsForStore(r))
read_product(r) == At(r, "read_product", "begin") /\ Answer(r, GetProduct(r))
read_store_theme(r) ==
  At(r, "read_store_theme", "begin") /\ Answer(r, GetStoreTheme(r))
list_orders(r) ==
  At(r, "list_orders", "begin") /\ Answer(r, ListOrdersForStore(r))
load_receipt(r) ==
  At(r, "load_receipt", "begin") /\ Answer(r, LoadOrderReceipt(r))
read_store_revenue(r) ==
  At(r, "read_store_revenue", "begin") /\ Answer(r, GetStoreRevenue(r))
read_order(r) == At(r, "read_order", "begin") /\ AnswerAudited(r, GetOrder(r))
list_users(r) == At(r, "list_users", "begin") /\ AnswerAudited(r, ListUsers(r))
list_audit_events(r) ==
  At(r, "list_audit_events", "begin") /\ AnswerAudited(r, ListAuditEvents(r))

Read(r) ==
  \/ read_current_user(r) \/ list_stores(r) \/ read_store(r)
  \/ list_products(r) \/ search_products(r) \/ read_product(r)
  \/ read_store_theme(r) \/ list_orders(r) \/ load_receipt(r)
  \/ read_store_revenue(r) \/ read_order(r) \/ list_users(r)
  \/ list_audit_events(r) \/ record_success(r)
  \/ record_authorization_failure(r)

-----------------------------------------------------------------------------
(* Handlers that write.                                                    *)

\* The checks before the first write: go on at label, or raise.
Enter(r, outcome, label) ==
  /\ IF outcome.verdict = "ok" THEN Goto(r, label) /\ UNCHANGED answer
     ELSE Raise(r, outcome.verdict)
  /\ UNCHANGED <<dbvars, job, proc, mem, earlier>>

CreateStore(r) == IF can_create_store(Actor(r)) THEN Ok(NoRow) ELSE Denied
create_store(r) ==
  At(r, "create_store", "begin") /\ Enter(r, CreateStore(r), "insert")
store_add(r) ==
  /\ At(r, "create_store", "insert")
  /\ Put(r, <<"store", r>>, "a store")
  /\ Return(r)
  /\ UNCHANGED <<job, proc, mem, earlier>>

\* CreateProduct and ImportProductsFromCsv begin with the same checks.
CreateProduct(r) ==
  InStore(r, can_write_store_catalog(Actor(r), job[r].store), NoRow)
create_product(r) ==
  At(r, "create_product", "begin") /\ Enter(r, CreateProduct(r), "insert")

product_add(r, n, name) ==
  /\ Put(r, <<"product", <<r, n>>>>, [store |-> job[r].store, name |-> name])
  /\ UNCHANGED <<job, proc, mem, earlier>>
insert_product(r) ==
  /\ At(r, "create_product", "insert")
  /\ product_add(r, 1, job[r].name)
  /\ Return(r)

import_products(r) ==
  At(r, "import_products", "begin") /\ Enter(r, CreateProduct(r), "insert")

Imported(r) == {n \in DOMAIN job[r].rows : latest[<<"product", <<r, n>>>>] # NoRow}

\* One turn of the loop over the rows: a field that is missing or not a
\* number, or a quantity_hint of 0, raises what no router catches.
ImportRow(r) ==
  LET n == Cardinality(Imported(r)) + 1
  IN  /\ At(r, "import_products", "insert")
      /\ n <= Len(job[r].rows)
      /\ job[r].rows[n] # "malformed"
      /\ product_add(r, n, job[r].rows[n])
      /\ UNCHANGED <<pc, answer>>

\* Mutant of ImportStops: a malformed row ends the import quietly.
ImportStopsQuietly(r) ==
  LET n == Cardinality(Imported(r)) + 1
  IN  /\ At(r, "import_products", "insert")
      /\ n \in DOMAIN job[r].rows => job[r].rows[n] = "malformed"
      /\ Return(r)
      /\ UNCHANGED <<dbvars, job, proc, mem, earlier>>
ImportStops(r) ==
  LET n == Cardinality(Imported(r)) + 1
  IN  /\ At(r, "import_products", "insert")
      /\ IF n > Len(job[r].rows) THEN Return(r)
         ELSE job[r].rows[n] = "malformed" /\ Raise(r, "failed")
      /\ UNCHANGED <<dbvars, job, proc, mem, earlier>>

\* A multipart body never gets past _read_theme_artifact, which looks for an
\* UploadFile of fastapi where the form has one of starlette.
UploadStoreTheme(r) ==
  IF job[r].multipart THEN Conflict
  ELSE LET stored == InStore(r, can_write_store_theme(Actor(r), job[r].store), NoRow)
       IN  IF stored = Ok(NoRow) /\ ~job[r].signed THEN Conflict ELSE stored
upload_store_theme(r) ==
  At(r, "upload_store_theme", "begin") /\ Enter(r, UploadStoreTheme(r), "select")

StoreOrderReceipt(r) ==
  OfOrder(r, can_manage_order_receipt(Actor(r), order_get_by_id(r)), NoRow)
store_receipt(r) ==
  At(r, "store_receipt", "begin") /\ Enter(r, StoreOrderReceipt(r), "select")

\* The row that save() of themes and receipts inserts or updates.
Target(r) ==
  IF Op(r) = "upload_store_theme" THEN <<"theme", job[r].store>>
  ELSE <<"receipt", job[r].order>>

SelectTarget(r) ==
  /\ pc[r] = "select"
  /\ mem' = [mem EXCEPT ![r] = Visible(r, Target(r))]
  /\ Goto(r, "save")
  /\ UNCHANGED <<dbvars, job, proc, answer, earlier>>

\* Mutant of Overwrite: what is there stays.
OverwriteNothing(base, copy, content) == base

\* The UPDATE sets the columns in which the row differs from the one read.
Overwrite(base, copy, content) ==
  [c \in DOMAIN content |-> IF copy[c] = content[c] THEN base[c] ELSE content[c]]

\* Nothing was found: INSERT, which waits for another inserter of the unique
\* key and raises IntegrityError once there is a row.
InsertTarget(r) ==
  /\ pc[r] = "save" /\ mem[r] = NoRow
  /\ Lockable(r, Target(r))
  /\ IF latest[Target(r)] = NoRow
     THEN Put(r, Target(r), job[r].content) /\ Return(r)
     ELSE Raise(r, "failed") /\ UNCHANGED dbvars
  /\ UNCHANGED <<job, proc, mem, earlier>>

UpdateTarget(r) ==
  /\ pc[r] = "save" /\ mem[r] \notin {NoRow, job[r].content}
  /\ Lockable(r, Target(r))
  /\ Put(r, Target(r), Overwrite(latest[Target(r)], mem[r], job[r].content))
  /\ Return(r)
  /\ UNCHANGED <<job, proc, mem, earlier>>

\* An equal row needs no UPDATE.
KeepTarget(r) ==
  /\ pc[r] = "save" /\ mem[r] = job[r].content
  /\ Return(r)
  /\ UNCHANGED <<dbvars, job, proc, mem, earlier>>

Write(r) ==
  \/ create_store(r) \/ store_add(r) \/ create_product(r) \/ insert_product(r)
  \/ import_products(r) \/ ImportRow(r) \/ ImportStops(r)
  \/ upload_store_theme(r) \/ store_receipt(r)
  \/ SelectTarget(r) \/ InsertTarget(r) \/ UpdateTarget(r) \/ KeepTarget(r)
=============================================================================
