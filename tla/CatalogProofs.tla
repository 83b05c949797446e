--------------------------- MODULE CatalogProofs ---------------------------
(***************************************************************************)
(* What requests leave in the catalog, from the kinds of steps of          *)
(* BackofficeProofs: imports of products are whole, the last of the        *)
(* uploads of a theme or receipt stands, and a quote that is passed on is  *)
(* within its bounds.                                                      *)
(***************************************************************************)
EXTENDS BackofficeProofs

Imports(r) == job[r] # NoRow /\ Op(r) = "import_products"
Rows(r) == 1 .. Len(job[r].rows)
Item(r, n) == <<"product", <<r, n>>>>

\* A product of an import is locked by nobody else, has the store of the
\* import, and is committed exactly if the import has succeeded.
ItemInv(r, n) ==
  /\ writer[Item(r, n)] \in {r, Nobody}
  /\ row[Item(r, n)] # NoRow <=> Succeeded(r)
  /\ row[Item(r, n)] # NoRow => row[Item(r, n)].store = job[r].store
  /\ latest[Item(r, n)] # NoRow => latest[Item(r, n)].store = job[r].store
  /\ writer[Item(r, n)] = r => pc[r] \in {"insert", "returned", "raised"}
  /\ pc[r] = "returned" => writer[Item(r, n)] = r /\ latest[Item(r, n)] # NoRow

\* The loop has inserted the first m rows.
LoopInv(r) ==
  pc[r] = "insert" =>
    \E m \in 0 .. Len(job[r].rows) : \A n \in Rows(r) :
      /\ writer[Item(r, n)] = r <=> n <= m
      /\ latest[Item(r, n)] # NoRow <=> n <= m

ImportOf(r) == Imports(r) => LoopInv(r) /\ \A n \in Rows(r) : ItemInv(r, n)
ImportInv == \A r \in Request : ImportOf(r)

LEMMA RowsOfImport ==
  ASSUME Cast, NEW r \in Request, Imports(r)
  PROVE  /\ Len(job[r].rows) \in Nat /\ DOMAIN job[r].rows = Rows(r)
         /\ \A n \in Rows(r) :
              /\ Item(r, n) \in Key /\ InitialRow[Item(r, n)] = NoRow
              /\ [store |-> job[r].store, name |-> job[r].rows[n]] # NoRow
<1>1. /\ Len(job[r].rows) \in Nat /\ DOMAIN job[r].rows = Rows(r)
      /\ \A n \in Rows(r) :
           /\ Item(r, n) \in Key /\ InitialRow[Item(r, n)] = NoRow
           /\ NoRow \notin [store : {job[r].store}, name : {job[r].rows[n]}]
  BY ImportsAssumption DEF Cast, Imports, Op, Rows, Item
<1>2. \A n \in Rows(r) : [store |-> job[r].store, name |-> job[r].rows[n]]
                           \in [store : {job[r].store}, name : {job[r].rows[n]}]
  OBVIOUS
<1> QED BY <1>1, <1>2

\* The steps of other requests leave the products of an import alone.
LEMMA OthersKeepImport ==
  ASSUME Cast, RowsInv, ImportInv, NEW r \in Request, NEW q \in Request, q # r, Kind(q)
  PROVE  ImportOf(r)'
<1> SUFFICES ASSUME Imports(r)'
             PROVE  LoopInv(r)' /\ \A n \in Rows(r)' : ItemInv(r, n)'
  BY DEF ImportOf
<1>1. job' = job /\ pc'[r] = pc[r] /\ answer'[r] = answer[r]
  BY DEF Cast, Kind, Owns
<1>2. Imports(r) /\ LoopInv(r) /\ \A n \in Rows(r) : ItemInv(r, n)
  BY <1>1 DEF ImportInv, ImportOf, Imports, Op
<1>3. ASSUME NEW n \in Rows(r)
      PROVE  /\ writer'[Item(r, n)] = writer[Item(r, n)]
             /\ latest'[Item(r, n)] = latest[Item(r, n)]
             /\ row'[Item(r, n)] = row[Item(r, n)]
  <2> DEFINE k == Item(r, n)
  <2>1. k \in Key /\ writer[k] # q
    BY <1>2, <1>3, RowsOfImport, NobodyAssumption DEF ItemInv
  <2>2. CASE UNCHANGED dbvars
    BY <2>2 DEF dbvars
  <2>3. ASSUME NEW l, NEW v, Put(q, l, v), MayPut(q, l, v) \/ l[1] = "event"
        PROVE  writer'[k] = writer[k] /\ latest'[k] = latest[k] /\ row'[k] = row[k]
    <3>1. l # k
      BY <2>3 DEF MayPut, Item
    <3> QED BY <2>1, <2>3, <3>1 DEF Put, RowsInv, FitsRow
  <2>4. ASSUME NEW keys, Remove(q, keys), \A l \in keys : l[1] = "token"
        PROVE  writer'[k] = writer[k] /\ latest'[k] = latest[k] /\ row'[k] = row[k]
    BY <2>1, <2>4 DEF Remove, Item
  <2>5. CASE Commits(q)
    BY <2>1, <2>5 DEF Commits, Publish, Visible, Unlocked
  <2>6. CASE RollsBack(q)
    BY <2>1, <2>6 DEF RollsBack, Discard, Unlocked
  <2>7. CASE Works(q)
    BY <2>2, <2>3, <2>4, <2>7 DEF Works
  <2> QED BY <2>2, <2>5, <2>6, <2>7 DEF Kind, Waits
<1>4. LoopInv(r)'
  BY <1>1, <1>2, <1>3 DEF LoopInv, Rows
<1>5. \A n \in Rows(r)' : ItemInv(r, n)'
  BY <1>1, <1>2, <1>3 DEF ItemInv, Rows, Succeeded, Answered, Item
<1> QED BY <1>4, <1>5

\* The loop finds its place by what it has inserted.
LEMMA NextRow ==
  ASSUME Cast, NEW r \in Request, Imports(r),
         NEW m \in 0 .. Len(job[r].rows),
         \A n \in Rows(r) : latest[Item(r, n)] # NoRow <=> n <= m
  PROVE  Cardinality(Imported(r)) = m
<1>1. Imported(r) = 1 .. m
  <2>1. Imported(r) = {n \in Rows(r) : latest[Item(r, n)] # NoRow}
    BY RowsOfImport DEF Imported, Item
  <2>2. Len(job[r].rows) \in Nat
    BY RowsOfImport
  <2> QED BY <2>1, <2>2 DEF Rows
<1>2. m \in Nat /\ m = (m - 1) + 1
  BY RowsOfImport
<1>3. Cardinality(1 .. m) = m
  BY <1>2, FS_Interval
<1> QED BY <1>1, <1>3

\* What an import does beside being served.
LEMMA OnlyImportSteps ==
  ASSUME Cast, NEW r \in Request, Op(r) = "import_products", Step(r)
  PROVE  Serve(r) \/ import_products(r) \/ ImportRow(r) \/ ImportStops(r)
<1> USE DEF Cast, StageFits, At, AuditedOps
<1>1. ~Read(r)
  BY DEF Read, read_current_user, list_stores, read_store, list_products, list_orders,
         search_products, read_product, read_store_theme, load_receipt,
         read_store_revenue, read_order, list_users, list_audit_events,
         record_success, record_authorization_failure
<1>2. ~Identify(r)
  BY DEF Identify, login, request_password_reset, confirm_password_reset,
         update_password, SelectTokens, DeleteTokens, InsertToken
<1>3. Write(r) => import_products(r) \/ ImportRow(r) \/ ImportStops(r)
  BY DEF Write, create_store, store_add, create_product, insert_product,
         upload_store_theme, store_receipt, SelectTarget, InsertTarget, UpdateTarget,
         KeepTarget
<1> QED BY <1>1, <1>2, <1>3 DEF Step, read_shipping_quote

LEMMA OwnStepsKeepImport ==
  ASSUME Cast, RowsInv, ImportInv, NEW r \in Request, Step(r) \/ Arrive(r) \/ Fail(r)
  PROVE  ImportOf(r)'
<1>1. Kind(r)
  BY StepKind
<1> SUFFICES ASSUME Imports(r)'
             PROVE  LoopInv(r)' /\ \A n \in Rows(r)' : ItemInv(r, n)'
  BY DEF ImportOf
<1>2. job' = job /\ Imports(r) /\ Rows(r)' = Rows(r) /\ \A n : Item(r, n)' = Item(r, n)
  BY <1>1 DEF Kind, Owns, Imports, Op, Rows, Item
<1>3. LoopInv(r) /\ \A n \in Rows(r) : ItemInv(r, n)
  BY <1>2 DEF ImportInv, ImportOf
<1>4. ASSUME NEW n \in Rows(r)
      PROVE  Item(r, n) \in Key
  BY <1>2, RowsOfImport
<1> USE NobodyAssumption
<1>5. ASSUME UNCHANGED dbvars, pc[r] \notin {"done", "insert", "returned"},
             pc'[r] \notin {"returned", "insert"}, pc'[r] = "done" => answer'[r] # "ok",
             pc[r] # "raised"
      PROVE  LoopInv(r)' /\ \A n \in Rows(r)' : ItemInv(r, n)'
  BY <1>2, <1>3, <1>5 DEF LoopInv, ItemInv, dbvars, Succeeded, Answered
<1>6. CASE Waits(r)
  BY <1>5, <1>6 DEF Waits
<1>7. CASE Commits(r)
  <2>1. ASSUME NEW n \in Rows(r)
        PROVE  /\ writer'[Item(r, n)] = Nobody
               /\ row'[Item(r, n)] = latest[Item(r, n)] /\ latest' = latest
    BY <1>3, <1>4, <1>7 DEF Commits, Publish, Visible, Unlocked, ItemInv
  <2>2. pc'[r] = "done" /\ answer'[r] = "ok" /\ pc[r] = "returned"
    BY <1>7 DEF Commits
  <2>3. LoopInv(r)'
    BY <2>2 DEF LoopInv
  <2>4. \A n \in Rows(r)' : ItemInv(r, n)'
    BY <1>2, <1>3, <2>1, <2>2 DEF ItemInv, Succeeded, Answered
  <2> QED BY <2>3, <2>4
<1>8. CASE RollsBack(r)
  <2>1. ASSUME NEW n \in Rows(r)
        PROVE  /\ writer'[Item(r, n)] = Nobody /\ row'[Item(r, n)] = row[Item(r, n)]
               /\ latest'[Item(r, n)] = row[Item(r, n)]
    <3>1. writer[Item(r, n)] \in {r, Nobody}
      BY <1>3 DEF ItemInv
    <3>2. writer[Item(r, n)] = Nobody => latest[Item(r, n)] = row[Item(r, n)]
      BY <1>4 DEF RowsInv, FitsRow
    <3> QED BY <1>4, <1>8, <3>1, <3>2 DEF RollsBack, Discard, Unlocked
  <2>2. pc'[r] = "done" /\ answer'[r] # "ok" /\ pc[r] # "done"
    BY <1>8 DEF RollsBack, Held
  <2>3. LoopInv(r)'
    BY <2>2 DEF LoopInv
  <2>4. \A n \in Rows(r)' : ItemInv(r, n)'
    BY <1>2, <1>3, <2>1, <2>2 DEF ItemInv, Succeeded, Answered
  <2> QED BY <2>3, <2>4
<1>9. CASE Start(r)
  BY <1>5, <1>9 DEF Start, Move, Goto, Cast
<1>10. CASE import_products(r)
  <2>1. ASSUME NEW n \in Rows(r)
        PROVE  row[Item(r, n)] = NoRow /\ latest[Item(r, n)] = NoRow
               /\ writer[Item(r, n)] = Nobody
    BY <1>3, <1>4, <1>10 DEF import_products, At, ItemInv, RowsInv, FitsRow, Succeeded, Answered
  <2>2. UNCHANGED dbvars /\ pc'[r] \in {"insert", "raised"}
    BY <1>10 DEF import_products, Enter, Raise, Goto, Cast
  <2>3. 0 \in 0 .. Len(job[r].rows)
    BY <1>2, RowsOfImport
  <2>4. LoopInv(r)'
    BY <1>2, <2>1, <2>2, <2>3 DEF LoopInv, dbvars, Rows
  <2>5. \A n \in Rows(r)' : ItemInv(r, n)'
    BY <1>2, <2>1, <2>2 DEF ItemInv, dbvars, Succeeded, Answered
  <2> QED BY <2>4, <2>5
<1>11. ASSUME pc[r] = "insert"
       PROVE  \E m \in 0 .. Len(job[r].rows) :
                /\ Cardinality(Imported(r)) = m
                /\ \A n \in Rows(r) : /\ writer[Item(r, n)] = r <=> n <= m
                                      /\ latest[Item(r, n)] # NoRow <=> n <= m
  BY <1>2, <1>3, <1>11, NextRow DEF LoopInv
<1>12. CASE ImportRow(r)
  <2>1. PICK m \in 0 .. Len(job[r].rows) :
          /\ Cardinality(Imported(r)) = m
          /\ \A n \in Rows(r) : /\ writer[Item(r, n)] = r <=> n <= m
                                /\ latest[Item(r, n)] # NoRow <=> n <= m
    BY <1>11, <1>12 DEF ImportRow, At
  <2>2. m \in Nat /\ m + 1 \in Rows(r) /\ m + 1 \in 0 .. Len(job[r].rows)
    BY <1>2, <1>12, <2>1, RowsOfImport DEF ImportRow, Rows
  <2> DEFINE product == [store |-> job[r].store, name |-> job[r].rows[m + 1]]
  <2>3. Put(r, Item(r, m + 1), product) /\ pc' = pc /\ answer' = answer /\ pc[r] = "insert"
    BY <1>12, <2>1 DEF ImportRow, product_add, At, Item
  <2>4. product # NoRow /\ product.store = job[r].store
    BY <1>2, <2>2, RowsOfImport
  <2> HIDE DEF product
  <2>5. /\ row' = row
        /\ writer'[Item(r, m + 1)] = r /\ latest'[Item(r, m + 1)] = product
    BY <1>4, <2>2, <2>3 DEF Put, RowsInv, FitsRow
  <2>6. ASSUME NEW n \in Rows(r), n # m + 1
        PROVE  writer'[Item(r, n)] = writer[Item(r, n)] /\ latest'[Item(r, n)] = latest[Item(r, n)]
    <3>1. Item(r, n) # Item(r, m + 1)
      BY <2>6 DEF Item
    <3> QED BY <1>4, <2>3, <3>1 DEF Put, RowsInv, FitsRow
  <2>7. \A n \in Rows(r) : (n <= m + 1 <=> n <= m \/ n = m + 1)
    BY <1>2, <2>2, RowsOfImport DEF Rows
  <2>8. \A n \in Rows(r) : /\ writer'[Item(r, n)] = r <=> n <= m + 1
                           /\ latest'[Item(r, n)] # NoRow <=> n <= m + 1
    BY <2>1, <2>4, <2>5, <2>6, <2>7
  <2>9. LoopInv(r)'
    BY <1>2, <2>2, <2>8 DEF LoopInv
  <2>10. \A n \in Rows(r) : ItemInv(r, n)'
    <3> SUFFICES ASSUME NEW n \in Rows(r)
                 PROVE  ItemInv(r, n)'
      OBVIOUS
    <3>1. ItemInv(r, n)
      BY <1>3
    <3>2. Item(r, n)' = Item(r, n)
      BY <1>2
    <3>3. CASE n = m + 1
      BY <1>2, <2>3, <2>4, <2>5, <3>1, <3>2, <3>3 DEF ItemInv, Succeeded, Answered
    <3>4. CASE n # m + 1
      BY <1>2, <2>3, <2>5, <2>6, <3>1, <3>2, <3>4 DEF ItemInv, Succeeded, Answered
    <3> QED BY <3>3, <3>4
  <2> QED BY <1>2, <2>9, <2>10
<1>13. CASE ImportStops(r)
  <2>1. PICK m \in 0 .. Len(job[r].rows) :
          /\ Cardinality(Imported(r)) = m
          /\ \A n \in Rows(r) : /\ writer[Item(r, n)] = r <=> n <= m
                                /\ latest[Item(r, n)] # NoRow <=> n <= m
    BY <1>11, <1>13 DEF ImportStops, At
  <2>2. m \in Nat /\ Len(job[r].rows) \in Nat
    BY <1>2, RowsOfImport
  <2>3. /\ UNCHANGED dbvars /\ pc[r] = "insert"
        /\ \/ pc'[r] = "returned" /\ m + 1 > Len(job[r].rows)
           \/ pc'[r] = "raised"
    BY <1>13, <2>1 DEF ImportStops, At, Return, Raise, Goto, Cast
  <2>4. pc'[r] = "returned" => \A n \in Rows(r) : n <= m
    BY <2>2, <2>3 DEF Rows
  <2>5. LoopInv(r)'
    BY <2>3 DEF LoopInv
  <2>6. \A n \in Rows(r)' : ItemInv(r, n)'
    BY <1>2, <1>3, <2>1, <2>3, <2>4 DEF ItemInv, dbvars, Succeeded, Answered
  <2> QED BY <2>5, <2>6
<1>14. Serve(r) \/ Arrive(r) \/ Fail(r) => Waits(r) \/ Start(r) \/ Commits(r) \/ RollsBack(r)
  <2>1. Works(r) => ~Arrive(r) /\ ~Fail(r) /\ ~Commit(r) /\ ~Rollback(r) /\ ~PoolTimeout(r)
                    /\ ~Dispatch(r) /\ ~Connect(r)
    BY DEF Works, Held, Arrive, Fail, Finish, Commit, Rollback, PoolTimeout, Dispatch,
           Connect, Move, Goto, Cast
  <2> QED BY <1>1, <2>1 DEF Kind, Serve
<1>15. Step(r) => Serve(r) \/ import_products(r) \/ ImportRow(r) \/ ImportStops(r)
  BY <1>2, OnlyImportSteps DEF Imports
<1> QED BY <1>6, <1>7, <1>8, <1>9, <1>10, <1>12, <1>13, <1>14, <1>15

LEMMA ImportInit == Init => ImportInv
<1> SUFFICES ASSUME Init, NEW r \in Request, Imports(r)
             PROVE  LoopInv(r) /\ \A n \in Rows(r) : ItemInv(r, n)
  BY DEF ImportInv, ImportOf
<1>1. Cast /\ pc[r] = "idle"
  BY BasicsInit DEF Init
<1>2. ASSUME NEW n \in Rows(r)
      PROVE  /\ row[Item(r, n)] = NoRow /\ latest[Item(r, n)] = NoRow
             /\ writer[Item(r, n)] = Nobody
  BY <1>1, RowsOfImport DEF Init, DatabaseInit
<1> QED BY <1>1, <1>2, NobodyAssumption DEF LoopInv, ItemInv, Succeeded, Answered

LEMMA ImportStep == Cast /\ RowsInv /\ ImportInv /\ [Next]_vars => ImportInv'
<1> SUFFICES ASSUME Cast, RowsInv, ImportInv, [Next]_vars, NEW r \in Request
             PROVE  ImportOf(r)'
  BY DEF ImportInv
<1>1. CASE UNCHANGED vars
  <2>1. ImportOf(r)
    BY DEF ImportInv
  <2> QED BY <1>1, <2>1 DEF vars, serving, dbvars, ImportOf, Imports, LoopInv, ItemInv,
          Rows, Item, Succeeded, Answered, Op
<1>2. ASSUME NEW q \in Request, Arrive(q) \/ Step(q) \/ Fail(q)
      PROVE  ImportOf(r)'
  BY <1>2, StepKind, OthersKeepImport, OwnStepsKeepImport
<1> QED BY <1>1, <1>2 DEF Next, Quiesce

LEMMA ImportsKept == Spec => [](Cast /\ RowsInv /\ ImportInv)
BY Basics, ImportInit, ImportStep, PTL DEF Spec

-----------------------------------------------------------------------------
(* What a list of products shows of an import.                             *)

Items(r) == {<<r, n>> : n \in Rows(r)}
ShowsWhole(q, r) == mem[q] \cap Items(r) \in {{}, Items(r)}
WholeInv ==
  \A q, r \in Request :
    /\ pc[q] # "idle" /\ Op(q) = "list_products" /\ (pc[q] = "returned" \/ Succeeded(q))
    /\ Imports(r)
    => ShowsWhole(q, r)

\* A list is one statement: it sees an import that has committed, or nothing.
LEMMA ListSeesWhole ==
  ASSUME Cast, RowsInv, ImportInv, NEW q \in Request, list_products(q),
         pc'[q] = "returned", NEW r \in Request, Imports(r)
  PROVE  mem'[q] \cap Items(r) \in {{}, Items(r)}
<1>1. q # r /\ Op(q) = "list_products"
  BY DEF list_products, At, Imports
<1>2. mem'[q] = list_products_for_store(q, job[q].store)
  BY DEF list_products, Answer, ListProductsForStore, InStore, Ok, Denied, NotFound,
         Raise, Goto, Cast
<1>3. ASSUME NEW n \in Rows(r)
      PROVE  /\ Visible(q, Item(r, n)) = row[Item(r, n)] /\ Item(r, n) \in Key
             /\ ItemInv(r, n)
  BY <1>1, RowsOfImport, NobodyAssumption DEF ImportInv, ImportOf, ItemInv, Visible
<1>4. ASSUME NEW n \in Rows(r)
      PROVE  <<r, n>> \in Ids(q, "product") <=> Succeeded(r)
  <2>1. Item(r, n)[1] = "product" /\ Item(r, n)[2] = <<r, n>>
    BY DEF Item
  <2>2. Succeeded(r) => <<r, n>> \in Ids(q, "product")
    BY <1>3, <2>1 DEF Ids, ItemInv
  <2>3. ASSUME <<r, n>> \in Ids(q, "product")
        PROVE  Succeeded(r)
    <3>1. PICK k \in Key : k[1] = "product" /\ Visible(q, k) # NoRow /\ k[2] = <<r, n>>
      BY <2>3 DEF Ids
    <3>2. k = Item(r, n)
      BY <3>1, RowsAssumption DEF Item
    <3> QED BY <1>3, <3>1, <3>2 DEF ItemInv
  <2> QED BY <2>2, <2>3
<1>5. ASSUME NEW n \in Rows(r)
      PROVE  <<r, n>> \in mem'[q] <=> Succeeded(r) /\ job[r].store = job[q].store
  <2>1. Succeeded(r) => Get(q, Item(r, n)).store = job[r].store
    BY <1>3 DEF Get, ItemInv
  <2> QED BY <1>2, <1>4, <2>1 DEF list_products_for_store, Item
<1>6. CASE Succeeded(r) /\ job[r].store = job[q].store
  <2>1. Items(r) \subseteq mem'[q]
    BY <1>5, <1>6 DEF Items
  <2> QED BY <2>1
<1>7. CASE ~(Succeeded(r) /\ job[r].store = job[q].store)
  <2>1. mem'[q] \cap Items(r) = {}
    BY <1>5, <1>7 DEF Items
  <2> QED BY <2>1
<1> QED BY <1>6, <1>7

LEMMA WholeStep ==
  Cast /\ RowsInv /\ ImportInv /\ WholeInv /\ [Next]_vars => WholeInv'
<1> SUFFICES ASSUME Cast, RowsInv, ImportInv, WholeInv, [Next]_vars,
                    NEW q \in Request, NEW r \in Request,
                    pc'[q] # "idle", Op(q)' = "list_products",
                    pc'[q] = "returned" \/ Succeeded(q)', Imports(r)'
             PROVE  ShowsWhole(q, r)'
  BY DEF WholeInv
<1>1. CASE UNCHANGED vars
  <2>1. ShowsWhole(q, r)
    BY <1>1 DEF vars, serving, dbvars, WholeInv, Imports, Op, Succeeded, Answered
  <2> QED BY <1>1, <2>1 DEF vars, serving, ShowsWhole, Items, Rows
<1>2. ASSUME NEW s \in Request, Arrive(s) \/ Step(s) \/ Fail(s)
      PROVE  ShowsWhole(q, r)'
  <2>1. Kind(s) /\ job' = job
    BY <1>2, StepKind DEF Kind, Owns
  <2>2. Op(q) = "list_products" /\ Imports(r) /\ Items(r)' = Items(r)
    BY <2>1 DEF Op, Imports, Items, Rows
  <2>3. CASE q = s /\ pc'[q] = "returned"
    <3>1. list_products(q)
      BY <1>2, <2>2, <2>3, OnlyListReturns
    <3> QED BY <2>2, <2>3, <3>1, ListSeesWhole DEF ShowsWhole
  <2>4. CASE ~(q = s /\ pc'[q] = "returned")
    <3>1. mem'[q] = mem[q] /\ pc[q] # "idle" /\ (pc[q] = "returned" \/ Succeeded(q))
      BY <2>1, <2>4 DEF Kind, Owns, Cast, Waits, Works, Commits, RollsBack, Succeeded,
                        Answered, Held
    <3> QED BY <2>2, <3>1 DEF WholeInv, ShowsWhole
  <2> QED BY <2>3, <2>4
<1> QED BY <1>1, <1>2 DEF Next, Quiesce

\* ImportProductsFromCsv: an import that was answered with success has left all
\* of its products, any other none, and no list shows a part of one.
THEOREM ImportsStayWhole == Spec => []ImportsAreWhole
<1>1. Init => WholeInv
  BY DEF Init, WholeInv
<1>2. Cast /\ ImportInv /\ WholeInv => ImportsAreWhole
  <2> SUFFICES ASSUME Cast, ImportInv, WholeInv, NEW r \in Request, Imports(r)
               PROVE  LET all == {<<r, n>> : n \in DOMAIN job[r].rows}
                      IN  /\ \A i \in all : row[<<"product", i>>] # NoRow <=> Succeeded(r)
                          /\ \A q \in Request :
                               Did(q, "list_products") => mem[q] \cap all \in {{}, all}
    BY DEF ImportsAreWhole, Imports
  <2>1. {<<r, n>> : n \in DOMAIN job[r].rows} = Items(r)
    BY RowsOfImport DEF Items
  <2>2. \A i \in Items(r) : row[<<"product", i>>] # NoRow <=> Succeeded(r)
    BY DEF ImportInv, ImportOf, ItemInv, Items, Item
  <2>3. \A q \in Request : Did(q, "list_products") => mem[q] \cap Items(r) \in {{}, Items(r)}
    BY DEF WholeInv, ShowsWhole, Did, Succeeded, Answered
  <2> QED BY <2>1, <2>2, <2>3
<1> QED BY <1>1, <1>2, ImportsKept, WholeStep, PTL DEF Spec


-----------------------------------------------------------------------------
(* Uploads of themes and receipts.                                         *)

Uploading == {"upload_store_theme", "store_receipt"}

\* Such a row is locked by an upload of it that has nothing left to do.
LockOf(k) ==
  writer[k] # Nobody =>
    /\ Op(writer[k]) \in Uploading /\ Target(writer[k]) = k
    /\ pc[writer[k]] = "returned"

\* Whoever else has uploaded k was answered before r arrived, up to now.
Uncontested(r, k) ==
  /\ job[r] # NoRow /\ Op(r) \in Uploading /\ Target(r) = k
  /\ Uploads(k) \ {r} \subseteq earlier[r]

\* Then the row r has read is still the one that it overwrites.
UploadOf(r, k) ==
  Uncontested(r, k) =>
    /\ pc[r] = "save" => mem[r] = row[k]
    /\ pc[r] = "returned" => \/ writer[k] = r /\ latest[k] = job[r].content
                             \/ writer[k] # r /\ row[k] = job[r].content
    /\ Succeeded(r) => row[k] = job[r].content

UploadInv ==
  \A k \in Key : k[1] \in {"theme", "receipt"} =>
    LockOf(k) /\ \A r \in Request : UploadOf(r, k)

\* What an upload does beside being served.
LEMMA OnlyUploadSteps ==
  ASSUME Cast, NEW r \in Request, Op(r) \in Uploading, Step(r) \/ Arrive(r) \/ Fail(r)
  PROVE  /\ pc'[r] = "save" => SelectTarget(r)
         /\ pc'[r] = "returned" => InsertTarget(r) \/ UpdateTarget(r) \/ KeepTarget(r)
<1> USE DEF Cast, StageFits, At, AuditedOps, Uploading
<1>1. ~Read(r)
  BY DEF Read, read_current_user, list_stores, read_store, list_products, list_orders,
         search_products, read_product, read_store_theme, load_receipt,
         read_store_revenue, read_order, list_users, list_audit_events,
         record_success, record_authorization_failure
<1>2. ~Identify(r)
  BY DEF Identify, login, request_password_reset, confirm_password_reset,
         update_password, SelectTokens, DeleteTokens, InsertToken
<1>3. Write(r) => \/ upload_store_theme(r) \/ store_receipt(r) \/ SelectTarget(r)
                  \/ InsertTarget(r) \/ UpdateTarget(r) \/ KeepTarget(r)
  BY DEF Write, create_store, store_add, create_product, insert_product,
         import_products, ImportRow, ImportStops
<1>4. upload_store_theme(r) \/ store_receipt(r) => pc'[r] \in {"select", "raised"}
  BY DEF upload_store_theme, store_receipt, Enter, Goto, Raise
<1>5. Serve(r) \/ Arrive(r) \/ Fail(r) =>
        pc'[r] \in {"queued", "connecting", "begin", "authorized", "done"}
  BY DEF Serve, Arrive, Fail, Dispatch, Connect, Start, Commit, Rollback, PoolTimeout,
         Move, Finish, Goto
<1>6. /\ SelectTarget(r) => pc'[r] = "save"
      /\ InsertTarget(r) \/ UpdateTarget(r) \/ KeepTarget(r) =>
           pc'[r] \in {"returned", "raised"}
  BY DEF SelectTarget, InsertTarget, UpdateTarget, KeepTarget, Return, Raise, Goto
<1> QED BY <1>1, <1>2, <1>3, <1>4, <1>5, <1>6 DEF Step, read_shipping_quote

\* The set of uploads grows by the commit of one.
LEMMA UploadsGrow ==
  ASSUME Cast, NEW r \in Request, Kind(r), NEW k
  PROVE  /\ Uploads(k) \subseteq Uploads(k)'
         /\ \A q \in Uploads(k)' \ Uploads(k) : q = r /\ Commits(r)
<1>1. job' = job /\ \A q \in Request \ {r} : pc'[q] = pc[q] /\ answer'[q] = answer[q]
  BY DEF Cast, Kind, Owns
<1>2. \A q \in Request : Op(q)' = Op(q) /\ Target(q)' = Target(q)
  BY <1>1 DEF Op, Target
<1>3. \A q \in Request : Succeeded(q) => Succeeded(q)'
  BY <1>1 DEF Succeeded, Answered, Kind, Waits, Works, Commits, RollsBack, Held, Stages
<1>4. \A q \in Request : Succeeded(q)' /\ ~Succeeded(q) => q = r /\ Commits(r)
  BY <1>1 DEF Succeeded, Answered, Kind, Waits, Works, Commits, RollsBack, Held, Stages
<1> QED BY <1>2, <1>3, <1>4 DEF Uploads

LEMMA UncontestedBefore ==
  ASSUME Cast, NEW r \in Request, Kind(r), NEW k, NEW q \in Request,
         Uncontested(q, k)', pc[q] # "idle"
  PROVE  Uncontested(q, k)
<1>1. job' = job /\ earlier'[q] = earlier[q]
  BY DEF Cast, Kind, Owns
<1>2. Uploads(k) \subseteq Uploads(k)'
  BY UploadsGrow
<1> QED BY <1>1, <1>2 DEF Uncontested, Op, Target

\* The commit of an upload that q does not expect ends q's claim.
LEMMA CommitContests ==
  ASSUME Cast, NEW r \in Request, Kind(r), Commits(r), NEW k,
         Op(r) \in Uploading, Target(r) = k, NEW q \in Request \ {r}
  PROVE  ~Uncontested(q, k)'
<1>1. job' = job /\ earlier'[q] = earlier[q]
  BY DEF Cast, Kind, Owns, Commits
<1>2. r \notin earlier[q]
  BY DEF Cast, Commits, Answered
<1>3. Succeeded(r)'
  BY DEF Commits, Succeeded, Answered
<1>4. r \in Uploads(k)'
  BY <1>1, <1>3 DEF Uploads, Uploading, Op, Target
<1> QED BY <1>1, <1>2, <1>4 DEF Uncontested

\* What a step leaves of row k unless it is a step of an upload of k, or ends one.
LEMMA UploadRows ==
  ASSUME Cast, RowsInv, UploadInv, NEW r \in Request, Step(r) \/ Arrive(r) \/ Fail(r),
         NEW k \in Key, k[1] \in {"theme", "receipt"}
  PROVE  \/ Untouched(k)
         \/ (InsertTarget(r) \/ UpdateTarget(r)) /\ Target(r) = k
         \/ (Commits(r) \/ RollsBack(r)) /\ writer[k] = r
<1>1. update_password(r) \/ DeleteTokens(r) \/ InsertToken(r) => Untouched(k)
  <2>1. update_password(r) \/ InsertToken(r) => Untouched(k)
    BY PutKeeps DEF update_password, InsertToken
  <2>2. DeleteTokens(r) => k \notin mem[r]
    BY DEF DeleteTokens, Cast
  <2>3. DeleteTokens(r) => Untouched(k)
    BY <2>2 DEF DeleteTokens, Remove, Untouched
  <2> QED BY <2>1, <2>3
<1>2. InsertTarget(r) /\ Target(r) # k => Untouched(k)
  BY PutKeeps DEF InsertTarget, dbvars, Untouched
<1>3. UpdateTarget(r) /\ Target(r) # k => Untouched(k)
  BY PutKeeps DEF UpdateTarget
<1>4. Commits(r) \/ RollsBack(r) => writer[k] = r \/ Untouched(k)
  BY EndKeeps
<1> QED BY <1>1, <1>2, <1>3, <1>4, StepWrites DEF Watched

LEMMA LockStep ==
  ASSUME Cast, RowsInv, UploadInv, NEW r \in Request, Step(r) \/ Arrive(r) \/ Fail(r),
         NEW k \in Key, k[1] \in {"theme", "receipt"}
  PROVE  LockOf(k)'
<1>1. Kind(r)
  BY StepKind
<1>2. job' = job /\ \A q \in Request \ {r} : pc'[q] = pc[q]
  BY <1>1 DEF Cast, Kind, Owns
<1>3. LockOf(k) /\ writer[k] \in Request \cup {Nobody}
  BY DEF UploadInv, RowsInv
<1>4. \A q : Op(q)' = Op(q) /\ Target(q)' = Target(q)
  BY <1>2 DEF Op, Target
<1>5. CASE Untouched(k) /\ writer[k] # r
  BY <1>2, <1>3, <1>4, <1>5 DEF LockOf, Untouched
<1>6. CASE (InsertTarget(r) \/ UpdateTarget(r)) /\ Target(r) = k
  <2>1. Op(r) \in Uploading
    BY <1>6 DEF InsertTarget, UpdateTarget, Cast, StageFits, Uploading
  <2>2. CASE Untouched(k) /\ writer[k] # r
    BY <1>5, <2>2
  <2>3. writer[k] # r
    BY <1>3, <1>6, NobodyAssumption DEF LockOf, InsertTarget, UpdateTarget
  <2>4. CASE ~Untouched(k)
    <3>1. writer' = [writer EXCEPT ![k] = r] /\ pc'[r] = "returned"
      BY <1>6, <2>4 DEF InsertTarget, UpdateTarget, Put, Return, Raise, Goto, Cast, Untouched, dbvars
    <3>2. writer'[k] = r
      BY <3>1 DEF RowsInv
    <3> QED BY <1>4, <1>6, <2>1, <3>1, <3>2 DEF LockOf
  <2> QED BY <2>2, <2>3, <2>4
<1>7. CASE (Commits(r) \/ RollsBack(r)) /\ writer[k] = r
  <2>1. writer'[k] = Nobody
    BY <1>7, EndWrites
  <2> QED BY <2>1 DEF LockOf
<1>8. CASE writer[k] = r
  <2>1. pc[r] = "returned"
    BY <1>3, <1>8, NobodyAssumption DEF LockOf
  <2>2. Commits(r) \/ RollsBack(r)
    BY <1>1, <2>1 DEF Kind, Waits, Works
  <2> QED BY <1>7, <1>8, <2>2
<1> QED BY <1>5, <1>6, <1>7, <1>8, UploadRows

\* The steps of another request leave r's upload what it was, or contest it.
LEMMA OthersKeepUpload ==
  ASSUME Cast, RowsInv, UploadInv, NEW r \in Request, Step(r) \/ Arrive(r) \/ Fail(r),
         NEW k \in Key, k[1] \in {"theme", "receipt"}, NEW q \in Request \ {r}
  PROVE  UploadOf(q, k)'
<1> SUFFICES ASSUME Uncontested(q, k)'
             PROVE  /\ pc'[q] = "save" => mem'[q] = row'[k]
                    /\ pc'[q] = "returned" => \/ writer'[k] = q /\ latest'[k] = job'[q].content
                                              \/ writer'[k] # q /\ row'[k] = job'[q].content
                    /\ Succeeded(q)' => row'[k] = job'[q].content
  BY DEF UploadOf
<1>1. Kind(r)
  BY StepKind
<1>2. job' = job /\ pc'[q] = pc[q] /\ answer'[q] = answer[q] /\ mem'[q] = mem[q]
  BY <1>1 DEF Cast, Kind, Owns
<1>3. pc[q] # "idle" => UploadOf(q, k) /\ Uncontested(q, k)
  BY <1>1, UncontestedBefore DEF UploadInv
<1>4. CASE Untouched(k)
  BY <1>2, <1>3, <1>4 DEF UploadOf, Untouched, Succeeded, Answered
<1>5. CASE row'[k] = row[k] /\ writer[k] # q /\ writer'[k] # q
  BY <1>2, <1>3, <1>5 DEF UploadOf, Succeeded, Answered
<1>6. CASE (InsertTarget(r) \/ UpdateTarget(r)) /\ Target(r) = k
  <2>1. row' = row /\ writer[k] \in {r, Nobody} /\ writer'[k] \in {r, Nobody}
    BY <1>6 DEF InsertTarget, UpdateTarget, Put, dbvars, Lockable, RowsInv
  <2> QED BY <1>5, <2>1, NobodyAssumption
<1>7. CASE Commits(r) /\ writer[k] = r
  <2>1. Op(r) \in Uploading /\ Target(r) = k
    BY <1>7, NobodyAssumption DEF UploadInv, LockOf
  <2> QED BY <1>1, <1>7, <2>1, CommitContests
<1>8. CASE RollsBack(r) /\ writer[k] = r
  <2>1. row'[k] = row[k] /\ writer'[k] = Nobody
    BY <1>8, EndWrites
  <2> QED BY <1>5, <1>8, <2>1, NobodyAssumption
<1> QED BY <1>4, <1>6, <1>7, <1>8, UploadRows

\* The UPDATE of a row that is as it was read leaves what was uploaded.
LEMMA OverwriteLeavesContent ==
  ASSUME NEW base, NEW content, content = [c \in DOMAIN content |-> content[c]]
  PROVE  Overwrite(base, base, content) = content
BY DEF Overwrite

LEMMA OwnStepsKeepUpload ==
  ASSUME Cast, RowsInv, UploadInv, NEW r \in Request, Step(r) \/ Arrive(r) \/ Fail(r),
         NEW k \in Key, k[1] \in {"theme", "receipt"}
  PROVE  UploadOf(r, k)'
<1> SUFFICES ASSUME Uncontested(r, k)'
             PROVE  /\ pc'[r] = "save" => mem'[r] = row'[k]
                    /\ pc'[r] = "returned" => \/ writer'[k] = r /\ latest'[k] = job'[r].content
                                              \/ writer'[k] # r /\ row'[k] = job'[r].content
                    /\ Succeeded(r)' => row'[k] = job'[r].content
  BY DEF UploadOf
<1>1. Kind(r) /\ job' = job
  BY StepKind DEF Kind, Owns
<1>2. job[r] # NoRow /\ Op(r) \in Uploading /\ Target(r) = k
  BY <1>1 DEF Uncontested, Op, Target
<1>3. pc[r] # "idle" => UploadOf(r, k) /\ Uncontested(r, k)
  BY <1>1, UncontestedBefore DEF UploadInv
<1>4. LockOf(k)
  BY DEF UploadInv
<1>5. CASE pc'[r] = "save"
  <2>1. SelectTarget(r)
    BY <1>2, <1>5, OnlyUploadSteps
  <2>2. pc[r] = "select" /\ row' = row /\ mem'[r] = Visible(r, k)
    BY <1>2, <2>1 DEF SelectTarget, dbvars, Cast
  <2>3. writer[k] # r
    BY <1>4, <2>2, NobodyAssumption DEF LockOf
  <2> QED BY <1>5, <2>2, <2>3 DEF Visible, Succeeded, Answered
<1>6. CASE pc'[r] = "returned"
  <2>1. pc[r] = "save" /\ (InsertTarget(r) \/ UpdateTarget(r) \/ KeepTarget(r))
    BY <1>2, <1>6, OnlyUploadSteps DEF InsertTarget, UpdateTarget, KeepTarget
  <2>2. mem[r] = row[k]
    BY <1>3, <2>1 DEF UploadOf
  <2>3. job[r].content = [c \in DOMAIN job[r].content |-> job[r].content[c]]
    BY <1>2, RowsAssumption DEF Cast, Op, Uploading
  <2>4. CASE InsertTarget(r)
    <3>1. Put(r, k, job[r].content)
      BY <1>2, <1>6, <2>4 DEF InsertTarget, Raise, Goto, Cast
    <3>2. writer'[k] = r /\ latest'[k] = job[r].content
      BY <3>1 DEF Put, RowsInv
    <3> QED BY <1>1, <1>6, <3>2 DEF Succeeded, Answered
  <2>5. CASE UpdateTarget(r)
    <3>1. writer[k] # r
      BY <1>4, <2>1, NobodyAssumption DEF LockOf
    <3>2. latest[k] = row[k]
      BY <1>2, <2>5, <3>1 DEF UpdateTarget, Lockable, RowsInv
    <3>3. Put(r, k, Overwrite(row[k], row[k], job[r].content))
      BY <1>2, <2>2, <2>5, <3>2 DEF UpdateTarget
    <3>4. Put(r, k, job[r].content)
      BY <2>3, <3>3, OverwriteLeavesContent
    <3>5. writer'[k] = r /\ latest'[k] = job[r].content
      BY <3>4 DEF Put, RowsInv
    <3> QED BY <1>1, <1>6, <3>5 DEF Succeeded, Answered
  <2>6. CASE KeepTarget(r)
    <3>1. writer[k] # r
      BY <1>4, <2>1, NobodyAssumption DEF LockOf
    <3> QED BY <1>1, <1>6, <2>2, <2>6, <3>1 DEF KeepTarget, dbvars, Succeeded, Answered
  <2> QED BY <2>1, <2>4, <2>5, <2>6
<1>7. CASE Succeeded(r)' /\ ~Succeeded(r)
  <2>1. Commits(r)
    BY <1>1, <1>7 DEF Kind, Waits, Works, RollsBack, Held, Stages, Succeeded, Answered
  <2>2. \/ writer[k] = r /\ latest[k] = job[r].content
        \/ writer[k] # r /\ row[k] = job[r].content
    BY <1>3, <2>1 DEF Commits, UploadOf
  <2>3. CASE writer[k] = r /\ latest[k] = job[r].content
    <3>1. row'[k] = latest[k]
      BY <2>1, <2>3, EndWrites
    <3> QED BY <1>1, <1>7, <2>3, <3>1 DEF Succeeded, Answered
  <2>4. CASE writer[k] # r
    <3>1. row'[k] = row[k]
      BY <2>1, <2>4, EndKeeps DEF Untouched
    <3> QED BY <1>1, <1>7, <2>2, <2>4, <3>1 DEF Succeeded, Answered
  <2> QED BY <2>2, <2>3, <2>4
<1>8. ~Succeeded(r)
  BY <1>1 DEF Kind, Waits, Works, Commits, RollsBack, Held, Stages, Succeeded, Answered
<1> QED BY <1>5, <1>6, <1>7, <1>8

LEMMA UploadInit == Init => UploadInv
<1> SUFFICES ASSUME Init
             PROVE  UploadInv
  OBVIOUS
<1>1. \A r \in Request : pc[r] = "idle"
  BY DEF Init
<1>2. \A k \in Key : writer[k] = Nobody
  BY DEF Init, DatabaseInit
<1> QED BY <1>1, <1>2 DEF UploadInv, LockOf, UploadOf, Succeeded, Answered

LEMMA UploadStep == Cast /\ RowsInv /\ UploadInv /\ [Next]_vars => UploadInv'
<1> SUFFICES ASSUME Cast, RowsInv, UploadInv, [Next]_vars
             PROVE  UploadInv'
  OBVIOUS
<1>1. CASE UNCHANGED vars
  BY <1>1 DEF vars, serving, dbvars, UploadInv, LockOf, UploadOf, Uncontested, Uploads,
              Target, Op, Succeeded, Answered
<1>2. ASSUME NEW r \in Request, Arrive(r) \/ Step(r) \/ Fail(r)
      PROVE  UploadInv'
  <2> SUFFICES ASSUME NEW k \in Key, k[1] \in {"theme", "receipt"}
               PROVE  LockOf(k)' /\ \A q \in Request : UploadOf(q, k)'
    BY DEF UploadInv
  <2>1. LockOf(k)'
    BY <1>2, LockStep
  <2>2. \A q \in Request \ {r} : UploadOf(q, k)'
    BY <1>2, OthersKeepUpload
  <2>3. UploadOf(r, k)'
    BY <1>2, OwnStepsKeepUpload
  <2> QED BY <2>1, <2>2, <2>3
<1> QED BY <1>1, <1>2 DEF Next, Quiesce

\* repositories.py save() of themes and receipts, which reads a row and then
\* writes the columns that differ from what it read: an upload that began after
\* every other one of the row was answered leaves its own bytes and type.
THEOREM LastUploadStands == Spec => []LastUploadWins
<1>1. Cast /\ UploadInv => LastUploadWins
  <2> SUFFICES ASSUME Cast, UploadInv, NEW k \in Key, NEW r \in Uploads(k),
                      Uploads(k) \ {r} \subseteq earlier[r]
               PROVE  row[k] = job[r].content
    BY DEF LastUploadWins
  <2>1. r \in Request /\ Succeeded(r) /\ Op(r) \in Uploading /\ Target(r) = k
    BY DEF Uploads, Uploading
  <2>2. job[r] # NoRow
    BY <2>1 DEF Cast, Succeeded, Answered
  <2>3. k[1] \in {"theme", "receipt"}
    BY <2>1 DEF Target
  <2> QED BY <2>1, <2>2, <2>3 DEF UploadInv, UploadOf, Uncontested
<1> QED BY <1>1, Basics, UploadInit, UploadStep, PTL DEF Spec


-----------------------------------------------------------------------------
(* Shipping quotes.                                                        *)

LEMMA FirstOf ==
  ASSUME NEW text, NEW n \in Nat
  PROVE  Len(SubSeq(text, 1, n)) = n
OBVIOUS

\* _clean_text: what is left of a text, if anything is, is cut to 64 characters.
LEMMA CleanTextBounds ==
  ASSUME NEW text, CleanText(text) # NoRow
  PROVE  Len(CleanText(text)) \in 1 .. 64
<1> DEFINE cleaned == Cleaned(text)
           length == Len(cleaned)
           n == IF length < 64 THEN length ELSE 64
<1>1. cleaned # <<>> /\ CleanText(text) = SubSeq(cleaned, 1, n)
  BY DEF CleanText
<1> HIDE DEF cleaned
<1>2. length \in Nat /\ length # 0
  BY <1>1
<1> HIDE DEF length
<1>3. n \in 1 .. 64
  BY <1>2
<1> HIDE DEF n
<1>4. Len(SubSeq(cleaned, 1, n)) = n
  BY <1>3, FirstOf
<1> QED BY <1>1, <1>3, <1>4

\* _clean_amount: the bounds are those of the whole cents.
LEMMA CleanAmountBounds ==
  ASSUME NEW mills \in Int, CleanAmount(mills) # NoRow
  PROVE  CleanAmount(mills) \in 1 .. MaxCents
<1> DEFINE amount_cents == mills \div 10
<1>1. amount_cents \in Int /\ MaxCents \in Int
  BY DEF MaxCents
<1>2. amount_cents > 0 /\ amount_cents <= MaxCents
  BY <1>1 DEF CleanAmount
<1>3. CleanAmount(mills) = amount_cents
  BY DEF CleanAmount
<1> HIDE DEF amount_cents
<1> QED BY <1>1, <1>2, <1>3

Bounded(quote) ==
  /\ quote.amount_cents \in 1 .. MaxCents
  /\ Len(quote.carrier) \in 1 .. 64

LEMMA ValidatedBounds ==
  ASSUME NEW upstream, upstream.amount \in Int \cup {NaN}, Validated(upstream).verdict = "ok"
  PROVE  Bounded(Validated(upstream).value)
<1> DEFINE quote == [carrier |-> CleanText(upstream.carrier),
                     service_level |-> CleanText(upstream.service_level),
                     currency |-> CleanCurrency(upstream.currency),
                     amount_cents |-> IF IsFinite(upstream.amount)
                                      THEN CleanAmount(upstream.amount) ELSE NoRow]
<1>1. /\ quote.carrier = CleanText(upstream.carrier)
      /\ IsFinite(upstream.amount) => quote.amount_cents = CleanAmount(upstream.amount)
  OBVIOUS
<1>2. Validated(upstream) =
        IF \E f \in {"carrier", "service_level", "currency"} : quote[f] = NoRow
        THEN Conflict
        ELSE IF ~IsFinite(upstream.amount) THEN [Conflict EXCEPT !.verdict = "failed"]
        ELSE IF quote.amount_cents = NoRow THEN Conflict
        ELSE Ok(quote)
  BY DEF Validated
<1> HIDE DEF quote
<1>3. /\ quote["carrier"] # NoRow /\ quote.amount_cents # NoRow
      /\ IsFinite(upstream.amount)
      /\ Validated(upstream).value = quote
  BY <1>2 DEF Conflict, Ok
<1>4. upstream.amount \in Int
  BY <1>3 DEF IsFinite
<1> QED BY <1>1, <1>3, <1>4, CleanTextBounds, CleanAmountBounds DEF Bounded

\* MockShippingRateProvider computes in whole thousandths.
LEMMA QuoteOfRequest ==
  ASSUME Cast, NEW r \in Request, job[r] # NoRow, Op(r) = "read_shipping_quote",
         GetShippingQuote(r).verdict = "ok"
  PROVE  Bounded(GetShippingQuote(r).value)
<1> DEFINE upstream == IF job[r].upstream = NoRow
                       THEN fetch_quote(job[r].country, job[r].grams)
                       ELSE job[r].upstream
<1>1. GetShippingQuote(r) = Validated(upstream)
  BY DEF GetShippingQuote, Denied, Conflict
<1>2. /\ job[r].grams \in Int
      /\ job[r].upstream # NoRow => job[r].upstream.amount \in Int \cup {NaN}
  BY QuotesAssumption DEF Cast, Op
<1>3. fetch_quote(job[r].country, job[r].grams).amount \in Int
  BY <1>2, InfinityAssumption DEF fetch_quote
<1>4. upstream.amount \in Int \cup {NaN}
  BY <1>2, <1>3
<1> HIDE DEF upstream
<1> QED BY <1>1, <1>4, ValidatedBounds

QuoteInv ==
  \A r \in Request :
    pc[r] # "idle" /\ Op(r) = "read_shipping_quote"
    /\ (pc[r] = "returned" \/ Succeeded(r)) => Bounded(mem[r])

\* Only its handler makes a request for a quote return.
LEMMA OnlyQuoteReturns ==
  ASSUME Cast, NEW r \in Request, Step(r) \/ Arrive(r) \/ Fail(r),
         Op(r) = "read_shipping_quote", pc'[r] = "returned"
  PROVE  read_shipping_quote(r)
<1> USE DEF Cast, Goto, At, StageFits, AuditedOps
<1>1. ~Serve(r) /\ ~Arrive(r) /\ ~Fail(r)
  BY DEF Serve, Arrive, Fail, Dispatch, Connect, Start, Commit, Rollback, PoolTimeout,
         Move, Finish
<1>2. ~Write(r)
  BY DEF Write, create_store, store_add, create_product, insert_product, import_products,
         ImportRow, ImportStops, upload_store_theme, store_receipt, SelectTarget,
         InsertTarget, UpdateTarget, KeepTarget
<1>3. ~Identify(r)
  BY DEF Identify, login, request_password_reset, confirm_password_reset,
         update_password, SelectTokens, DeleteTokens, InsertToken
<1>4. ~Read(r)
  BY DEF Read, read_current_user, list_stores, read_store, list_products, list_orders,
         search_products, read_product, read_store_theme, load_receipt,
         read_store_revenue, read_order, list_users, list_audit_events,
         record_success, record_authorization_failure
<1> QED BY <1>1, <1>2, <1>3, <1>4 DEF Step

LEMMA QuoteStep ==
  ASSUME Cast, RowsInv, QuoteInv, NEW r \in Request, Step(r) \/ Arrive(r) \/ Fail(r)
  PROVE  QuoteInv'
<1> SUFFICES ASSUME NEW q \in Request, pc'[q] # "idle", Op(q)' = "read_shipping_quote",
                    pc'[q] = "returned" \/ Succeeded(q)'
             PROVE  Bounded(mem'[q])
  BY DEF QuoteInv, Bounded
<1>1. Kind(r)
  BY StepKind
<1>2. Op(q) = "read_shipping_quote"
  BY <1>1 DEF Kind, Owns, Op
<1>3. q # r => pc'[q] = pc[q] /\ answer'[q] = answer[q] /\ mem'[q] = mem[q]
  BY <1>1 DEF Kind, Owns, Cast
<1>4. CASE q = r /\ pc'[r] = "returned"
  <2>1. read_shipping_quote(r)
    BY <1>2, <1>4, OnlyQuoteReturns
  <2>2. /\ GetShippingQuote(r).verdict = "ok" /\ mem'[r] = GetShippingQuote(r).value
        /\ pc[r] = "begin"
    BY <1>4, <2>1 DEF read_shipping_quote, At, Answer, Raise, Goto, Cast
  <2>3. job[r] # NoRow
    BY <2>2 DEF Cast
  <2> QED BY <1>2, <1>4, <2>2, <2>3, QuoteOfRequest
<1>5. CASE q = r /\ pc'[r] # "returned"
  <2>1. pc[r] = "returned" /\ mem' = mem
    BY <1>1, <1>5 DEF Kind, Owns, Waits, Works, Commits, RollsBack, Succeeded, Answered, Held
  <2> QED BY <1>2, <1>5, <2>1 DEF QuoteInv
<1>6. CASE q # r
  BY <1>2, <1>3, <1>6 DEF QuoteInv, Succeeded, Answered
<1> QED BY <1>4, <1>5, <1>6

\* shipping_rates.py: whatever a provider answers and whatever the parcel
\* weighs, a quote that is passed on is of a named carrier and in bounds.
THEOREM QuotesStayInBounds == Spec => []QuotesInBounds
<1>1. Init => QuoteInv
  BY DEF Init, QuoteInv
<1>2. Cast /\ RowsInv /\ QuoteInv /\ [Next]_vars => QuoteInv'
  <2> SUFFICES ASSUME Cast, RowsInv, QuoteInv, [Next]_vars
               PROVE  QuoteInv'
    OBVIOUS
  <2>1. CASE UNCHANGED vars
    BY <2>1 DEF vars, serving, QuoteInv, Bounded, Succeeded, Answered, Op
  <2>2. ASSUME NEW r \in Request, Arrive(r) \/ Step(r) \/ Fail(r)
        PROVE  QuoteInv'
    BY <2>2, QuoteStep
  <2> QED BY <2>1, <2>2 DEF Next, Quiesce
<1>3. QuoteInv => QuotesInBounds
  BY DEF QuoteInv, QuotesInBounds, Bounded, Did, Succeeded, Answered
<1> QED BY <1>1, <1>2, <1>3, Basics, PTL DEF Spec
=============================================================================
