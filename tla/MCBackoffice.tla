---------------------------- MODULE MCBackoffice ----------------------------
(***************************************************************************)
(* Two stores with an owner and customers, two processes, and workloads of *)
(* up to three requests, one for every group of operations that meet in a  *)
(* row or in a pool.                                                       *)
(***************************************************************************)
EXTENDS Backoffice, TLC

CONSTANTS r1, r2, r3, p1, p2,
          ada, dana, olga, carl, zoe, north, south, o1, o2, hat

User == {ada, dana, olga, carl, zoe}

MCKey ==
  {<<"user", u>> : u \in User} \cup {<<"store", s>> : s \in {north, south, r1, r2}}
  \cup {<<"order", o>> : o \in {o1, o2}} \cup {<<"product", hat>>}
  \cup {<<"product", <<r, n>>>> : r \in Request, n \in 1 .. 2}
  \cup {<<"theme", s>> : s \in {north, south}} \cup {<<"receipt", o1>>}
  \cup {<<t, r>> : t \in {"event", "token"}, r \in Request}

Person(u, role, store) == [id |-> u, role |-> role, store |-> store, password |-> "old"]

Seed ==
  <<"user", ada>> :> Person(ada, "admin", NoRow)
  @@ <<"user", dana>> :> Person(dana, "delivery_manager", NoRow)
  @@ <<"user", olga>> :> Person(olga, "store_owner", north)
  @@ <<"user", carl>> :> Person(carl, "customer", north)
  @@ <<"user", zoe>> :> Person(zoe, "customer", north)
  @@ <<"store", north>> :> "a store" @@ <<"store", south>> :> "a store"
  @@ <<"product", hat>> :> [store |-> north, name |-> "hat"]
  @@ <<"order", o1>> :> [store |-> north, customer |-> carl, status |-> "packed"]
  @@ <<"order", o2>> :> [store |-> north, customer |-> zoe, status |-> "cancelled"]
  @@ <<"theme", south>> :> [artifact |-> "blue", type |-> "css"]

MCInitialRow == [k \in MCKey |-> IF k \in DOMAIN Seed THEN Seed[k] ELSE NoRow]

MCThreads == p1 :> 2 @@ p2 :> 1
MCConnections == p1 :> 2 @@ p2 :> 1

By(u, op) == [op |-> op, actor |-> u]
In(s, body) == body @@ [store |-> s]
Theme(u, s, a, t) ==
  In(s, By(u, "upload_store_theme"))
  @@ [multipart |-> FALSE, signed |-> TRUE, content |-> [artifact |-> a, type |-> t]]
Receipt(u, text) ==
  By(u, "store_receipt") @@ [order |-> o1, content |-> [payload |-> text]]
Order(u, op, o) == By(u, op) @@ [order |-> o]
Import(u, rows) == In(north, By(u, "import_products")) @@ [rows |-> rows]
Login(u, w) == [op |-> "login", user |-> u, password |-> w]
Forgot(u) == [op |-> "request_password_reset", user |-> u]
Confirm(r, w) == [op |-> "confirm_password_reset", token |-> r, password |-> w]
Quote(u, grams, upstream) ==
  By(u, "read_shipping_quote")
  @@ [country |-> "PT", grams |-> grams, upstream |-> upstream]
Upstream(carrier, currency, amount) ==
  [carrier |-> carrier, service_level |-> <<"letter">>, currency |-> currency,
   amount |-> amount]
EUR == <<"letter", "letter", "letter">>
Long == [i \in 1 .. 66 |-> IF i = 1 THEN "space" ELSE "letter"]

Load(a, b, c) == r1 :> a @@ r2 :> b @@ r3 :> c
Pair(a, b) == Load(a, b, NoRow)

Themes ==
  {Load(Theme(olga, north, "red", "css"), Theme(ada, north, "blue", "css"),
        In(north, By(carl, "read_store_theme"))),
   Load(Theme(ada, south, "red", "css"), Theme(ada, south, "blue", "zip"),
        Theme(ada, south, "blue", "css")),
   Pair(Theme(carl, north, "red", "css"),
        [Theme(olga, north, "red", "css") EXCEPT !.signed = FALSE]),
   Pair([Theme(olga, north, "red", "css") EXCEPT !.multipart = TRUE],
        In(north, By(carl, "read_store_theme")))}
Receipts ==
  {Load(Receipt(carl, "one"), Receipt(ada, "two"), Order(carl, "load_receipt", o1)),
   Pair(Receipt(zoe, "one"), Order(carl, "load_receipt", hat))}
Goods ==
  {Load(Import(olga, <<"hat", "cap">>), Import(ada, <<"hat", "malformed">>),
        In(north, By(carl, "list_products"))),
   Load(In(north, By(olga, "create_product")) @@ [name |-> "hat"],
        In(north, By(dana, "search_products")) @@ [query |-> "hat"],
        By(carl, "read_product") @@ [product |-> <<r1, 1>>]),
   Pair(In(south, By(olga, "create_product")) @@ [name |-> "hat"],
        Import(carl, <<"hat">>))}
Stores ==
  {Pair(By(ada, "create_store"), By(ada, "list_stores")),
   Pair(By(olga, "create_store"), By(carl, "list_stores")),
   Pair(By(ada, "create_store"), In(r1, By(dana, "read_store"))),
   Pair(By(carl, "read_current_user"), In(south, By(carl, "read_store")))}
Orders ==
  {Pair(In(north, By(carl, "list_orders")), In(north, By(dana, "list_orders"))),
   Pair(In(north, By(olga, "list_orders")), In(south, By(olga, "list_orders"))),
   Pair(In(north, By(olga, "read_store_revenue")),
        In(north, By(carl, "read_store_revenue")))}
Audited ==
  {Load(By(ada, "list_users"), By(ada, "list_audit_events"),
        Order(ada, "read_order", o1)),
   Pair(By(carl, "list_users"), Order(zoe, "read_order", o1)),
   Pair(By(olga, "list_audit_events"), Order(dana, "read_order", o2)),
   Pair(Order(ada, "read_order", hat), Order(carl, "read_order", o1))}
Resets ==
  {Load(Forgot(carl), Forgot(carl), Confirm(r1, "new")),
   Load(Forgot(carl), Confirm(r1, "new"), Confirm(r1, "newer")),
   Load(Forgot(carl), Confirm(r1, "new"), Login(carl, "new")),
   Load(Login(zoe, "old"), Login(zoe, "wrong"), Login(zoe, "worse")),
   Pair(Forgot(north), Login(north, "old"))}
Quoted ==
  {Pair(Quote(carl, 1500, NoRow), Quote(dana, 1500, NoRow)),
   Pair(Quote(carl, Infinity, NoRow), Quote(carl, 12000000, NoRow)),
   Pair(Quote(ada, 1, Upstream(EUR, EUR, 9)),
        Quote(ada, 1, Upstream(Long, EUR, 20000010))),
   Pair(Quote(ada, 1, Upstream(Long, EUR, 20000000)),
        Quote(ada, 1, Upstream(<<"space", "other">>, EUR, 10))),
   Pair(Quote(ada, 1, Upstream(EUR, <<"letter">>, 10)),
        Quote(ada, 1, Upstream(EUR, EUR, 0))),
   Pair(Quote(ada, 1, Upstream(EUR, EUR, NaN)),
        Quote(ada, 1, Upstream(EUR, <<"letter">>, NaN)))}

MCWorkloads ==
  Themes \cup Receipts \cup Goods \cup Stores \cup Orders \cup Audited
  \cup Resets \cup Quoted

\* Two denials are enough for the audit trail.
MCDenials == {Pair(By(carl, "list_users"), Order(zoe, "read_order", o1))}

\* Three attempts, of which MaxAttempts is two, on one account.
MCBursts ==
  {Load(Login(zoe, "wrong"), Login(zoe, "worse"), Login(zoe, "worst")),
   Load(Forgot(carl), Forgot(carl), Forgot(carl))}
=============================================================================
