----------------------------- MODULE Backoffice -----------------------------
(***************************************************************************)
(* The whole API but for checkout and the order lifecycle: requests of     *)
(* every kind, served by several processes over one database.              *)
(***************************************************************************)
EXTENDS Accounts, Quotes, Integers

Known(u) == <<"user", u>> \in Key /\ IsUser(InitialRow[<<"user", u>>])

\* Requests are sent by users that exist (get_current_user), and their own ids
\* are new; MaxAttempts is positive in the code.
ASSUME RequestsAssumption ==
  /\ IsFiniteSet(Request)
  /\ MaxAttempts \in Nat /\ MaxAttempts > 0
  /\ \A r \in Request, t \in {"event", "token"} :
       <<t, r>> \in Key /\ InitialRow[<<t, r>>] = NoRow
  /\ \A w \in Workloads, r \in Request :
       w[r] # NoRow /\ w[r].op \notin Public =>
         /\ Known(w[r].actor)
         /\ NoRow \notin [actor : {w[r].actor}, outcome : {"success", "authorization_denied"}]

\* Keys are pairs, and the rows at the start are rows.
ASSUME RowsAssumption ==
  /\ \A k \in Key : k = <<k[1], k[2]>>
  /\ InitialRow = [k \in Key |-> InitialRow[k]]
  /\ \A k \in Key :
       /\ IsRow(k, InitialRow[k])
       /\ k[1] = "token" /\ InitialRow[k] # NoRow => Known(InitialRow[k].user)
  /\ \A w \in Workloads, r \in Request : w[r] # NoRow =>
       /\ w[r].op = "upload_store_theme" => IsStoreTheme(w[r].content)
       /\ w[r].op = "store_receipt" => IsOrderReceipt(w[r].content)
       /\ w[r].op \in {"upload_store_theme", "store_receipt"} =>
            w[r].content = [c \in DOMAIN w[r].content |-> w[r].content[c]]

\* An import is a sequence of rows, whose products have new ids.
ASSUME ImportsAssumption ==
  \A w \in Workloads, r \in Request :
    w[r] # NoRow /\ w[r].op = "import_products" =>
      /\ Len(w[r].rows) \in Nat /\ DOMAIN w[r].rows = 1 .. Len(w[r].rows)
      /\ \A n \in DOMAIN w[r].rows :
           /\ <<"product", <<r, n>>>> \in Key
           /\ InitialRow[<<"product", <<r, n>>>>] = NoRow
           /\ NoRow \notin [store : {w[r].store}, name : {w[r].rows[n]}]

\* A parcel weighs a whole number of grams, and the amount that a provider
\* answers is a whole number of thousandths or not a number.
ASSUME QuotesAssumption ==
  \A w \in Workloads, r \in Request :
    w[r] # NoRow /\ w[r].op = "read_shipping_quote" =>
      /\ w[r].grams \in Int
      /\ w[r].upstream # NoRow => w[r].upstream.amount \in Int \cup {NaN}

Step(r) ==
  Serve(r) \/ Read(r) \/ Write(r) \/ Identify(r) \/ read_shipping_quote(r)

\* Every request that is going to be sent has been answered.
Quiesce ==
  /\ \A r \in Request : Answered(r) \/ job[r] = NoRow
  /\ UNCHANGED vars

Next == (\E r \in Request : Arrive(r) \/ Step(r) \/ Fail(r)) \/ Quiesce

Spec == Init /\ [][Next]_vars

\* Threads and event loops run, PostgreSQL answers, and a pool's timeout ends
\* a wait for a connection.
FairSpec == Spec /\ \A r \in Request : WF_vars(Step(r))

-----------------------------------------------------------------------------
Stages ==
  {"idle", "queued", "connecting", "authorized", "begin", "audit", "deny",
   "insert", "select", "save", "update_password", "select_tokens",
   "delete_tokens", "insert_token", "returned", "raised", "done"}

TypeOK ==
  /\ IsTable(row) /\ IsTable(latest)
  /\ \A k \in Key : IsRow(k, row[k]) /\ IsRow(k, latest[k])
  /\ writer \in [Key -> Request \cup {Nobody}]
  /\ job \in Workloads
  /\ proc \in [Request -> Process \cup {NoRow}]
  /\ pc \in [Request -> Stages]
  /\ DOMAIN mem = Request
  /\ answer \in [Request -> {"none", "ok", "denied", "not_found", "conflict",
                             "refused", "limited", "failed"}]
  /\ earlier \in [Request -> SUBSET Request]
  /\ \A r \in Request : /\ job[r] = NoRow => pc[r] = "idle"
                        /\ Active(r) => proc[r] \in Process
  /\ \A p \in Process :
       Cardinality({r \in Of(p) : HoldsConnection(r)}) <= Connections[p]

Succeeded(r) == Answered(r) /\ answer[r] = "ok"
Did(r, op) == Succeeded(r) /\ Op(r) = op

\* Locks and uncommitted versions belong to requests that have a connection.
NoStrayVersions ==
  \A k \in Key : /\ writer[k] # Nobody => HoldsConnection(writer[k])
                 /\ writer[k] = Nobody => latest[k] = row[k]

IsAudited(r) ==
  \/ Op(r) \in {"list_users", "list_audit_events"}
  \/ Op(r) = "read_order" /\ Actor(r).role = "admin"

\* audit.py: the trail has exactly the admins' actions that were answered with
\* success, however a request ends.
SuccessesAreAudited ==
  \A r \in Request :
    row[<<"event", r>>] # NoRow <=> Succeeded(r) /\ IsAudited(r)

\* ImportProductsFromCsv: a request leaves all the products that it was
\* answered for, or none, and no list ever shows a part of an import.
ImportsAreWhole ==
  \A r \in Request : job[r] # NoRow /\ Op(r) = "import_products" =>
    LET all == {<<r, n>> : n \in DOMAIN job[r].rows}
    IN  /\ \A i \in all : row[<<"product", i>>] # NoRow <=> Succeeded(r)
        /\ \A q \in Request :
             Did(q, "list_products") => mem[q] \cap all \in {{}, all}

\* ListOrdersForStore filters in SQL, GetOrder asks a policy: an actor is
\* listed no order that it may not read one by one, and no customer's name if
\* it must not see it.
ListsShowOnlyReadable ==
  \A r \in Request : Did(r, "list_orders") =>
    \A v \in mem[r] :
      /\ can_read_order(Actor(r), row[<<"order", v.order>>])
      /\ must_anonymize_order_for(Actor(r)) => v.customer = NoRow

Uploads(k) ==
  {r \in Request : /\ Succeeded(r)
                   /\ Op(r) \in {"upload_store_theme", "store_receipt"}
                   /\ Target(r) = k}

\* repositories.py save() of themes and receipts: an upload that began after
\* every other one was answered leaves its own bytes, type and all.  (Two that
\* overlap may leave the bytes of one under the type of the other.)
LastUploadWins ==
  \A k \in Key : \A r \in Uploads(k) :
    Uploads(k) \ {r} \subseteq earlier[r] => row[k] = job[r].content

\* Whose password a reset token is for: that of the request that inserted it.
HolderOf(t) ==
  IF t \in Request THEN job[t].user ELSE InitialRow[<<"token", t>>].user

\* ConfirmPasswordReset: one token is used twice only by two confirmations
\* that overlap.
TokenReuseNeedsOverlap ==
  \A q, r \in Request :
    /\ q # r
    /\ Did(q, "confirm_password_reset") /\ Did(r, "confirm_password_reset")
    /\ job[q].token = job[r].token
    => q \notin earlier[r]

\* delete_for_user: a reset request or a confirmation leaves no token behind
\* that was answered before it began, so two tokens of one account are only
\* outstanding after requests that overlap.
ResetsClearEarlierTokens ==
  \A q, r \in Request :
    /\ q # r /\ row[<<"token", q>>] # NoRow
    /\ \/ Did(r, "confirm_password_reset") \/ Did(r, "request_password_reset")
    /\ row[<<"token", q>>].user =
         IF Op(r) = "request_password_reset" THEN job[r].user
         ELSE HolderOf(job[r].token)
    => q \notin earlier[r]

\* The password is that of a confirmation that no later one replaced.
PasswordIsLatest ==
  \A r \in Request : Did(r, "confirm_password_reset") =>
    \E q \in Request :
      /\ q = r \/ q \notin earlier[r]
      /\ Did(q, "confirm_password_reset")
      /\ HolderOf(job[q].token) = HolderOf(job[r].token)
      /\ row[<<"user", HolderOf(job[r].token)>>].password = job[q].password

\* shipping_rates.py: whatever a provider answers, a quote that is passed on
\* is between a cent and 20000, of a named carrier.
QuotesInBounds ==
  \A r \in Request : Did(r, "read_shipping_quote") =>
    /\ mem[r].amount_cents \in 1 .. MaxCents
    /\ Len(mem[r].carrier) \in 1 .. 64

\* Every request is answered, although threads wait for connections that are
\* held by requests waiting for threads, unless event loops wait for each
\* other: an async handler waits on the loop for the row lock of a request
\* that needs the loop to commit, which PostgreSQL cannot see.
RequestsAnswered ==
  []<>(\/ \A r \in Request : ~Active(r)
       \/ \E S \in SUBSET Process : Wedged(S))

-----------------------------------------------------------------------------
(* What comments of the code claim without condition.                      *)

\* audit.py:4: "Authorization failures are persisted and logged as domain
\* audit events."
DenialsAreRecorded ==
  \A r \in Request :
    /\ Answered(r) /\ answer[r] = "denied"
    /\ Op(r) \in {"read_order", "list_users", "list_audit_events"}
    => row[<<"event", r>>] # NoRow

\* The attempts on one account that one process had answered before r began:
\* logins refused since the last one granted, or reset requests granted.
Burst(r) ==
  {q \in earlier[r] :
    /\ proc[q] = proc[r] /\ Op(q) = Op(r) /\ job[q].user = job[r].user
    /\ answer[q] = IF Op(r) = "login" THEN "refused" ELSE "ok"
    /\ ~\E s \in earlier[r] : /\ Op(s) = "login" /\ job[s].user = job[r].user
                              /\ answer[s] = "ok" /\ q \in earlier[s]}

\* authentication.py:4: "failed login bursts are rate-limited / locked out";
\* password_reset.py:5: "rate limiting on reset-request bursts".
BurstsAreLimited ==
  \A r \in Request :
    /\ Answered(r) /\ Op(r) \in {"login", "request_password_reset"}
    /\ Cardinality(Burst(r)) >= MaxAttempts
    => answer[r] \in {"limited", "failed"}
=============================================================================
