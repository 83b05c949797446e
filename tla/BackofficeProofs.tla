-------------------------- MODULE BackofficeProofs --------------------------
(***************************************************************************)
(* The safety of Backoffice for any number of processes, threads,          *)
(* connections and requests, for any rows to begin with and for any        *)
(* workload.  Every step of a request is one of four kinds with respect to *)
(* the database (Kind); what follows from that is proved once per kind.    *)
(* At the end, how the policies of Authorization fit together.             *)
(***************************************************************************)
EXTENDS Backoffice, FiniteSetTheorems, TLAPS

\* The stages in which a request holds a connection.
Held == Stages \ {"idle", "queued", "connecting", "done"}

Answers == {"none", "ok", "denied", "not_found", "conflict", "refused", "failed"}

\* The stages after the first of the use cases that write rows other than events.
Writing ==
  {"insert", "select", "save", "update_password", "select_tokens",
   "delete_tokens", "insert_token"}
WritingOps ==
  {"create_store", "create_product", "import_products", "upload_store_theme",
   "store_receipt", "request_password_reset", "confirm_password_reset"}

AuditedOps == {"list_users", "list_audit_events", "read_order"}

\* Which operation a stage belongs to.
StageFits(op, stage) ==
  /\ stage = "insert" => op \in {"create_store", "create_product", "import_products"}
  /\ stage \in {"select", "save"} => op \in {"upload_store_theme", "store_receipt"}
  /\ stage = "update_password" => op = "confirm_password_reset"
  /\ stage \in {"select_tokens", "delete_tokens"} =>
       op \in {"request_password_reset", "confirm_password_reset"}
  /\ stage = "insert_token" => op = "request_password_reset"
  /\ stage \in {"audit", "deny"} => op \in AuditedOps

\* Types, and what a stage says about the operation.
Cast ==
  /\ pc \in [Request -> Stages]
  /\ answer \in [Request -> Answers]
  /\ mem = [r \in Request |-> mem[r]]
  /\ earlier \in [Request -> SUBSET Request]
  /\ job \in Workloads
  /\ proc \in [Request -> Process \cup {NoRow}]
  /\ \A r \in Request :
       /\ StageFits(Op(r), pc[r])
       /\ pc[r] = "audit" => IsAudited(r)
       /\ pc[r] = "delete_tokens" => \A k \in mem[r] : k[1] = "token"
       /\ pc[r] = "update_password" => Known(mem[r])
       /\ Op(r) = "request_password_reset"
          /\ pc[r] \in {"select_tokens", "delete_tokens", "insert_token"} =>
            Known(job[r].user)
       /\ pc[r] = "raised" => answer[r] \notin {"ok", "none"}
       /\ pc[r] # "idle" => job[r] # NoRow /\ proc[r] \in Process
       /\ r \notin earlier[r]
       /\ \A q \in earlier[r] : Answered(q)

SameUser(v, w) ==
  IsUser(v) /\ v.id = w.id /\ v.role = w.role /\ v.store = w.store

\* What a version of row k may be: orders stay as they are, and users keep their
\* ids, roles and stores.
FitsRow(k, v) ==
  /\ IsRow(k, v)
  /\ k[1] = "order" => v = InitialRow[k]
  /\ k[1] = "user" =>
       IF IsUser(InitialRow[k]) THEN SameUser(v, InitialRow[k]) ELSE v = NoRow
  /\ k[1] = "token" => (v # NoRow => Known(v.user))

\* Whoever has written a row holds a connection.
RowsInv ==
  /\ row = [k \in Key |-> row[k]] /\ latest = [k \in Key |-> latest[k]]
  /\ writer \in [Key -> Request \cup {Nobody}]
  /\ \A k \in Key :
       /\ FitsRow(k, row[k]) /\ FitsRow(k, latest[k])
       /\ writer[k] # Nobody => pc[writer[k]] \in Held
       /\ writer[k] = Nobody => latest[k] = row[k]

\* What a use case writes besides events: an order never, of products its own,
\* of a user only the password.
MayPut(r, k, v) ==
  /\ k[1] \notin {"event", "order"}
  /\ k[1] = "product" => k[2] = <<r, k[2][2]>>
  /\ k[1] = "user" => Known(k[2]) /\ \E w : v = [latest[k] EXCEPT !.password = w]
  /\ k[1] # "user" => IsRow(k, v)
  /\ k[1] = "token" => Known(v.user)

\* One step of request r, with respect to the database.
Owns(r) ==
  /\ UNCHANGED job
  /\ pc' = [pc EXCEPT ![r] = pc'[r]] /\ pc'[r] \in Stages
  /\ answer' = [answer EXCEPT ![r] = answer'[r]] /\ answer'[r] \in Answers
  /\ mem' = [mem EXCEPT ![r] = mem'[r]]
  /\ \/ earlier' = earlier
     \/ pc[r] = "idle" /\ earlier' = [earlier EXCEPT ![r] = {q \in Request : Answered(q)}]
  /\ StageFits(Op(r), pc'[r])
  /\ pc'[r] = "audit" => IsAudited(r)
  /\ pc'[r] = "delete_tokens" => \A k \in mem'[r] : k[1] = "token"
  /\ pc'[r] = "update_password" => Known(mem'[r])
  /\ Op(r) = "request_password_reset"
     /\ pc'[r] \in {"select_tokens", "delete_tokens", "insert_token"} => Known(job[r].user)
  /\ \/ pc[r] # "idle" /\ proc' = proc
     \/ /\ pc[r] = "idle" /\ pc'[r] = "queued"
        /\ \E p \in Process : proc' = [proc EXCEPT ![r] = p]
  /\ pc'[r] = "idle" \/ job[r] # NoRow
  /\ pc'[r] = "done" => mem' = mem

\* It has no connection yet, or it never gets one.
Waits(r) ==
  /\ UNCHANGED dbvars
  /\ pc[r] \in {"idle", "queued", "connecting"}
  /\ \/ pc'[r] \in {"queued", "connecting", "authorized", "begin"}
     \/ pc'[r] = "done" /\ answer'[r] = "failed"
  /\ pc'[r] \in {"authorized", "begin"} => pc[r] = "connecting" /\ ConnectionFree(proc[r])
Works(r) ==
  /\ pc[r] \in Held \ {"returned", "raised"} /\ pc'[r] \in Held
  /\ pc'[r] = "raised" => answer'[r] \notin {"ok", "none"}
  /\ \/ /\ UNCHANGED dbvars
        /\ pc'[r] = "returned" => ~IsAudited(r)
     \/ /\ \E k, v : Put(r, k, v) /\ MayPut(r, k, v)
        /\ pc'[r] # "audit" /\ (pc'[r] = "returned" => ~IsAudited(r))
     \/ /\ \E keys : Remove(r, keys) /\ \A k \in keys : k[1] = "token"
        /\ pc'[r] # "audit" /\ (pc'[r] = "returned" => ~IsAudited(r))
     \/ \E v : /\ Put(r, <<"event", r>>, v) /\ v # NoRow /\ IsAuditEvent(v)
               /\ \/ pc[r] = "audit" /\ pc'[r] = "returned"
                  \/ pc[r] = "deny" /\ pc'[r] = "raised"
Commits(r) == pc[r] = "returned" /\ pc'[r] = "done" /\ answer'[r] = "ok" /\ Publish(r)
RollsBack(r) == pc[r] \in Held /\ pc'[r] = "done" /\ answer'[r] # "ok" /\ Discard(r)

Kind(r) == Owns(r) /\ (Waits(r) \/ Works(r) \/ Commits(r) \/ RollsBack(r))

-----------------------------------------------------------------------------
(* The kinds of the steps of Serving.                                      *)

LEMMA ServeKind ==
  ASSUME Cast, NEW r \in Request, Serve(r) \/ Arrive(r) \/ Fail(r)
  PROVE  Kind(r)
<1> USE DEF Cast, Kind, Owns, Stages, Answers, Held, Goto, StageFits
<1>1. CASE Arrive(r)
  BY <1>1 DEF Arrive, Waits
<1>2. CASE Dispatch(r)
  BY <1>2 DEF Dispatch, Move, Waits
<1>3. CASE Connect(r)
  BY <1>3 DEF Connect, Move, Waits
<1>4. CASE Start(r)
  BY <1>4 DEF Start, Move, Works
<1>5. CASE Commit(r)
  BY <1>5 DEF Commit, Finish, Commits
<1>6. CASE Rollback(r)
  BY <1>6 DEF Rollback, Finish, RollsBack
<1>7. CASE PoolTimeout(r)
  BY <1>7 DEF PoolTimeout, Finish, Waits
<1>8. CASE Fail(r)
  BY <1>8 DEF Fail, Finish, RollsBack, HoldsConnection, Active
<1> QED BY <1>1, <1>2, <1>3, <1>4, <1>5, <1>6, <1>7, <1>8 DEF Serve

-----------------------------------------------------------------------------
(* The kinds of the steps of use cases.                                    *)

Verdicts == {"ok", "denied", "not_found", "conflict", "failed"}

LEMMA ShapesReturnVerdicts ==
  ASSUME NEW r, NEW permitted, NEW value
  PROVE  /\ InStore(r, permitted, value).verdict \in Verdicts
         /\ OfOrder(r, permitted, value).verdict \in Verdicts
BY DEF InStore, OfOrder, Ok, Denied, NotFound, Verdicts

\* A handler that answers with what it read.
LEMMA AnswerKind ==
  ASSUME Cast, NEW r \in Request, pc[r] = "begin", Op(r) \notin AuditedOps,
         NEW outcome, outcome.verdict \in Verdicts, Answer(r, outcome)
  PROVE  Kind(r)
BY DEF Cast, Kind, Owns, Works, Stages, Answers, Held, Verdicts, Answer, Return,
       Raise, Goto, IsAudited, AuditedOps, Writing, StageFits

\* A handler with an audit trail.
LEMMA AnswerAuditedKind ==
  ASSUME Cast, NEW r \in Request, pc[r] = "begin", Op(r) \in AuditedOps,
         NEW outcome, outcome.verdict \in Verdicts, AnswerAudited(r, outcome),
         Op(r) # "read_order" /\ outcome.verdict = "ok" => Actor(r).role = "admin"
  PROVE  Kind(r)
BY DEF Cast, Kind, Owns, Works, Stages, Answers, Held, Verdicts, AnswerAudited, Return,
       Raise, Goto, IsAudited, AuditedOps, Writing, StageFits

\* The checks of a handler that writes.
LEMMA EnterKind ==
  ASSUME Cast, NEW r \in Request, pc[r] = "begin", Op(r) \in WritingOps,
         NEW outcome, outcome.verdict \in Verdicts,
         NEW label \in {"insert", "select"}, StageFits(Op(r), label), Enter(r, outcome, label)
  PROVE  Kind(r)
BY DEF Cast, Kind, Owns, Works, Stages, Answers, Held, Verdicts, Enter, Return,
       Raise, Goto, IsAudited, AuditedOps, Writing, StageFits

LEMMA ReadKind ==
  ASSUME Cast, NEW r \in Request, Read(r)
  PROVE  Kind(r)
<1> USE DEF At, AuditedOps
<1>1. CASE read_current_user(r)
  BY <1>1, AnswerKind DEF read_current_user, Ok, Verdicts
<1>2. CASE list_stores(r)
  BY <1>2, AnswerKind DEF list_stores, ListStores, Ok, Verdicts
<1>3. CASE read_store(r)
  BY <1>3, AnswerKind, ShapesReturnVerdicts DEF read_store, GetStore
<1>4. CASE list_products(r)
  BY <1>4, AnswerKind, ShapesReturnVerdicts DEF list_products, ListProductsForStore
<1>5. CASE search_products(r)
  BY <1>5, AnswerKind, ShapesReturnVerdicts DEF search_products, SearchProductsForStore
<1>6. CASE read_product(r)
  BY <1>6, AnswerKind DEF read_product, GetProduct, Ok, Denied, NotFound, Verdicts
<1>7. CASE read_store_theme(r)
  <2>1. GetStoreTheme(r).verdict \in Verdicts
    BY ShapesReturnVerdicts DEF GetStoreTheme, NotFound, Verdicts
  <2> QED BY <1>7, <2>1, AnswerKind DEF read_store_theme
<1>8. CASE list_orders(r)
  <2>1. ListOrdersForStore(r).verdict \in Verdicts
    BY ShapesReturnVerdicts DEF ListOrdersForStore
  <2> QED BY <1>8, <2>1, AnswerKind DEF list_orders
<1>9. CASE load_receipt(r)
  <2>1. LoadOrderReceipt(r).verdict \in Verdicts
    BY ShapesReturnVerdicts DEF LoadOrderReceipt, NotFound, Verdicts
  <2> QED BY <1>9, <2>1, AnswerKind DEF load_receipt
<1>10. CASE read_store_revenue(r)
  BY <1>10, AnswerKind
     DEF read_store_revenue, GetStoreRevenue, Ok, Denied, NotFound, Verdicts
<1>11. CASE read_order(r)
  BY <1>11, AnswerAuditedKind, ShapesReturnVerdicts DEF read_order, GetOrder
<1>12. CASE list_users(r)
  BY <1>12, AnswerAuditedKind
     DEF list_users, ListUsers, can_list_users, Ok, Denied, Verdicts
<1>13. CASE list_audit_events(r)
  BY <1>13, AnswerAuditedKind
     DEF list_audit_events, ListAuditEvents, can_list_audit_events, Ok, Denied, Verdicts
<1>14. CASE record_success(r) \/ record_authorization_failure(r)
  <2>1. job \in Workloads /\ job[r] # NoRow /\ Op(r) \notin Public
    BY <1>14 DEF Cast, StageFits, record_success, record_authorization_failure, Public
  <2>2. /\ [actor |-> job[r].actor, outcome |-> "success"] # NoRow
        /\ [actor |-> job[r].actor, outcome |-> "authorization_denied"] # NoRow
    <3>1. NoRow \notin [actor : {job[r].actor},
                        outcome : {"success", "authorization_denied"}]
      BY <2>1, RequestsAssumption DEF Op
    <3>2. \A o \in {"success", "authorization_denied"} :
            [actor |-> job[r].actor, outcome |-> o]
              \in [actor : {job[r].actor}, outcome : {"success", "authorization_denied"}]
      OBVIOUS
    <3> QED BY <3>1, <3>2
  <2> QED BY <1>14, <2>2
          DEF record_success, record_authorization_failure, AddEvent, Return, Raise,
              Goto, Cast, Kind, Owns, Works, Stages, Answers, Held, StageFits, AuditedOps,
              IsAuditEvent
<1> QED BY <1>1, <1>2, <1>3, <1>4, <1>5, <1>6, <1>7, <1>8, <1>9, <1>10, <1>11,
           <1>12, <1>13, <1>14 DEF Read

\* A write of one row that is no event, and what comes next.
LEMMA PutKind ==
  ASSUME Cast, NEW r \in Request, NEW k, NEW v, Put(r, k, v),
         MayPut(r, k, v), Op(r) \in WritingOps,
         pc[r] \in Writing \ {"delete_tokens"}, UNCHANGED <<job, proc, mem, earlier>>,
         \/ Return(r)
         \/ UNCHANGED <<pc, answer>>
         \/ pc[r] = "update_password" /\ Goto(r, "select_tokens") /\ UNCHANGED answer
  PROVE  Kind(r)
BY DEF Cast, Kind, Owns, Works, Stages, Answers, Held, Return, Goto, IsAudited,
       AuditedOps, Writing, WritingOps, StageFits

\* A stage that writes nothing.
LEMMA StageKind ==
  ASSUME Cast, NEW r \in Request, UNCHANGED <<dbvars, job, proc, earlier>>,
         pc[r] \in Writing, mem' = [mem EXCEPT ![r] = mem'[r]],
         \/ Return(r)
         \/ \E why \in {"failed", "refused"} : Raise(r, why)
         \/ /\ UNCHANGED answer
            /\ \/ pc[r] = "select" /\ Goto(r, "save")
               \/ /\ pc[r] = "select_tokens" /\ Goto(r, "delete_tokens")
                  /\ \A k \in mem'[r] : k[1] = "token"
  PROVE  Kind(r)
BY DEF Cast, Kind, Owns, Works, Stages, Answers, Held, Return, Raise, Goto, IsAudited,
       AuditedOps, Writing, WritingOps, StageFits

\* What is uploaded has the columns of its table.
LEMMA ContentIsRow ==
  ASSUME Cast, NEW r \in Request, pc[r] = "save",
         NEW v, DOMAIN v = DOMAIN job[r].content
  PROVE  IsRow(Target(r), v)
<1>1. job \in Workloads /\ job[r] # NoRow
  BY DEF Cast
<1>2. Op(r) \in {"upload_store_theme", "store_receipt"}
  BY DEF Cast, StageFits
<1>3. /\ Op(r) = "upload_store_theme" => IsStoreTheme(v)
      /\ Op(r) = "store_receipt" => IsOrderReceipt(v)
  BY <1>1, RowsAssumption DEF Op, IsStoreTheme, IsOrderReceipt
<1> QED BY <1>2, <1>3 DEF IsRow, Target

LEMMA WriteKind ==
  ASSUME Cast, NEW r \in Request, Write(r)
  PROVE  Kind(r)
<1> USE DEF At, Writing, WritingOps, MayPut, StageFits, AuditedOps
<1>1. CASE create_store(r)
  BY <1>1, EnterKind DEF create_store, CreateStore, Ok, Denied, Verdicts
<1>2. CASE store_add(r)
  BY <1>2, PutKind DEF store_add, IsRow
<1>3. CASE create_product(r)
  BY <1>3, EnterKind, ShapesReturnVerdicts DEF create_product, CreateProduct
<1>4. CASE insert_product(r)
  BY <1>4, PutKind DEF insert_product, product_add, IsRow, IsProduct
<1>5. CASE import_products(r)
  BY <1>5, EnterKind, ShapesReturnVerdicts DEF import_products, CreateProduct
<1>6. CASE ImportRow(r)
  BY <1>6, PutKind DEF ImportRow, product_add, IsRow, IsProduct
<1>7. CASE ImportStops(r)
  BY <1>7, StageKind DEF ImportStops, Cast
<1>8. CASE upload_store_theme(r)
  <2>1. UploadStoreTheme(r).verdict \in Verdicts
    BY ShapesReturnVerdicts DEF UploadStoreTheme, Conflict, Verdicts
  <2> QED BY <1>8, <2>1, EnterKind DEF upload_store_theme
<1>9. CASE store_receipt(r)
  BY <1>9, EnterKind, ShapesReturnVerdicts DEF store_receipt, StoreOrderReceipt
<1>10. CASE SelectTarget(r)
  BY <1>10, StageKind DEF SelectTarget, Cast
<1>11. Target(r)[1] \notin {"event", "order", "user", "product"}
  BY DEF Target
<1>12. CASE InsertTarget(r)
  <2>1. Op(r) \in {"upload_store_theme", "store_receipt"} /\ Target(r)[1] # "token"
    BY <1>12 DEF InsertTarget, Cast, Target
  <2>2. IsRow(Target(r), job[r].content)
    BY <1>12, ContentIsRow DEF InsertTarget
  <2> QED BY <1>11, <1>12, <2>1, <2>2, PutKind, StageKind DEF InsertTarget, Cast
<1>13. CASE UpdateTarget(r)
  <2> DEFINE new == Overwrite(latest[Target(r)], mem[r], job[r].content)
  <2>1. Op(r) \in {"upload_store_theme", "store_receipt"} /\ Target(r)[1] # "token"
    BY <1>13 DEF UpdateTarget, Cast, Target
  <2>2. DOMAIN new = DOMAIN job[r].content
    BY DEF Overwrite
  <2>3. IsRow(Target(r), new)
    BY <1>13, <2>1, <2>2, ContentIsRow DEF UpdateTarget
  <2> HIDE DEF new
  <2>4. /\ Put(r, Target(r), new) /\ Return(r) /\ pc[r] = "save"
        /\ UNCHANGED <<job, proc, mem, earlier>>
    BY <1>13 DEF UpdateTarget, new
  <2> QED BY <1>11, <2>1, <2>3, <2>4, PutKind DEF Cast
<1>14. CASE KeepTarget(r)
  BY <1>14, StageKind DEF KeepTarget, Cast
<1> QED BY <1>1, <1>2, <1>3, <1>4, <1>5, <1>6, <1>7, <1>8, <1>9, <1>10, <1>12,
           <1>13, <1>14 DEF Write

\* The use-case object that counts attempts serves one request, so there is
\* never an earlier one to count.
LEMMA NeverTooMany ==
  ASSUME Cast, NEW r \in Request
  PROVE  ~TooMany(r)
<1> DEFINE counted == {q \in earlier[r] : Counts(r, q) /\ ~Forgives(r, q)}
<1>1. counted = {}
  BY DEF Cast, Counts, Instance
<1>2. Attempts(r) = Cardinality(counted)
  BY DEF Attempts
<1> HIDE DEF counted
<1>3. Cardinality(counted) = 0
  BY <1>1, FS_EmptySet
<1> QED BY <1>2, <1>3, RequestsAssumption DEF TooMany

\* Accounts and the owners of tokens are users that have always been there.
LEMMA AccountsAreKnown ==
  ASSUME RowsInv, NEW r \in Request
  PROVE  /\ Account(r) # NoRow => Known(job[r].user)
         /\ \A t : Get(r, <<"token", t>>) # NoRow => Known(Get(r, <<"token", t>>).user)
BY DEF RowsInv, FitsRow, Account, Get, Visible, Known

LEMMA IdentifyKind ==
  ASSUME Cast, RowsInv, NEW r \in Request, Identify(r)
  PROVE  Kind(r)
<1> USE NeverTooMany DEF At, AuditedOps, Writing, WritingOps, MayPut, StageFits
<1>1. CASE login(r)
  BY <1>1 DEF login, Cast, Kind, Owns, Works, Stages, Answers, Held, Return, Raise, Goto,
              IsAudited
<1>2. CASE request_password_reset(r)
  BY <1>2, AccountsAreKnown DEF request_password_reset, Cast, Kind, Owns, Works, Stages, Answers, Held,
              Raise, Goto
<1>3. CASE confirm_password_reset(r)
  BY <1>3, AccountsAreKnown DEF confirm_password_reset, Cast, Kind, Owns, Works, Stages, Answers, Held,
              Raise, Goto
<1>4. CASE update_password(r)
  BY <1>4, PutKind DEF update_password, Cast
<1>5. CASE SelectTokens(r)
  BY <1>5, StageKind DEF SelectTokens, TokensOf, Cast
<1>6. CASE DeleteTokens(r)
  BY <1>6 DEF DeleteTokens, Cast, Kind, Owns, Works, Stages, Answers, Held, Return, Goto,
              IsAudited
<1>7. CASE InsertToken(r)
  BY <1>7, PutKind DEF InsertToken, Cast, IsRow, IsPasswordResetToken
<1> QED BY <1>1, <1>2, <1>3, <1>4, <1>5, <1>6, <1>7 DEF Identify

LEMMA QuoteKind ==
  ASSUME Cast, NEW r \in Request, read_shipping_quote(r)
  PROVE  Kind(r)
<1>1. GetShippingQuote(r).verdict \in Verdicts
  BY DEF GetShippingQuote, Validated, Ok, Denied, Conflict, Verdicts
<1> QED BY <1>1, AnswerKind DEF read_shipping_quote, At, AuditedOps

\* Every step of a request is of one kind.
LEMMA StepKind ==
  ASSUME Cast, RowsInv, NEW r \in Request, Arrive(r) \/ Step(r) \/ Fail(r)
  PROVE  Kind(r)
BY ServeKind, ReadKind, WriteKind, IdentifyKind, QuoteKind DEF Step

-----------------------------------------------------------------------------
(* What holds of the rows whatever the requests do.                        *)

LEMMA RowsStep ==
  ASSUME Cast, RowsInv, NEW r \in Request, Kind(r)
  PROVE  RowsInv'
<1> USE NobodyAssumption DEF Kind, Owns
<1>1. \A q \in Request : q # r => pc'[q] = pc[q]
  BY DEF Cast
<1>2. CASE Waits(r)
  BY <1>1, <1>2 DEF Waits, dbvars, RowsInv, Held
<1>3. ASSUME Works(r), UNCHANGED dbvars
      PROVE  RowsInv'
  BY <1>1, <1>3 DEF Works, dbvars, RowsInv
<1>4. ASSUME Works(r), NEW k, NEW v, Put(r, k, v), k \in Key => FitsRow(k, v)
      PROVE  RowsInv'
  <2>1. /\ row' = row
        /\ latest' = [latest EXCEPT ![k] = v] /\ writer' = [writer EXCEPT ![k] = r]
        /\ pc'[r] \in Held
    BY <1>4 DEF Put, Works
  <2> QED BY <1>1, <1>4, <2>1 DEF RowsInv
<1>5. ASSUME NEW k \in Key, NEW v, MayPut(r, k, v)
      PROVE  FitsRow(k, v)
  <2>1. CASE k[1] # "user"
    BY <1>5, <2>1 DEF MayPut, FitsRow
  <2>2. CASE k[1] = "user"
    <3>1. k = <<"user", k[2]>> /\ IsUser(InitialRow[k])
      BY <1>5, <2>2, RowsAssumption DEF MayPut, Known
    <3>2. PICK w : v = [latest[k] EXCEPT !.password = w]
      BY <1>5, <2>2 DEF MayPut
    <3>3. SameUser(latest[k], InitialRow[k])
      BY <2>2, <3>1 DEF RowsInv, FitsRow
    <3>4. DOMAIN latest[k] = {"id", "role", "store", "password"}
      BY <3>3 DEF SameUser, IsUser
    <3>5. /\ DOMAIN v = DOMAIN latest[k]
          /\ v.id = latest[k].id /\ v.role = latest[k].role /\ v.store = latest[k].store
      BY <3>2, <3>4
    <3>6. SameUser(v, InitialRow[k])
      BY <3>3, <3>5 DEF SameUser, IsUser
    <3> QED BY <2>2, <3>1, <3>6 DEF FitsRow, IsRow, SameUser
  <2> QED BY <2>1, <2>2
<1>6. ASSUME NEW v, IsAuditEvent(v)
      PROVE  FitsRow(<<"event", r>>, v)
  BY <1>6 DEF FitsRow, IsRow
<1>7. ASSUME NEW k \in Key, k[1] = "token"
      PROVE  FitsRow(k, NoRow)
  BY <1>7 DEF FitsRow, IsRow
<1>8. ASSUME Works(r), NEW keys, Remove(r, keys), \A k \in keys : k[1] = "token"
      PROVE  RowsInv'
  BY <1>1, <1>7, <1>8 DEF Remove, Works, RowsInv
<1>9. CASE Commits(r)
  BY <1>1, <1>9 DEF Commits, Publish, Visible, Unlocked, RowsInv
<1>10. CASE RollsBack(r)
  BY <1>1, <1>10 DEF RollsBack, Discard, Unlocked, RowsInv
<1>11. CASE Works(r)
  BY <1>3, <1>4, <1>5, <1>6, <1>8, <1>11 DEF Works
<1> QED BY <1>2, <1>9, <1>10, <1>11

\* So the policies decide alike from the arrival of a request to its answer.
LEMMA ActorStays ==
  ASSUME Cast, RowsInv, RowsInv', UNCHANGED job,
         NEW q \in Request, job[q] # NoRow, Op(q) \notin Public
  PROVE  /\ IsUser(Actor(q)) /\ Actor(q)'.role = Actor(q).role
         /\ Actor(q)'.id = Actor(q).id /\ Actor(q)'.store = Actor(q).store
<1>1. /\ <<"user", job[q].actor>> \in Key
      /\ IsUser(InitialRow[<<"user", job[q].actor>>])
  BY RequestsAssumption DEF Cast, Op, Known
<1> QED BY <1>1 DEF RowsInv, FitsRow, SameUser, Actor

LEMMA CastStep ==
  ASSUME Cast, RowsInv, RowsInv', NEW r \in Request, Kind(r)
  PROVE  Cast'
<1>1. ASSUME NEW q \in Request, job[q] # NoRow, IsAudited(q)
      PROVE  IsAudited(q)'
  BY <1>1, ActorStays DEF IsAudited, Kind, Owns, Op, Public
<1>2. \A q \in Request \ {r} :
        pc'[q] = pc[q] /\ answer'[q] = answer[q] /\ mem'[q] = mem[q]
  BY DEF Cast, Kind, Owns
<1>3. /\ pc' \in [Request -> Stages] /\ answer' \in [Request -> Answers]
      /\ job' \in Workloads
  <2>1. /\ pc' = [pc EXCEPT ![r] = pc'[r]] /\ pc'[r] \in Stages
        /\ answer' = [answer EXCEPT ![r] = answer'[r]] /\ answer'[r] \in Answers
        /\ job' = job
    BY DEF Kind, Owns
  <2> QED BY <2>1 DEF Cast
<1>7. mem' = [q \in Request |-> mem'[q]]
  <2>1. mem' = [mem EXCEPT ![r] = mem'[r]] /\ mem = [q \in Request |-> mem[q]]
    BY DEF Cast, Kind, Owns
  <2> QED BY <2>1
<1>8. proc' \in [Request -> Process \cup {NoRow}]
  <2>1. CASE proc' = proc
    BY <2>1 DEF Cast
  <2>2. ASSUME NEW p \in Process, proc' = [proc EXCEPT ![r] = p]
        PROVE  proc' \in [Request -> Process \cup {NoRow}]
    BY <2>2 DEF Cast
  <2> QED BY <2>1, <2>2 DEF Kind, Owns
<1>4. earlier' \in [Request -> SUBSET Request]
  BY DEF Cast, Kind, Owns
<1>5. ASSUME NEW q \in Request
      PROVE  q \notin earlier'[q] /\ \A s \in earlier'[q] : Answered(s)'
  <2>1. \A s \in Request : Answered(s) => Answered(s)'
    BY <1>2 DEF Answered, Kind, Waits, Works, Commits, RollsBack, Held, Stages
  <2> QED BY <2>1 DEF Cast, Kind, Owns, Answered
<1>6. ASSUME NEW q \in Request
      PROVE  /\ StageFits(Op(q)', pc'[q])
             /\ pc'[q] = "audit" => IsAudited(q)'
             /\ pc'[q] = "delete_tokens" => \A k \in mem'[q] : k[1] = "token"
             /\ pc'[q] = "update_password" => Known(mem'[q])
             /\ Op(q)' = "request_password_reset"
                /\ pc'[q] \in {"select_tokens", "delete_tokens", "insert_token"} =>
                  Known(job'[q].user)
             /\ pc'[q] = "raised" => answer'[q] \notin {"ok", "none"}
             /\ pc'[q] # "idle" => job'[q] # NoRow /\ proc'[q] \in Process
  <2>1. CASE q = r
    <3>1. pc'[r] # "idle" => job'[r] # NoRow /\ proc'[r] \in Process
      BY DEF Cast, Kind, Owns, Waits, Works, Commits, RollsBack, Held, Stages
    <3>2. pc'[r] = "raised" => answer'[r] \notin {"ok", "none"}
      BY DEF Cast, Kind, Owns, Waits, Works, Commits, RollsBack
    <3> QED BY <1>1, <2>1, <3>1, <3>2 DEF Kind, Owns, Op
  <2>2. CASE q # r
    <3>1. proc'[q] = proc[q]
      BY <2>2 DEF Cast, Kind, Owns
    <3> QED BY <1>1, <1>2, <2>2, <3>1 DEF Cast, Kind, Owns, Op
  <2> QED BY <2>1, <2>2
<1> QED BY <1>3, <1>4, <1>5, <1>6, <1>7, <1>8 DEF Cast

LEMMA BasicsInit == Init => Cast /\ RowsInv
<1> SUFFICES ASSUME Init
             PROVE  Cast /\ RowsInv
  OBVIOUS
<1>1. Cast
  BY DEF Init, Cast, Stages, Answers, StageFits
<1>2. RowsInv
  <2>1. ASSUME NEW k \in Key
        PROVE  FitsRow(k, InitialRow[k])
    BY RowsAssumption DEF FitsRow, SameUser, IsRow
  <2> QED BY <2>1, RowsAssumption DEF Init, DatabaseInit, RowsInv
<1> QED BY <1>1, <1>2

LEMMA BasicsStep == Cast /\ RowsInv /\ [Next]_vars => (Cast /\ RowsInv)'
<1> SUFFICES ASSUME Cast, RowsInv, [Next]_vars
             PROVE  Cast' /\ RowsInv'
  OBVIOUS
<1>1. CASE UNCHANGED vars
  BY <1>1 DEF vars, serving, dbvars, Cast, RowsInv, FitsRow, Op, IsAudited, Actor, Answered
<1>2. ASSUME NEW r \in Request, Arrive(r) \/ Step(r) \/ Fail(r)
      PROVE  Cast' /\ RowsInv'
  BY <1>2, StepKind, RowsStep, CastStep
<1> QED BY <1>1, <1>2 DEF Next, Quiesce

LEMMA Basics == Spec => [](Cast /\ RowsInv)
BY BasicsInit, BasicsStep, PTL DEF Spec

-----------------------------------------------------------------------------
(* Which steps write which rows.                                           *)

\* Row k is as it was.
Untouched(k) == row'[k] = row[k] /\ latest'[k] = latest[k] /\ writer'[k] = writer[k]

\* The tables that are written by one stage of one kind of request each.
Watched == {"user", "token", "theme", "receipt"}

LEMMA PutKeeps ==
  ASSUME RowsInv, NEW r, NEW l, NEW v, Put(r, l, v), NEW k \in Key, k # l
  PROVE  Untouched(k)
BY DEF Put, RowsInv, FitsRow, Untouched

\* A transaction that ends changes the rows that it has locked.
LEMMA EndKeeps ==
  ASSUME RowsInv, NEW r \in Request, Commits(r) \/ RollsBack(r),
         NEW k \in Key, writer[k] # r
  PROVE  Untouched(k)
BY DEF Commits, RollsBack, Publish, Discard, Visible, Unlocked, Untouched

LEMMA EndWrites ==
  ASSUME RowsInv, NEW r \in Request, NEW k \in Key, writer[k] = r
  PROVE  /\ Commits(r) => /\ row'[k] = latest[k] /\ latest'[k] = latest[k]
                          /\ writer'[k] = Nobody
         /\ RollsBack(r) => /\ row'[k] = row[k] /\ latest'[k] = row[k]
                            /\ writer'[k] = Nobody
BY DEF Commits, RollsBack, Publish, Discard, Visible, Unlocked

\* Rows of the watched tables are written by the one stage that is for them,
\* and by commits and rollbacks.
LEMMA StepWrites ==
  ASSUME Cast, RowsInv, NEW r \in Request, Arrive(r) \/ Step(r) \/ Fail(r)
  PROVE  \/ Commits(r) \/ RollsBack(r)
         \/ update_password(r) \/ DeleteTokens(r) \/ InsertToken(r)
         \/ InsertTarget(r) \/ UpdateTarget(r)
         \/ \A k \in Key : k[1] \in Watched => Untouched(k)
<1> USE DEF Untouched, dbvars
<1> DEFINE keeps == \A k \in Key : k[1] \in Watched => Untouched(k)
<1>1. ASSUME NEW l, NEW v, Put(r, l, v), l[1] \notin Watched
      PROVE  keeps
  BY <1>1, PutKeeps
<1>2. UNCHANGED dbvars => keeps
  OBVIOUS
<1> HIDE DEF keeps
<1>3. Serve(r) \/ Arrive(r) \/ Fail(r) => Commits(r) \/ RollsBack(r) \/ keeps
  <2>1. Kind(r) \/ ~(Serve(r) \/ Arrive(r) \/ Fail(r))
    BY ServeKind
  <2>2. Dispatch(r) \/ Connect(r) \/ Start(r) \/ PoolTimeout(r) \/ Arrive(r) =>
          UNCHANGED dbvars
    BY DEF Dispatch, Connect, Start, Move, PoolTimeout, Arrive
  <2>3. Commit(r) \/ Rollback(r) \/ Fail(r) =>
          pc'[r] = "done" /\ pc[r] \notin {"idle", "queued", "connecting"}
    BY DEF Commit, Rollback, Fail, Finish, Goto, HoldsConnection, Active, Cast
  <2>4. Commit(r) \/ Rollback(r) \/ Fail(r) => Commits(r) \/ RollsBack(r)
    BY <2>1, <2>3 DEF Serve, Kind, Waits, Works, Held, Stages
  <2> QED BY <1>2, <2>2, <2>4 DEF Serve
<1>4. Read(r) => keeps
  <2>1. ASSUME NEW outcome, AddEvent(r, outcome)
        PROVE  keeps
    BY <1>1, <2>1 DEF AddEvent, Watched
  <2> QED BY <1>2, <2>1
          DEF Read, read_current_user, list_stores, read_store, list_products, list_orders,
              search_products, read_product, read_store_theme, load_receipt,
              read_store_revenue, read_order, list_users, list_audit_events,
              record_success, record_authorization_failure, Answer, AnswerAudited
<1>5. Write(r) => InsertTarget(r) \/ UpdateTarget(r) \/ keeps
  <2>1. store_add(r) => keeps
    BY <1>1 DEF store_add, Watched
  <2>2. ASSUME NEW n, NEW name, product_add(r, n, name)
        PROVE  keeps
    BY <1>1, <2>2 DEF product_add, Watched
  <2> QED BY <1>2, <2>1, <2>2
          DEF Write, create_store, create_product, insert_product, import_products,
              ImportRow, ImportStops, upload_store_theme, store_receipt, SelectTarget,
              KeepTarget, Enter
<1>6. Identify(r) => update_password(r) \/ DeleteTokens(r) \/ InsertToken(r) \/ keeps
  BY <1>2 DEF Identify, login, request_password_reset, confirm_password_reset, SelectTokens
<1>7. read_shipping_quote(r) => keeps
  BY <1>2 DEF read_shipping_quote, Answer
<1> QED BY <1>3, <1>4, <1>5, <1>6, <1>7 DEF Step, keeps

\* The requests that hold a connection of process p.
Holders(p) == {r \in Of(p) : HoldsConnection(r)}
PoolInv == \A p \in Process : Cardinality(Holders(p)) <= Connections[p]

LEMMA HoldersAreFinite ==
  ASSUME NEW S \in SUBSET Request
  PROVE  IsFiniteSet(S) /\ Cardinality(S) \in Nat
BY RequestsAssumption, FS_Subset, FS_CardinalityType

\* Only Connect takes a connection, and it finds one free.
LEMMA PoolStep ==
  ASSUME Cast, PoolInv, NEW r \in Request, Kind(r)
  PROVE  PoolInv'
<1> SUFFICES ASSUME NEW p \in Process
             PROVE  Cardinality(Holders(p)') <= Connections[p]
  BY DEF PoolInv
<1>1. \A q \in Request \ {r} : pc'[q] = pc[q] /\ proc'[q] = proc[q]
  BY DEF Cast, Kind, Owns
<1>2. Holders(p) \in SUBSET Request /\ Holders(p)' \in SUBSET Request
  BY DEF Holders, Of
<1>3. /\ Cardinality(Holders(p)) <= Connections[p] /\ Connections[p] \in Nat
      /\ Cardinality(Holders(p)) \in Nat /\ Cardinality(Holders(p)') \in Nat
  BY <1>2, HoldersAreFinite, PoolAssumption DEF PoolInv
<1>4. CASE Holders(p)' \subseteq Holders(p)
  BY <1>2, <1>3, <1>4, HoldersAreFinite, FS_Subset
<1>5. CASE ~(Holders(p)' \subseteq Holders(p))
  <2>1. Holders(p)' \subseteq Holders(p) \cup {r}
    BY <1>1 DEF Holders, Of, HoldsConnection, Active
  <2>2. r \in Holders(p)' /\ r \notin Holders(p)
    BY <1>5, <2>1
  <2>3. pc[r] = "connecting" /\ proc[r] = p /\ ConnectionFree(p)
    BY <2>2 DEF Holders, Of, HoldsConnection, Active, Kind, Owns, Waits, Works, Commits,
                RollsBack, Held, Stages
  <2>4. Cardinality(Holders(p)) < Connections[p]
    BY <2>3 DEF ConnectionFree, Holders
  <2>5. Cardinality(Holders(p) \cup {r}) = Cardinality(Holders(p)) + 1
    BY <1>2, <2>2, HoldersAreFinite, FS_AddElement
  <2>6. Cardinality(Holders(p)') <= Cardinality(Holders(p) \cup {r})
    BY <1>2, <2>1, HoldersAreFinite, FS_Subset
  <2> QED BY <1>3, <2>4, <2>5, <2>6
<1> QED BY <1>4, <1>5

LEMMA Pools == Spec => []PoolInv
<1>1. Init => PoolInv
  <2> SUFFICES ASSUME Init, NEW p \in Process
               PROVE  Cardinality(Holders(p)) <= Connections[p]
    BY DEF PoolInv
  <2>1. Holders(p) = {}
    BY DEF Init, Holders, Of, Active
  <2> QED BY <2>1, FS_EmptySet, PoolAssumption
<1>2. Cast /\ RowsInv /\ PoolInv /\ [Next]_vars => PoolInv'
  <2> SUFFICES ASSUME Cast, RowsInv, PoolInv, [Next]_vars
               PROVE  PoolInv'
    OBVIOUS
  <2>1. CASE UNCHANGED vars
    BY <2>1 DEF vars, serving, PoolInv, Holders, Of, HoldsConnection, Active
  <2>2. ASSUME NEW r \in Request, Arrive(r) \/ Step(r) \/ Fail(r)
        PROVE  PoolInv'
    BY <2>2, StepKind, PoolStep
  <2> QED BY <2>1, <2>2 DEF Next, Quiesce
<1> QED BY <1>1, <1>2, Basics, PTL DEF Spec

\* Rows, stages and answers have their types, and a process never uses more
\* connections than the pool of database.py has.
THEOREM TypeCorrect == Spec => []TypeOK
<1>1. ASSUME Cast, RowsInv, PoolInv
      PROVE  TypeOK
  <2>1. IsTable(row) /\ IsTable(latest)
    BY <1>1 DEF RowsInv, IsTable
  <2>2. \A k \in Key : IsRow(k, row[k]) /\ IsRow(k, latest[k])
    BY <1>1 DEF RowsInv, FitsRow
  <2>3. writer \in [Key -> Request \cup {Nobody}]
    BY <1>1 DEF RowsInv
  <2>4. /\ job \in Workloads /\ proc \in [Request -> Process \cup {NoRow}]
        /\ pc \in [Request -> Stages] /\ earlier \in [Request -> SUBSET Request]
        /\ answer \in [Request -> Answers]
    BY <1>1 DEF Cast
  <2>5. DOMAIN mem = Request
    BY <1>1 DEF Cast
  <2>6. \A r \in Request : /\ job[r] = NoRow => pc[r] = "idle"
                           /\ Active(r) => proc[r] \in Process
    BY <1>1 DEF Cast, Active
  <2>7. answer \in [Request -> {"none", "ok", "denied", "not_found", "conflict",
                                "refused", "limited", "failed"}]
    BY <2>4 DEF Answers
  <2> QED BY <1>1, <2>1, <2>2, <2>3, <2>4, <2>5, <2>6, <2>7 DEF TypeOK, PoolInv, Holders
<1> QED BY <1>1, Basics, Pools, PTL

\* database.py and get_session: what nobody has locked is committed, and every
\* lock belongs to a request that is being served.
THEOREM NoVersionIsStray == Spec => []NoStrayVersions
<1>1. Cast /\ RowsInv => NoStrayVersions
  BY DEF Cast, RowsInv, FitsRow, NoStrayVersions, HoldsConnection, Active, Held, Stages
<1> QED BY <1>1, Basics, PTL

-----------------------------------------------------------------------------
(* The audit trail.                                                        *)

\* A request writes its event last, and only if it then ends as the event says.
EventOf(r) ==
  /\ writer[<<"event", r>>] \in {r, Nobody}
  /\ writer[<<"event", r>>] = r =>
       latest[<<"event", r>>] # NoRow /\ pc[r] \in {"returned", "raised"}
  /\ pc[r] = "returned" => (writer[<<"event", r>>] = r <=> IsAudited(r))
  /\ row[<<"event", r>>] # NoRow <=> Succeeded(r) /\ IsAudited(r)
EventInv == \A r \in Request : EventOf(r)

\* A step that leaves the event of q alone.
LEMMA EventKept ==
  ASSUME Cast, RowsInv, RowsInv', NEW r \in Request, Kind(r), NEW q \in Request, EventOf(q),
         LET e == <<"event", q>>
         IN  writer'[e] = writer[e] /\ latest'[e] = latest[e] /\ row'[e] = row[e],
         \/ q # r
         \/ Works(r) /\ (pc'[r] = "returned" => ~IsAudited(r))
         \/ Waits(r)
  PROVE  EventOf(q)'
<1>1. job[q] # NoRow => (IsAudited(q)' <=> IsAudited(q))
  BY ActorStays DEF IsAudited, Kind, Owns, Op, Public
<1>2. pc[q] # "idle" => job[q] # NoRow
  BY DEF Cast
<1>3. CASE q # r
  <2>1. pc'[q] = pc[q] /\ answer'[q] = answer[q]
    BY <1>3 DEF Cast, Kind, Owns
  <2> QED BY <1>1, <1>2, <2>1 DEF EventOf, Succeeded, Answered
<1>4. CASE q = r
  BY <1>1, <1>2, <1>4, NobodyAssumption
     DEF EventOf, Works, Waits, Succeeded, Answered, Held, Stages
<1> QED BY <1>3, <1>4

LEMMA EventStep ==
  ASSUME Cast, RowsInv, RowsInv', EventInv, NEW r \in Request, Kind(r)
  PROVE  EventInv'
<1> SUFFICES ASSUME NEW q \in Request
             PROVE  EventOf(q)'
  BY DEF EventInv
<1> DEFINE e == <<"event", q>>
<1>1. e \in Key /\ EventOf(q)
  BY RequestsAssumption DEF EventInv
<1>2. job[q] # NoRow => (IsAudited(q)' <=> IsAudited(q))
  BY ActorStays DEF IsAudited, Kind, Owns, Op, Public
<1>3. CASE UNCHANGED dbvars /\ (Waits(r) \/ (Works(r) /\ (pc'[r] = "returned" => ~IsAudited(r))))
  BY <1>1, <1>3, EventKept DEF dbvars
<1>4. ASSUME Works(r), pc'[r] = "returned" => ~IsAudited(r),
             NEW k, NEW v, Put(r, k, v), k[1] # "event"
      PROVE  EventOf(q)'
  BY <1>1, <1>4, EventKept DEF Put, RowsInv, FitsRow
<1>5. ASSUME Works(r), pc'[r] = "returned" => ~IsAudited(r),
             NEW keys, Remove(r, keys), \A k \in keys : k[1] = "token"
      PROVE  EventOf(q)'
  BY <1>1, <1>5, EventKept DEF Remove, RowsInv, FitsRow
<1>6. ASSUME Works(r), NEW v, Put(r, <<"event", r>>, v), v # NoRow,
             \/ pc[r] = "audit" /\ pc'[r] = "returned"
             \/ pc[r] = "deny" /\ pc'[r] = "raised"
      PROVE  EventOf(q)'
  <2>1. CASE q # r
    BY <1>1, <1>6, <2>1, EventKept DEF Put, RowsInv, FitsRow
  <2>2. CASE q = r
    <3>1. pc[q] = "audit" => IsAudited(q) /\ job[q] # NoRow
      BY DEF Cast
    <3>2. writer'[e] = q /\ latest'[e] = v /\ row'[e] = row[e]
      BY <1>1, <1>6, <2>2 DEF Put, RowsInv, FitsRow
    <3>3. row[e] = NoRow
      BY <1>1, <1>6, <2>2 DEF EventOf, Succeeded, Answered
    <3> QED BY <1>2, <1>6, <2>2, <3>1, <3>2, <3>3 DEF EventOf, Succeeded, Answered
  <2> QED BY <2>1, <2>2
<1>7. CASE Commits(r)
  <2>1. CASE q # r
    <3>1. writer[e] # r
      BY <1>1, <2>1, NobodyAssumption DEF EventOf
    <3>2. writer'[e] = writer[e] /\ latest'[e] = latest[e] /\ row'[e] = row[e]
      BY <1>1, <1>7, <3>1 DEF Commits, Publish, Visible, Unlocked
    <3> QED BY <1>1, <2>1, <3>2, EventKept
  <2>2. CASE q = r
    <3>1. job[q] # NoRow
      BY <1>7, <2>2 DEF Cast, Commits
    <3>2. writer'[e] = Nobody /\ row'[e] = IF writer[e] = r THEN latest[e] ELSE row[e]
      BY <1>1, <1>7, <2>2 DEF Commits, Publish, Visible, Unlocked, EventOf
    <3>3. row[e] = NoRow
      BY <1>1, <1>7, <2>2 DEF EventOf, Commits, Succeeded, Answered
    <3> QED BY <1>1, <1>2, <1>7, <2>2, <3>1, <3>2, <3>3, NobodyAssumption
            DEF EventOf, Commits, Succeeded, Answered
  <2> QED BY <2>1, <2>2
<1>8. CASE RollsBack(r)
  <2>1. CASE q # r
    <3>1. writer[e] # r
      BY <1>1, <2>1, NobodyAssumption DEF EventOf
    <3>2. writer'[e] = writer[e] /\ latest'[e] = latest[e] /\ row'[e] = row[e]
      BY <1>1, <1>8, <3>1 DEF RollsBack, Discard, Unlocked
    <3> QED BY <1>1, <2>1, <3>2, EventKept
  <2>2. CASE q = r
    <3>1. writer'[e] = Nobody /\ row'[e] = row[e]
      BY <1>1, <1>8, <2>2 DEF RollsBack, Discard, Unlocked, EventOf
    <3>2. row[e] = NoRow
      BY <1>1, <1>8, <2>2 DEF EventOf, RollsBack, Succeeded, Answered, Held
    <3> QED BY <1>8, <2>2, <3>1, <3>2, NobodyAssumption
            DEF EventOf, RollsBack, Succeeded, Answered
  <2> QED BY <2>1, <2>2
<1>9. CASE Works(r)
  BY <1>3, <1>4, <1>5, <1>6, <1>9 DEF Works, MayPut
<1>10. Waits(r) => UNCHANGED dbvars
  BY DEF Waits
<1> QED BY <1>3, <1>7, <1>8, <1>9, <1>10 DEF Kind

LEMMA Events == Spec => []EventInv
<1>1. Init => EventInv
  <2> SUFFICES ASSUME Init, NEW r \in Request
               PROVE  EventOf(r)
    BY DEF EventInv
  <2> QED BY RequestsAssumption, NobodyAssumption
          DEF Init, DatabaseInit, EventOf, Succeeded, Answered
<1>2. Cast /\ RowsInv /\ (Cast /\ RowsInv)' /\ EventInv /\ [Next]_vars => EventInv'
  <2> SUFFICES ASSUME Cast, RowsInv, RowsInv', EventInv, [Next]_vars
               PROVE  EventInv'
    OBVIOUS
  <2>1. CASE UNCHANGED vars
    BY <2>1 DEF vars, serving, dbvars, EventInv, EventOf, Succeeded, Answered, IsAudited,
                Op, Actor
  <2>2. ASSUME NEW r \in Request, Arrive(r) \/ Step(r) \/ Fail(r)
        PROVE  EventInv'
    BY <2>2, StepKind, EventStep
  <2> QED BY <2>1, <2>2 DEF Next, Quiesce
<1> QED BY <1>1, <1>2, Basics, PTL DEF Spec

\* audit.py: whatever requests meet, fail or are lost, the trail has the
\* actions of admins that were answered with success and no others.
THEOREM TrailIsExact == Spec => []SuccessesAreAudited
<1>1. EventInv => SuccessesAreAudited
  BY DEF EventInv, EventOf, SuccessesAreAudited
<1> QED BY <1>1, Events, PTL

-----------------------------------------------------------------------------
(* What a list of orders shows.                                            *)

Readable(r) ==
  \A v \in mem[r] :
    /\ <<"order", v.order>> \in Key
    /\ can_read_order(Actor(r), row[<<"order", v.order>>])
    /\ must_anonymize_order_for(Actor(r)) => v.customer = NoRow

ListInv ==
  \A r \in Request :
    pc[r] # "idle" /\ Op(r) = "list_orders" /\ (pc[r] = "returned" \/ Succeeded(r)) =>
      Readable(r)

\* The use case filters by store and customer what the policy permits.
LEMMA ListIsReadable ==
  ASSUME Cast, RowsInv, NEW r \in Request, job[r] # NoRow, list_orders(r),
         pc'[r] = "returned"
  PROVE  /\ \A v \in mem'[r] :
              /\ <<"order", v.order>> \in Key
              /\ can_read_order(Actor(r), row[<<"order", v.order>>])
              /\ must_anonymize_order_for(Actor(r)) => v.customer = NoRow
<1> DEFINE orders == IF Actor(r).role = "customer"
                     THEN list_for_store_and_customer(r, job[r].store, Actor(r).id)
                     ELSE list_orders_for_store(r, job[r].store)
<1>1. ListOrdersForStore(r) =
        InStore(r, can_list_store_orders(Actor(r), job[r].store), {View(r, o) : o \in orders})
  BY DEF ListOrdersForStore
<1>2. Answer(r, ListOrdersForStore(r)) /\ ListOrdersForStore(r).verdict = "ok"
  BY DEF list_orders, Answer, Raise, Goto, Cast
<1> HIDE DEF orders
<1>3. /\ can_list_store_orders(Actor(r), job[r].store)
      /\ mem'[r] = {View(r, o) : o \in orders}
  BY <1>1, <1>2 DEF InStore, Ok, Denied, NotFound, Answer, Cast
<1>4. ASSUME NEW o \in orders
      PROVE  /\ <<"order", o>> \in Key
             /\ row[<<"order", o>>].store = job[r].store
             /\ Actor(r).role = "customer" =>
                  row[<<"order", o>>].customer = Actor(r).id
  <2>1. o \in Ids(r, "order") /\ Get(r, <<"order", o>>).store = job[r].store
    BY <1>4 DEF orders, list_for_store_and_customer, list_orders_for_store
  <2>2. Actor(r).role = "customer" => Get(r, <<"order", o>>).customer = Actor(r).id
    BY <1>4 DEF orders, list_for_store_and_customer
  <2>3. PICK k \in Key : k[1] = "order" /\ o = k[2] /\ Visible(r, k) # NoRow
    BY <2>1 DEF Ids
  <2>4. k = <<"order", o>>
    BY <2>3, RowsAssumption
  <2> QED BY <2>1, <2>2, <2>3, <2>4 DEF Get, Visible, RowsInv, FitsRow
<1>5. ASSUME NEW o \in orders
      PROVE  /\ View(r, o).order = o
             /\ must_anonymize_order_for(Actor(r)) => View(r, o).customer = NoRow
  BY DEF View
<1>6. \A o \in orders : can_read_order(Actor(r), row[<<"order", o>>])
  BY <1>3, <1>4 DEF can_list_store_orders, can_read_order, IsGlobal, IsOf
<1> QED BY <1>3, <1>4, <1>5, <1>6

\* No other step makes a list return.
LEMMA OnlyListReturns ==
  ASSUME Cast, NEW r \in Request, Step(r) \/ Arrive(r) \/ Fail(r),
         Op(r) \in {"list_orders", "list_products"}, pc'[r] = "returned"
  PROVE  (Op(r) = "list_orders" /\ list_orders(r)) \/ list_products(r)
<1> USE DEF Cast, Goto
<1>1. ~Serve(r) /\ ~Arrive(r) /\ ~Fail(r)
  BY DEF Serve, Arrive, Fail, Dispatch, Connect, Start, Commit, Rollback, PoolTimeout,
         Move, Finish
<1>2. ~Write(r)
  BY DEF Write, create_store, store_add, create_product, insert_product, import_products,
         ImportRow, ImportStops, upload_store_theme, store_receipt, SelectTarget,
         InsertTarget, UpdateTarget, KeepTarget, At, StageFits
<1>3. ~Identify(r)
  BY DEF Identify, login, request_password_reset, confirm_password_reset,
         update_password, SelectTokens, DeleteTokens, InsertToken, At, StageFits
<1>4. Read(r) => list_orders(r) \/ list_products(r)
  BY DEF Read, read_current_user, list_stores, read_store,
         search_products, read_product, read_store_theme, load_receipt,
         read_store_revenue, read_order, list_users, list_audit_events,
         record_success, record_authorization_failure, At, StageFits, AuditedOps
<1> QED BY <1>1, <1>2, <1>3, <1>4 DEF Step, read_shipping_quote, list_orders, At

LEMMA ListStep ==
  ASSUME Cast, RowsInv, RowsInv', ListInv,
         NEW r \in Request, Step(r) \/ Arrive(r) \/ Fail(r)
  PROVE  ListInv'
<1> SUFFICES ASSUME NEW q \in Request, pc'[q] # "idle", Op(q)' = "list_orders",
                    pc'[q] = "returned" \/ Succeeded(q)'
             PROVE  Readable(q)'
  BY DEF ListInv
<1>1. Kind(r)
  BY StepKind
<1>2. job' = job /\ Op(q) = "list_orders" /\ Op(q) \notin Public
  BY <1>1 DEF Kind, Owns, Op, Public
<1>3. q # r => pc'[q] = pc[q] /\ answer'[q] = answer[q] /\ mem'[q] = mem[q]
  BY <1>1 DEF Kind, Owns, Cast
<1>4. job[q] # NoRow
  BY <1>1, <1>3 DEF Cast, Kind, Owns
<1>5. /\ Actor(q)'.role = Actor(q).role
      /\ Actor(q)'.id = Actor(q).id /\ Actor(q)'.store = Actor(q).store
  BY <1>2, <1>4, ActorStays
<1>6. \A o : <<"order", o>> \in Key => row'[<<"order", o>>] = row[<<"order", o>>]
  BY DEF RowsInv, FitsRow
<1>7. \A v \in mem'[q] :
        /\ <<"order", v.order>> \in Key
        /\ can_read_order(Actor(q), row[<<"order", v.order>>])
        /\ must_anonymize_order_for(Actor(q)) => v.customer = NoRow
  <2>1. CASE q = r /\ pc'[r] = "returned"
    BY <1>2, <1>4, <2>1, OnlyListReturns, ListIsReadable DEF list_products, At
  <2>2. CASE q = r /\ pc'[r] # "returned"
    <3>1. pc[r] = "returned" /\ mem' = mem
      BY <1>1, <2>2 DEF Kind, Owns, Waits, Works, Commits, RollsBack, Succeeded, Answered, Held
    <3> QED BY <1>2, <2>2, <3>1 DEF ListInv, Readable
  <2>3. CASE q # r
    BY <1>2, <1>3, <2>3 DEF ListInv, Readable, Succeeded, Answered
  <2> QED BY <2>1, <2>2, <2>3
<1> QED BY <1>2, <1>5, <1>6, <1>7
        DEF Readable, can_read_order, must_anonymize_order_for, IsGlobal

\* ListOrdersForStore filters in SQL what GetOrder asks the policies: the two
\* agree for every actor, store and set of orders.
THEOREM ListsAgreeWithPolicies == Spec => []ListsShowOnlyReadable
<1>1. Init => ListInv
  BY DEF Init, ListInv
<1>2. Cast /\ RowsInv /\ (Cast /\ RowsInv)' /\ ListInv /\ [Next]_vars => ListInv'
  <2> SUFFICES ASSUME Cast, RowsInv, RowsInv', ListInv, [Next]_vars
               PROVE  ListInv'
    OBVIOUS
  <2>1. CASE UNCHANGED vars
    BY <2>1 DEF vars, serving, dbvars, ListInv, Readable, Succeeded, Answered, Op, Actor
  <2>2. ASSUME NEW r \in Request, Arrive(r) \/ Step(r) \/ Fail(r)
        PROVE  ListInv'
    BY <2>2, ListStep
  <2> QED BY <2>1, <2>2 DEF Next, Quiesce
<1>3. ListInv => ListsShowOnlyReadable
  BY DEF ListInv, ListsShowOnlyReadable, Did, Succeeded, Answered, Readable
<1> QED BY <1>1, <1>2, <1>3, Basics, PTL DEF Spec

-----------------------------------------------------------------------------
(* How the policies of Authorization fit together, for every actor, store  *)
(* and order.  The use cases check one policy each and answer with the     *)
(* whole resource, so a permission to change must include that to read.    *)

\* PATCH /orders/{id}/status and /notes and the receipt endpoints answer with
\* the order after checking only their own policy: none of them shows an order
\* to an actor who could not GET it.
THEOREM ChangingAnOrderImpliesReadingIt ==
  ASSUME NEW actor, NEW order,
         \/ can_update_order_status(actor, order)
         \/ can_update_order_notes(actor, order)
         \/ can_manage_order_receipt(actor, order)
  PROVE  can_read_order(actor, order)
BY DEF can_update_order_status, can_update_order_notes, can_manage_order_receipt,
       can_read_order, IsGlobal

\* Whoever may write a store's catalog, theme or coupons may read its catalog
\* and list its orders.
THEOREM WritingAStoreImpliesReadingIt ==
  ASSUME NEW actor, NEW store,
         \/ can_write_store_catalog(actor, store)
         \/ can_write_store_theme(actor, store)
         \/ can_manage_coupons(actor, store)
  PROVE  /\ can_read_store(actor, store)
         /\ can_read_store_catalog(actor, store)
         /\ can_list_store_orders(actor, store)
BY DEF can_write_store_catalog, can_write_store_theme, can_manage_coupons,
       can_read_store, can_read_store_catalog, can_list_store_orders, IsGlobal, IsOf

\* A checkout makes its actor the customer of the order: whoever may place an
\* order in a store may read the one placed, and redeem a coupon for it.
THEOREM PlacingAnOrderImpliesReadingIt ==
  ASSUME NEW actor, NEW order,
         can_place_order(actor, order.store),
         order.customer = actor.id
  PROVE  can_read_order(actor, order)
BY DEF can_place_order, can_read_order, IsGlobal

\* Whoever sees orders without their customers reads every store and order and
\* moves orders along, and may do nothing else: no policy of authorization.py
\* and revenue.py lets them change a store, its products, theme or coupons, a
\* user's credit, an order's receipt or notes, or see users, the audit trail or
\* a store's revenue.
THEOREM AnonymisedReadersOnlyMoveOrders ==
  ASSUME NEW actor, NEW order, NEW store, must_anonymize_order_for(actor)
  PROVE  /\ can_list_all_stores(actor) /\ can_read_store(actor, store)
         /\ can_read_store_catalog(actor, store)
         /\ can_list_store_orders(actor, store) /\ can_read_order(actor, order)
         /\ can_update_order_status(actor, order)
         /\ ~can_create_store(actor)
         /\ ~can_write_store_catalog(actor, store)
         /\ ~can_write_store_theme(actor, store)
         /\ ~can_manage_coupons(actor, store)
         /\ ~can_place_order(actor, store)
         /\ ~can_grant_credits(actor)
         /\ ~can_manage_order_receipt(actor, order)
         /\ ~can_update_order_notes(actor, order)
         /\ ~can_list_users(actor) /\ ~can_list_audit_events(actor)
         /\ ~can_read_store_revenue(actor, store)
BY DEF must_anonymize_order_for, IsGlobal, can_list_all_stores, can_read_store,
       can_read_store_catalog, can_list_store_orders, can_read_order,
       can_update_order_status, can_create_store, can_write_store_catalog,
       can_write_store_theme, can_manage_coupons, can_place_order, can_grant_credits,
       can_manage_order_receipt, can_update_order_notes, can_list_users,
       can_list_audit_events, can_read_store_revenue
=============================================================================
