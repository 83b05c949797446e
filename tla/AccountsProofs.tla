--------------------------- MODULE AccountsProofs ---------------------------
(***************************************************************************)
(* Resetting a password: what RequestPasswordReset and                     *)
(* ConfirmPasswordReset leave of tokens and passwords, however requests    *)
(* meet, from the kinds of steps of BackofficeProofs.                      *)
(***************************************************************************)
EXTENDS BackofficeProofs

Resetting == {"request_password_reset", "confirm_password_reset"}
Requested(t) == Did(t, "request_password_reset")
Confirmed(r) == Did(r, "confirm_password_reset")

\* Whose tokens are cleared, and whose password is set, by request r.
BeneficiaryOf(r) ==
  IF Op(r) = "request_password_reset" THEN job[r].user ELSE HolderOf(job[r].token)

\* The request that names token k is about to commit it.
Issuing(k) ==
  /\ k[2] \in Request /\ writer[k] = k[2]
  /\ pc[k[2]] = "returned" /\ Op(k[2]) = "request_password_reset"
  /\ latest[k].user = HolderOf(k[2])

\* A token comes from its request and never comes back: an uncommitted version
\* is that of its request, or that of a deletion.
TokenOf(k) ==
  /\ row[k] # NoRow =>
       row[k].user = HolderOf(k[2]) /\ (k[2] \in Request => Requested(k[2]))
  /\ latest[k] # NoRow => latest[k] = row[k] \/ Issuing(k)
  /\ writer[k] # Nobody =>
       Op(writer[k]) \in Resetting /\ pc[writer[k]] \in {"insert_token", "returned"}

\* A confirmation has found its token.
Found(r) ==
  /\ pc[r] # "idle" /\ Op(r) = "confirm_password_reset"
  /\ \/ pc[r] \in {"update_password", "select_tokens", "delete_tokens", "returned"}
     \/ Succeeded(r)
FoundOf(r) ==
  Found(r) =>
    /\ job[r].token \in Request => Requested(job[r].token)
    /\ Known(HolderOf(job[r].token))
    /\ pc[r] \in {"update_password", "select_tokens"} => mem[r] = HolderOf(job[r].token)

\* The tokens that request r must not leave behind: those that were answered
\* before it arrived, and the one that it presents.
Due(r, t) ==
  \/ /\ t \in earlier[r] /\ Op(t) = "request_password_reset"
     /\ HolderOf(t) = BeneficiaryOf(r)
  \/ Op(r) = "confirm_password_reset" /\ t = job[r].token
ClearOf(r, k) ==
  pc[r] # "idle" /\ Op(r) \in Resetting /\ Due(r, k[2]) =>
    /\ pc[r] = "delete_tokens" => row[k] = NoRow \/ k \in mem[r]
    /\ pc[r] \in {"insert_token", "returned"} =>
         row[k] = NoRow \/ (writer[k] = r /\ latest[k] = NoRow)
    /\ Succeeded(r) => row[k] = NoRow

\* No confirmation finds the token of one that was answered before it arrived.
ReuseOf(r) ==
  Found(r) => \A q \in earlier[r] : Confirmed(q) => job[q].token # job[r].token

TokenInv ==
  /\ \A k \in Key : k[1] = "token" =>
       TokenOf(k) /\ \A r \in Request : ClearOf(r, k)
  /\ \A r \in Request : FoundOf(r) /\ ReuseOf(r)

-----------------------------------------------------------------------------
(* Steps.                                                                  *)

\* What a reset or a confirmation does.
Begins(r) ==
  /\ UNCHANGED dbvars
  /\ pc[r] \in {"idle", "queued", "connecting", "authorized"}
  /\ \/ pc'[r] \in {"queued", "connecting", "authorized", "begin"}
     \/ pc'[r] = "done" /\ answer'[r] # "ok"

LEMMA ResetSteps ==
  ASSUME Cast, RowsInv, NEW r \in Request, Op(r) \in Resetting,
         Step(r) \/ Arrive(r) \/ Fail(r)
  PROVE  \/ Commits(r) \/ RollsBack(r) \/ Begins(r)
         \/ request_password_reset(r) \/ confirm_password_reset(r)
         \/ update_password(r) \/ SelectTokens(r) \/ DeleteTokens(r) \/ InsertToken(r)
<1> USE DEF Cast, StageFits, At, AuditedOps, Resetting
<1>1. ~Read(r)
  BY DEF Read, read_current_user, list_stores, read_store, list_products, list_orders,
         search_products, read_product, read_store_theme, load_receipt,
         read_store_revenue, read_order, list_users, list_audit_events,
         record_success, record_authorization_failure
<1>2. ~Write(r)
  BY DEF Write, create_store, store_add, create_product, insert_product, import_products,
         ImportRow, ImportStops, upload_store_theme, store_receipt, SelectTarget,
         InsertTarget, UpdateTarget, KeepTarget
<1>3. Identify(r) => \/ request_password_reset(r) \/ confirm_password_reset(r)
                     \/ update_password(r) \/ SelectTokens(r) \/ DeleteTokens(r)
                     \/ InsertToken(r)
  BY DEF Identify, login
<1>4. Dispatch(r) \/ Connect(r) \/ Start(r) \/ PoolTimeout(r) \/ Arrive(r) => Begins(r)
  BY DEF Dispatch, Connect, Start, Move, PoolTimeout, Arrive, Finish, Goto, Begins
<1>5. Commit(r) \/ Rollback(r) \/ Fail(r) => Commits(r) \/ RollsBack(r)
  <2>1. Commit(r) \/ Rollback(r) \/ Fail(r) =>
          pc'[r] = "done" /\ pc[r] \notin {"idle", "queued", "connecting"}
    BY DEF Commit, Rollback, Fail, Finish, Goto, HoldsConnection, Active
  <2> QED BY <2>1, ServeKind DEF Serve, Kind, Waits, Works, Held, Stages
<1> QED BY <1>1, <1>2, <1>3, <1>4, <1>5 DEF Step, Serve, read_shipping_quote

\* What a step leaves of a token.
LEMMA TokenRows ==
  ASSUME Cast, RowsInv, NEW r \in Request, Step(r) \/ Arrive(r) \/ Fail(r),
         NEW k \in Key, k[1] = "token"
  PROVE  \/ Untouched(k)
         \/ /\ DeleteTokens(r) /\ k \in mem[r]
            /\ row'[k] = row[k] /\ latest'[k] = NoRow /\ writer'[k] = r
         \/ /\ InsertToken(r) /\ k = <<"token", r>>
            /\ row'[k] = row[k] /\ latest'[k] = [user |-> job[r].user] /\ writer'[k] = r
         \/ (Commits(r) \/ RollsBack(r)) /\ writer[k] = r
<1>1. update_password(r) => Untouched(k)
  BY PutKeeps DEF update_password
<1>2. Target(r)[1] # "token"
  BY DEF Target
<1>3. InsertTarget(r) \/ UpdateTarget(r) => Untouched(k)
  BY <1>2, PutKeeps DEF InsertTarget, UpdateTarget, dbvars, Untouched
<1>4. CASE DeleteTokens(r)
  BY <1>4 DEF DeleteTokens, Remove, Untouched
<1>5. CASE InsertToken(r)
  <2>1. CASE k = <<"token", r>>
    BY <1>5, <2>1 DEF InsertToken, Put, RowsInv
  <2>2. CASE k # <<"token", r>>
    BY <1>5, <2>2, PutKeeps DEF InsertToken
  <2> QED BY <1>5, <2>1, <2>2
<1>6. Commits(r) \/ RollsBack(r) => writer[k] = r \/ Untouched(k)
  BY EndKeeps
<1> QED BY <1>1, <1>3, <1>4, <1>5, <1>6, StepWrites DEF Watched

\* What a request has done it has done, and only a commit makes it done.
LEMMA DidStays ==
  ASSUME Cast, NEW r \in Request, Kind(r), NEW q \in Request, NEW op
  PROVE  /\ Did(q, op) => Did(q, op)'
         /\ Did(q, op)' /\ ~Did(q, op) => q = r /\ Commits(r)
         /\ Commits(r) => Succeeded(r)' /\ ~Answered(r) /\ pc[r] # "idle"
         /\ Answered(r) => FALSE
<1>1. job' = job /\ (q # r => pc'[q] = pc[q] /\ answer'[q] = answer[q])
  BY DEF Cast, Kind, Owns
<1>2. Op(q)' = Op(q)
  BY <1>1 DEF Op
<1> QED BY <1>1, <1>2
        DEF Did, Succeeded, Answered, Kind, Waits, Works, Commits, RollsBack, Held, Stages

LEMMA HoldersStay ==
  ASSUME UNCHANGED job
  PROVE  /\ \A t : HolderOf(t)' = HolderOf(t)
         /\ \A r : Op(r)' = Op(r) /\ BeneficiaryOf(r)' = BeneficiaryOf(r)
BY DEF HolderOf, Op, BeneficiaryOf

-----------------------------------------------------------------------------
(* Tokens.                                                                 *)

LEMMA TokenStep ==
  ASSUME Cast, RowsInv, NEW r \in Request, Step(r) \/ Arrive(r) \/ Fail(r),
         NEW k \in Key, k[1] = "token", TokenOf(k)
  PROVE  TokenOf(k)'
<1>1. Kind(r) /\ job' = job
  BY StepKind DEF Kind, Owns
<1>2. \A q \in Request \ {r} : pc'[q] = pc[q]
  BY <1>1 DEF Cast, Kind, Owns
<1>3. /\ \A t : HolderOf(t)' = HolderOf(t)
      /\ \A q : Op(q)' = Op(q)
      /\ \A q \in Request : Requested(q) => Requested(q)'
  BY <1>1, HoldersStay, DidStays DEF Requested
<1>4. writer[k] \in Request \cup {Nobody} /\ (writer[k] = Nobody => latest[k] = row[k])
  BY DEF RowsInv
<1>5. CASE Untouched(k) /\ writer[k] # r
  BY <1>2, <1>3, <1>4, <1>5 DEF TokenOf, Issuing, Untouched
<1>6. CASE DeleteTokens(r) /\ row'[k] = row[k] /\ latest'[k] = NoRow /\ writer'[k] = r
  <2>1. pc'[r] \in {"insert_token", "returned"} /\ Op(r) \in Resetting
    BY <1>6 DEF DeleteTokens, Return, Goto, Cast, StageFits, Resetting
  <2> QED BY <1>3, <1>6, <2>1 DEF TokenOf
<1>7. CASE /\ InsertToken(r) /\ k = <<"token", r>>
           /\ row'[k] = row[k] /\ latest'[k] = [user |-> job[r].user] /\ writer'[k] = r
  <2>1. pc'[r] = "returned" /\ Op(r) = "request_password_reset"
    BY <1>7 DEF InsertToken, Return, Goto, Cast, StageFits
  <2>2. HolderOf(r) = job[r].user
    BY DEF HolderOf
  <2> QED BY <1>3, <1>7, <2>1, <2>2 DEF TokenOf, Issuing, Resetting
<1>8. CASE Commits(r) /\ writer[k] = r
  <2>1. row'[k] = latest[k] /\ latest'[k] = latest[k] /\ writer'[k] = Nobody
    BY <1>8, EndWrites
  <2>2. Issuing(k) => Requested(k[2])'
    BY <1>1, <1>3, <1>8, DidStays DEF Issuing, Requested, Did
  <2> QED BY <1>3, <2>1, <2>2 DEF TokenOf, Issuing
<1>9. CASE RollsBack(r) /\ writer[k] = r
  <2>1. row'[k] = row[k] /\ latest'[k] = row[k] /\ writer'[k] = Nobody
    BY <1>9, EndWrites
  <2> QED BY <1>3, <2>1 DEF TokenOf
<1>10. CASE Untouched(k) /\ writer[k] = r
  <2>1. pc[r] \in {"insert_token", "returned"} /\ Op(r) \in Resetting
    BY <1>10, NobodyAssumption DEF TokenOf
  <2>2. ~Commits(r) /\ ~RollsBack(r)
    BY <1>10, EndWrites, NobodyAssumption DEF Untouched
  <2>3. InsertToken(r)
    BY <2>1, <2>2, ResetSteps
       DEF Begins, request_password_reset, confirm_password_reset, update_password,
           SelectTokens, DeleteTokens, At
  <2>4. pc[r] = "insert_token" /\ pc'[r] = "returned"
    BY <2>3 DEF InsertToken, Return, Goto, Cast
  <2> QED BY <1>2, <1>3, <1>4, <1>10, <2>1, <2>4 DEF TokenOf, Issuing, Untouched
<1> QED BY <1>5, <1>6, <1>7, <1>8, <1>9, <1>10, TokenRows

\* A token whose request has been answered does not come back.
Settled(t) == t \in Request => Answered(t)

LEMMA GoneStays ==
  ASSUME Cast, RowsInv, NEW r \in Request, Step(r) \/ Arrive(r) \/ Fail(r),
         NEW k \in Key, k[1] = "token", TokenOf(k), Settled(k[2]), row[k] = NoRow
  PROVE  row'[k] = NoRow
<1>1. ~Issuing(k)
  BY DEF Issuing, Settled, Answered
<1>2. latest[k] = NoRow
  BY <1>1 DEF TokenOf
<1> QED BY <1>2, TokenRows, EndWrites DEF Untouched

-----------------------------------------------------------------------------
(* Confirmations.                                                          *)

LEMMA FoundStep ==
  ASSUME Cast, RowsInv, TokenInv, NEW r \in Request, Step(r) \/ Arrive(r) \/ Fail(r),
         NEW q \in Request
  PROVE  FoundOf(q)' /\ ReuseOf(q)'
<1>1. Kind(r) /\ job' = job
  BY StepKind DEF Kind, Owns
<1>2. FoundOf(q) /\ ReuseOf(q)
  BY DEF TokenInv
<1>3. /\ \A t : HolderOf(t)' = HolderOf(t) /\ Known(HolderOf(t))' = Known(HolderOf(t))
      /\ Op(q)' = Op(q) /\ \A t \in Request : Requested(t) => Requested(t)'
  BY <1>1, HoldersStay, DidStays DEF Requested, Known
<1>4. q # r => pc'[q] = pc[q] /\ answer'[q] = answer[q] /\ mem'[q] = mem[q]
  BY <1>1 DEF Cast, Kind, Owns
<1>5. pc[q] # "idle" => earlier'[q] = earlier[q]
  BY <1>1 DEF Cast, Kind, Owns
<1>6. \A s \in earlier[q] : Confirmed(s)' => Confirmed(s)
  BY <1>1, DidStays DEF Confirmed, Cast
<1> SUFFICES ASSUME Found(q)'
             PROVE  FoundOf(q)' /\ ReuseOf(q)'
  BY DEF FoundOf, ReuseOf
<1>7. ASSUME Found(q),
             pc'[q] \in {"update_password", "select_tokens"} =>
               mem'[q] = mem[q] /\ pc[q] \in {"update_password", "select_tokens"}
      PROVE  FoundOf(q)' /\ ReuseOf(q)'
  <2>1. pc[q] # "idle" /\ earlier'[q] = earlier[q]
    BY <1>5, <1>7 DEF Found
  <2> QED BY <1>1, <1>2, <1>3, <1>6, <1>7, <2>1 DEF FoundOf, ReuseOf
<1>8. CASE q # r
  <2>1. Found(q)
    BY <1>3, <1>4, <1>8 DEF Found, Succeeded, Answered
  <2> QED BY <1>4, <1>7, <1>8, <2>1
<1>9. CASE q = r /\ confirm_password_reset(r)
  <2> DEFINE k == <<"token", job[r].token>>
  <2>1. /\ pc[r] = "begin" /\ Get(r, k) # NoRow
        /\ mem'[r] = Get(r, k).user
        /\ pc'[r] = "update_password"
    BY <1>9 DEF confirm_password_reset, At, Found, Raise, Goto, Cast, Succeeded, Answered
  <2>2. k \in Key /\ Visible(r, k) # NoRow /\ mem'[r] = Visible(r, k).user
    BY <2>1 DEF Get
  <2>3. TokenOf(k) /\ \A s \in Request : ClearOf(s, k)
    BY <2>2 DEF TokenInv
  <2>4. writer[k] # r
    BY <2>1, <2>3, NobodyAssumption DEF TokenOf
  <2>5. row[k] # NoRow /\ mem'[r] = row[k].user
    BY <2>2, <2>4 DEF Visible
  <2>6. /\ mem'[r] = HolderOf(job[r].token)
        /\ job[r].token \in Request => Requested(job[r].token)
    BY <2>3, <2>5 DEF TokenOf
  <2>7. Known(row[k].user)
    BY <2>2, <2>5 DEF RowsInv, FitsRow
  <2>8. ASSUME NEW s \in earlier[r], Confirmed(s), job[s].token = job[r].token
        PROVE  FALSE
    <3>1. s \in Request /\ pc[s] # "idle" /\ Op(s) = "confirm_password_reset" /\ Succeeded(s)
      BY <2>8 DEF Cast, Confirmed, Did, Succeeded, Answered
    <3>2. Due(s, k[2]) /\ Op(s) \in Resetting
      BY <2>8, <3>1 DEF Due, Resetting
    <3> QED BY <2>3, <2>5, <3>1, <3>2 DEF ClearOf
  <2>9. FoundOf(q)'
    BY <1>1, <1>3, <1>9, <2>5, <2>6, <2>7 DEF FoundOf
  <2>10. ReuseOf(q)'
    BY <1>1, <1>5, <1>6, <1>9, <2>1, <2>8 DEF ReuseOf
  <2> QED BY <2>9, <2>10
<1>10. CASE q = r /\ ~confirm_password_reset(r)
  <2>1. Op(r) = "confirm_password_reset" /\ Op(r) \in Resetting
    BY <1>3, <1>10 DEF Found, Resetting
  <2>2. \/ Commits(r) \/ update_password(r) \/ SelectTokens(r) \/ DeleteTokens(r)
    <3>1. ~Begins(r)
      BY <1>10 DEF Begins, Found, Succeeded, Answered
    <3>2. ~RollsBack(r)
      BY <1>10 DEF RollsBack, Found, Succeeded, Answered
    <3>3. ~request_password_reset(r) /\ ~InsertToken(r)
      BY <2>1 DEF request_password_reset, At, InsertToken, Cast, StageFits
    <3> QED BY <1>10, <2>1, <3>1, <3>2, <3>3, ResetSteps
  <2>3. /\ pc[r] \in {"update_password", "select_tokens", "delete_tokens", "returned"}
        /\ pc'[r] \in {"update_password", "select_tokens"} =>
             mem' = mem /\ pc[r] = "update_password"
    BY <2>2 DEF Commits, update_password, SelectTokens, DeleteTokens, Return, Goto, Cast
  <2>4. Found(r)
    BY <2>1, <2>3 DEF Found
  <2> QED BY <1>7, <1>10, <2>3, <2>4
<1> QED BY <1>8, <1>9, <1>10

-----------------------------------------------------------------------------
(* What is cleared.                                                        *)

\* A token that is due has been answered, and is one of the beneficiary.
LEMMA DueIsSettled ==
  ASSUME Cast, NEW r \in Request, FoundOf(r), NEW t, Due(r, t),
         Op(r) = "confirm_password_reset" => Found(r)
  PROVE  Settled(t) /\ HolderOf(t) = BeneficiaryOf(r)
         /\ (Op(r) = "request_password_reset" => t # r)
<1>1. CASE t \in earlier[r] /\ Op(t) = "request_password_reset" /\ HolderOf(t) = BeneficiaryOf(r)
  BY <1>1 DEF Cast, Settled
<1>2. CASE Op(r) = "confirm_password_reset" /\ t = job[r].token
  <2>1. t \in Request => Requested(t)
    BY <1>2 DEF FoundOf
  <2> QED BY <1>2, <2>1 DEF Settled, Requested, Did, Succeeded, BeneficiaryOf
<1> QED BY <1>1, <1>2 DEF Due

\* The stages at which something is claimed of the tokens that are due.
Clearing(r) == pc[r] \in {"delete_tokens", "insert_token", "returned"} \/ Succeeded(r)

LEMMA OthersKeepCleared ==
  ASSUME Cast, RowsInv, TokenInv, NEW s \in Request, Step(s) \/ Arrive(s) \/ Fail(s),
         NEW k \in Key, k[1] = "token", NEW r \in Request \ {s}
  PROVE  ClearOf(r, k)'
<1>1. Kind(s) /\ job' = job
  BY StepKind DEF Kind, Owns
<1>2. pc'[r] = pc[r] /\ answer'[r] = answer[r] /\ mem'[r] = mem[r] /\ earlier'[r] = earlier[r]
  BY <1>1 DEF Cast, Kind, Owns
<1>3. /\ \A t : HolderOf(t)' = HolderOf(t)
      /\ \A q : Op(q)' = Op(q) /\ BeneficiaryOf(q)' = BeneficiaryOf(q)
  BY <1>1, HoldersStay
<1>4. Due(r, k[2])' <=> Due(r, k[2])
  BY <1>1, <1>2, <1>3 DEF Due
<1>5. Succeeded(r)' <=> Succeeded(r)
  BY <1>2 DEF Succeeded, Answered
<1> SUFFICES ASSUME pc[r] # "idle", Op(r) \in Resetting, Due(r, k[2]), Clearing(r)
             PROVE  /\ pc[r] = "delete_tokens" => row'[k] = NoRow \/ k \in mem[r]
                    /\ pc[r] \in {"insert_token", "returned"} =>
                         row'[k] = NoRow \/ (writer'[k] = r /\ latest'[k] = NoRow)
                    /\ Succeeded(r) => row'[k] = NoRow
  BY <1>2, <1>3, <1>4, <1>5 DEF ClearOf, Clearing
<1>6. ClearOf(r, k) /\ TokenOf(k) /\ FoundOf(r)
  BY DEF TokenInv
<1>7. Op(r) = "confirm_password_reset" => Found(r)
  <2>1. pc[r] = "insert_token" => Op(r) = "request_password_reset"
    BY DEF Cast, StageFits
  <2> QED BY <2>1 DEF Found, Clearing
<1>8. Settled(k[2])
  BY <1>6, <1>7, DueIsSettled
<1>9. row[k] = NoRow => row'[k] = NoRow
  BY <1>6, <1>8, GoneStays
<1>10. writer[k] = r /\ latest[k] = NoRow => writer'[k] = r /\ latest'[k] = NoRow
  <2> SUFFICES ASSUME writer[k] = r, latest[k] = NoRow
               PROVE  writer'[k] = r /\ latest'[k] = NoRow
    OBVIOUS
  <2>1. ~(DeleteTokens(s) /\ k \in mem[s])
    BY NobodyAssumption DEF DeleteTokens, Lockable
  <2>2. ~(InsertToken(s) /\ k = <<"token", s>>)
    BY <1>8 DEF Settled, Answered, InsertToken
  <2> QED BY <2>1, <2>2, TokenRows DEF Untouched
<1> QED BY <1>6, <1>9, <1>10 DEF ClearOf

LEMMA OwnStepsClear ==
  ASSUME Cast, RowsInv, TokenInv, NEW r \in Request, Step(r) \/ Arrive(r) \/ Fail(r),
         NEW k \in Key, k[1] = "token"
  PROVE  ClearOf(r, k)'
<1>1. Kind(r) /\ job' = job
  BY StepKind DEF Kind, Owns
<1>2. /\ \A t : HolderOf(t)' = HolderOf(t)
      /\ \A q : Op(q)' = Op(q) /\ BeneficiaryOf(q)' = BeneficiaryOf(q)
  BY <1>1, HoldersStay
<1> SUFFICES ASSUME Op(r) \in Resetting, Due(r, k[2])', Clearing(r)'
             PROVE  /\ pc'[r] = "delete_tokens" => row'[k] = NoRow \/ k \in mem'[r]
                    /\ pc'[r] \in {"insert_token", "returned"} =>
                         row'[k] = NoRow \/ (writer'[k] = r /\ latest'[k] = NoRow)
                    /\ Succeeded(r)' => row'[k] = NoRow
  BY <1>2 DEF ClearOf, Clearing
<1>3. TokenOf(k) /\ FoundOf(r) /\ ClearOf(r, k)
  BY DEF TokenInv
<1>4. SelectTokens(r) \/ DeleteTokens(r) \/ InsertToken(r) \/ Commits(r)
  <2>1. ~Begins(r) /\ ~RollsBack(r)
    BY DEF Begins, RollsBack, Clearing, Succeeded, Answered
  <2>2. ~request_password_reset(r) /\ ~confirm_password_reset(r) /\ ~update_password(r)
    BY DEF request_password_reset, confirm_password_reset, update_password, Raise, Goto,
           Cast, Clearing, Succeeded, Answered
  <2> QED BY <2>1, <2>2, ResetSteps
<1>5. /\ pc[r] \in {"select_tokens", "delete_tokens", "insert_token", "returned"}
      /\ pc[r] # "idle" /\ earlier'[r] = earlier[r]
  <2>1. pc[r] \in {"select_tokens", "delete_tokens", "insert_token", "returned"}
    BY <1>4 DEF SelectTokens, DeleteTokens, InsertToken, Commits
  <2> QED BY <1>1, <2>1 DEF Cast, Kind, Owns
<1>6. Due(r, k[2])
  BY <1>1, <1>2, <1>5 DEF Due
<1>7. Op(r) = "confirm_password_reset" => Found(r)
  <2>1. pc[r] = "insert_token" => Op(r) = "request_password_reset"
    BY DEF Cast, StageFits
  <2> QED BY <1>5, <2>1 DEF Found
<1>8. /\ Settled(k[2]) /\ HolderOf(k[2]) = BeneficiaryOf(r)
      /\ Op(r) = "request_password_reset" => k[2] # r
  BY <1>3, <1>6, <1>7, DueIsSettled
<1>9. row[k] = NoRow => row'[k] = NoRow
  BY <1>3, <1>8, GoneStays
<1>10. CASE SelectTokens(r)
  <2>1. /\ pc[r] = "select_tokens" /\ pc'[r] = "delete_tokens" /\ row' = row
        /\ mem'[r] = TokensOf(r, Owner(r))
    BY <1>10 DEF SelectTokens, Goto, dbvars, Cast
  <2>2. Owner(r) = BeneficiaryOf(r)
    BY <1>3, <1>7, <2>1 DEF Owner, BeneficiaryOf, FoundOf, Resetting
  <2>3. Visible(r, k) = row[k]
    BY <1>3, <2>1, NobodyAssumption DEF TokenOf, Visible
  <2>4. row[k] # NoRow => row[k].user = Owner(r)
    BY <1>3, <1>8, <2>2 DEF TokenOf
  <2>5. row[k] # NoRow => k \in mem'[r]
    BY <2>1, <2>3, <2>4 DEF TokensOf
  <2> QED BY <2>1, <2>5 DEF Succeeded, Answered
<1>11. CASE DeleteTokens(r)
  <2>1. pc[r] = "delete_tokens" /\ pc'[r] \in {"insert_token", "returned"} /\ row' = row
    BY <1>11 DEF DeleteTokens, Remove, Return, Goto, Cast
  <2>2. row[k] = NoRow \/ k \in mem[r]
    BY <1>3, <1>5, <1>6, <2>1 DEF ClearOf
  <2>3. writer[k] # r
    BY <1>3, <2>1, NobodyAssumption DEF TokenOf
  <2>4. CASE k \in mem[r] /\ latest[k] = NoRow
    <3>1. latest[k] = row[k]
      BY <1>11, <2>3, <2>4 DEF DeleteTokens, Lockable, RowsInv
    <3> QED BY <1>9, <2>1, <2>4, <3>1 DEF Succeeded, Answered
  <2>5. CASE k \in mem[r] /\ latest[k] # NoRow
    <3>1. writer'[k] = r /\ latest'[k] = NoRow
      BY <1>11, <2>5 DEF DeleteTokens, Remove
    <3> QED BY <2>1, <3>1 DEF Succeeded, Answered
  <2> QED BY <1>9, <2>1, <2>2, <2>4, <2>5 DEF Succeeded, Answered
<1>12. CASE InsertToken(r)
  <2>1. /\ pc[r] = "insert_token" /\ pc'[r] = "returned"
        /\ Op(r) = "request_password_reset"
    BY <1>12 DEF InsertToken, Return, Goto, Cast, StageFits
  <2>2. k # <<"token", r>>
    BY <1>8, <2>1
  <2>3. Untouched(k)
    BY <1>12, <2>2, PutKeeps DEF InsertToken
  <2> QED BY <1>3, <1>5, <1>6, <2>1, <2>3 DEF ClearOf, Untouched, Succeeded, Answered
<1>13. CASE Commits(r)
  <2>1. pc[r] = "returned" /\ pc'[r] = "done"
    BY <1>13 DEF Commits
  <2>2. row[k] = NoRow \/ (writer[k] = r /\ latest[k] = NoRow)
    BY <1>3, <1>5, <1>6, <2>1 DEF ClearOf
  <2>3. row'[k] = NoRow
    BY <1>9, <1>13, <2>2, EndWrites
  <2> QED BY <2>1, <2>3
<1> QED BY <1>4, <1>10, <1>11, <1>12, <1>13

LEMMA TokenInvInit == Init => TokenInv
<1> SUFFICES ASSUME Init
             PROVE  TokenInv
  OBVIOUS
<1>1. \A r \in Request : pc[r] = "idle" /\ ~Found(r)
  BY DEF Init, Found
<1>2. ASSUME NEW k \in Key, k[1] = "token"
      PROVE  TokenOf(k)
  <2>1. row[k] = InitialRow[k] /\ latest[k] = InitialRow[k] /\ writer[k] = Nobody
    BY <1>2 DEF Init, DatabaseInit
  <2>2. k = <<"token", k[2]>>
    BY <1>2, RowsAssumption
  <2>3. k[2] \in Request => InitialRow[k] = NoRow
    BY <2>2, RequestsAssumption
  <2>4. k[2] \notin Request => InitialRow[k].user = HolderOf(k[2])
    BY <2>2 DEF HolderOf
  <2> QED BY <2>1, <2>3, <2>4 DEF TokenOf
<1> QED BY <1>1, <1>2 DEF TokenInv, ClearOf, FoundOf, ReuseOf

LEMMA TokenInvStep == Cast /\ RowsInv /\ TokenInv /\ [Next]_vars => TokenInv'
<1> SUFFICES ASSUME Cast, RowsInv, TokenInv, [Next]_vars
             PROVE  TokenInv'
  OBVIOUS
<1>1. CASE UNCHANGED vars
  BY <1>1 DEF vars, serving, dbvars, TokenInv, TokenOf, Issuing, ClearOf, Due, FoundOf, Found,
              ReuseOf, BeneficiaryOf, HolderOf, Requested, Confirmed, Did, Succeeded,
              Answered, Op, Known
<1>2. ASSUME NEW r \in Request, Arrive(r) \/ Step(r) \/ Fail(r)
      PROVE  TokenInv'
  <2>1. ASSUME NEW k \in Key, k[1] = "token"
        PROVE  TokenOf(k)' /\ \A q \in Request : ClearOf(q, k)'
    <3>1. TokenOf(k)'
      BY <1>2, <2>1, TokenStep DEF TokenInv
    <3>2. \A q \in Request \ {r} : ClearOf(q, k)'
      BY <1>2, <2>1, OthersKeepCleared
    <3>3. ClearOf(r, k)'
      BY <1>2, <2>1, OwnStepsClear
    <3> QED BY <3>1, <3>2, <3>3
  <2>2. \A q \in Request : FoundOf(q)' /\ ReuseOf(q)'
    BY <1>2, FoundStep
  <2> QED BY <2>1, <2>2 DEF TokenInv
<1> QED BY <1>1, <1>2 DEF Next, Quiesce

LEMMA Tokens == Spec => [](Cast /\ RowsInv /\ TokenInv)
BY Basics, TokenInvInit, TokenInvStep, PTL DEF Spec

\* ConfirmPasswordReset: it deletes the token in the transaction that sets the
\* password, so one token serves twice only if the second confirmation began
\* before the first was answered.
THEOREM TokensServeOnce == Spec => []TokenReuseNeedsOverlap
<1>1. Cast /\ TokenInv => TokenReuseNeedsOverlap
  <2> SUFFICES ASSUME Cast, TokenInv, NEW q \in Request, NEW r \in Request,
                      Confirmed(q), Confirmed(r), job[q].token = job[r].token,
                      q \in earlier[r]
               PROVE  FALSE
    BY DEF TokenReuseNeedsOverlap, Confirmed
  <2>1. Found(r)
    BY DEF Found, Confirmed, Did, Succeeded, Answered
  <2> QED BY <2>1 DEF TokenInv, ReuseOf
<1> QED BY <1>1, Tokens, PTL

\* delete_for_user: whatever was requested for the account and answered before
\* a request or a confirmation arrived is gone once that one is answered.
THEOREM EarlierTokensAreCleared == Spec => []ResetsClearEarlierTokens
<1>1. Cast /\ TokenInv => ResetsClearEarlierTokens
  <2> SUFFICES ASSUME Cast, TokenInv, NEW q \in Request, NEW r \in Request,
                      row[<<"token", q>>] # NoRow, Requested(r) \/ Confirmed(r),
                      row[<<"token", q>>].user = BeneficiaryOf(r), q \in earlier[r]
               PROVE  FALSE
    BY DEF ResetsClearEarlierTokens, Requested, Confirmed, BeneficiaryOf
  <2> DEFINE k == <<"token", q>>
  <2>1. k \in Key /\ k[1] = "token" /\ k[2] = q
    BY RequestsAssumption
  <2>2. TokenOf(k) /\ ClearOf(r, k)
    BY <2>1 DEF TokenInv
  <2>3. HolderOf(q) = BeneficiaryOf(r) /\ Op(q) = "request_password_reset"
    BY <2>1, <2>2 DEF TokenOf, Requested, Did
  <2>4. Due(r, q)
    BY <2>3 DEF Due
  <2>5. Op(r) \in Resetting /\ Succeeded(r) /\ pc[r] # "idle"
    BY DEF Requested, Confirmed, Did, Succeeded, Answered, Resetting
  <2> QED BY <2>1, <2>2, <2>4, <2>5 DEF ClearOf
<1> QED BY <1>1, Tokens, PTL

-----------------------------------------------------------------------------
(* Passwords.                                                              *)

AccountOf(r) == <<"user", BeneficiaryOf(r)>>

\* A user is locked by a confirmation that has set the password.
SetBy(k) ==
  writer[k] # Nobody =>
    /\ Op(writer[k]) = "confirm_password_reset"
    /\ pc[writer[k]] \in {"select_tokens", "delete_tokens", "returned"}
    /\ k = AccountOf(writer[k]) /\ latest[k].password = job[writer[k]].password

\* And every confirmation that has set it holds the lock until it ends.
HoldsAccount(r) ==
  Op(r) = "confirm_password_reset"
  /\ pc[r] \in {"select_tokens", "delete_tokens", "returned"} =>
    AccountOf(r) \in Key /\ writer[AccountOf(r)] = r

\* The password is that of r, or of a confirmation that was not answered when
\* r arrived.
LatestOf(r) ==
  Confirmed(r) =>
    /\ AccountOf(r) \in Key
    /\ \E q \in Request :
         /\ q = r \/ q \notin earlier[r]
         /\ Confirmed(q) /\ AccountOf(q) = AccountOf(r)
         /\ row[AccountOf(r)].password = job[q].password

PasswordInv ==
  /\ \A k \in Key : k[1] = "user" => SetBy(k)
  /\ \A r \in Request : HoldsAccount(r) /\ LatestOf(r)

\* What a step leaves of a user.
LEMMA UserRows ==
  ASSUME Cast, RowsInv, NEW r \in Request, Step(r) \/ Arrive(r) \/ Fail(r),
         NEW k \in Key, k[1] = "user"
  PROVE  \/ Untouched(k)
         \/ update_password(r) /\ k = <<"user", mem[r]>> /\ row'[k] = row[k]
         \/ (Commits(r) \/ RollsBack(r)) /\ writer[k] = r
<1>1. CASE update_password(r)
  BY <1>1, PutKeeps DEF update_password, Put
<1>2. Target(r)[1] # "user"
  BY DEF Target
<1>3. InsertTarget(r) \/ UpdateTarget(r) => Untouched(k)
  BY <1>2, PutKeeps DEF InsertTarget, UpdateTarget, dbvars, Untouched
<1>4. DeleteTokens(r) => Untouched(k)
  <2>1. DeleteTokens(r) => k \notin mem[r]
    BY DEF DeleteTokens, Cast
  <2> QED BY <2>1 DEF DeleteTokens, Remove, Untouched
<1>5. InsertToken(r) => Untouched(k)
  BY PutKeeps DEF InsertToken
<1>6. Commits(r) \/ RollsBack(r) => writer[k] = r \/ Untouched(k)
  BY EndKeeps
<1> QED BY <1>1, <1>3, <1>4, <1>5, <1>6, StepWrites DEF Watched

\* The UPDATE of a password.
LEMMA PasswordSet ==
  ASSUME Cast, RowsInv, TokenInv, NEW r \in Request, update_password(r)
  PROVE  /\ AccountOf(r) \in Key /\ AccountOf(r) = <<"user", mem[r]>>
         /\ Op(r) = "confirm_password_reset" /\ pc'[r] = "select_tokens"
         /\ writer[AccountOf(r)] \in {r, Nobody} /\ writer'[AccountOf(r)] = r
         /\ latest'[AccountOf(r)].password = job[r].password
<1>1. /\ pc[r] = "update_password" /\ pc'[r] = "select_tokens"
      /\ Op(r) = "confirm_password_reset"
  BY DEF update_password, Goto, Cast, StageFits
<1>2. FoundOf(r) /\ Found(r)
  BY <1>1 DEF TokenInv, Found
<1>3. AccountOf(r) = <<"user", mem[r]>> /\ Known(mem[r])
  BY <1>1, <1>2 DEF FoundOf, AccountOf, BeneficiaryOf
<1> DEFINE k == <<"user", mem[r]>>
<1>4. k \in Key /\ IsUser(InitialRow[k]) /\ k[1] = "user"
  BY <1>3 DEF Known
<1>5. DOMAIN latest[k] = {"id", "role", "store", "password"}
  BY <1>4 DEF RowsInv, FitsRow, SameUser, IsUser
<1> DEFINE new == [latest[k] EXCEPT !.password = job[r].password]
<1>6. new.password = job[r].password
  BY <1>5
<1>7. Lockable(r, k) /\ Put(r, k, new)
  BY DEF update_password
<1> HIDE DEF new
<1>8. writer'[k] = r /\ latest'[k] = new
  BY <1>4, <1>7 DEF Put, RowsInv
<1> QED BY <1>1, <1>3, <1>4, <1>6, <1>7, <1>8 DEF Lockable

LEMMA SetByStep ==
  ASSUME Cast, RowsInv, TokenInv, NEW r \in Request, Step(r) \/ Arrive(r) \/ Fail(r),
         NEW k \in Key, k[1] = "user", SetBy(k)
  PROVE  SetBy(k)'
<1>1. Kind(r) /\ job' = job
  BY StepKind DEF Kind, Owns
<1>2. \A q \in Request \ {r} : pc'[q] = pc[q]
  BY <1>1 DEF Cast, Kind, Owns
<1>3. \A q : Op(q)' = Op(q) /\ AccountOf(q)' = AccountOf(q)
  BY <1>1, HoldersStay DEF AccountOf
<1>4. writer[k] \in Request \cup {Nobody}
  BY DEF RowsInv
<1>5. CASE Untouched(k) /\ writer[k] # r
  BY <1>1, <1>2, <1>3, <1>4, <1>5 DEF SetBy, Untouched
<1>6. CASE update_password(r) /\ k = <<"user", mem[r]>>
  <2>1. /\ k = AccountOf(r) /\ Op(r) = "confirm_password_reset" /\ pc'[r] = "select_tokens"
        /\ writer'[k] = r /\ latest'[k].password = job[r].password
    BY <1>6, PasswordSet
  <2> QED BY <1>1, <1>3, <2>1 DEF SetBy
<1>7. CASE (Commits(r) \/ RollsBack(r)) /\ writer[k] = r
  <2>1. writer'[k] = Nobody
    BY <1>7, EndWrites
  <2> QED BY <2>1 DEF SetBy
<1>8. CASE Untouched(k) /\ writer[k] = r
  <2>1. /\ Op(r) = "confirm_password_reset"
        /\ pc[r] \in {"select_tokens", "delete_tokens", "returned"}
        /\ k = AccountOf(r) /\ latest[k].password = job[r].password
    BY <1>8, NobodyAssumption DEF SetBy
  <2>2. ~Commits(r) /\ ~RollsBack(r)
    BY <1>8, EndWrites, NobodyAssumption DEF Untouched
  <2>3. SelectTokens(r) \/ DeleteTokens(r)
    BY <2>1, <2>2, ResetSteps
       DEF Begins, request_password_reset, confirm_password_reset, update_password,
           InsertToken, At, Resetting
  <2>4. pc'[r] \in {"select_tokens", "delete_tokens", "returned"}
    BY <2>1, <2>3 DEF SelectTokens, DeleteTokens, Return, Goto, Cast
  <2> QED BY <1>1, <1>3, <1>8, <2>1, <2>4 DEF SetBy, Untouched
<1> QED BY <1>5, <1>6, <1>7, <1>8, UserRows

LEMMA HoldsAccountStep ==
  ASSUME Cast, RowsInv, TokenInv, PasswordInv, NEW r \in Request,
         Step(r) \/ Arrive(r) \/ Fail(r), NEW q \in Request
  PROVE  HoldsAccount(q)'
<1>1. Kind(r) /\ job' = job
  BY StepKind DEF Kind, Owns
<1>2. Op(q)' = Op(q) /\ AccountOf(q)' = AccountOf(q)
  BY <1>1, HoldersStay DEF AccountOf
<1> SUFFICES ASSUME Op(q) = "confirm_password_reset",
                    pc'[q] \in {"select_tokens", "delete_tokens", "returned"}
             PROVE  AccountOf(q) \in Key /\ writer'[AccountOf(q)] = q
  BY <1>2 DEF HoldsAccount
<1>3. CASE q # r
  <2>1. pc'[q] = pc[q]
    BY <1>1, <1>3 DEF Cast, Kind, Owns
  <2>2. AccountOf(q) \in Key /\ writer[AccountOf(q)] = q
    BY <2>1 DEF PasswordInv, HoldsAccount
  <2>3. AccountOf(q)[1] = "user"
    BY DEF AccountOf
  <2>4. ~(update_password(r) /\ AccountOf(q) = <<"user", mem[r]>>)
    BY <1>3, <2>2, NobodyAssumption DEF update_password, Lockable
  <2> QED BY <1>3, <2>2, <2>3, <2>4, UserRows DEF Untouched
<1>4. CASE q = r /\ update_password(r)
  BY <1>4, PasswordSet
<1>5. CASE q = r /\ ~update_password(r)
  <2>1. SelectTokens(r) \/ DeleteTokens(r)
    <3>1. ~Begins(r) /\ ~Commits(r) /\ ~RollsBack(r)
      BY <1>5 DEF Begins, Commits, RollsBack
    <3>2. ~request_password_reset(r) /\ ~confirm_password_reset(r) /\ ~InsertToken(r)
      BY <1>5 DEF request_password_reset, confirm_password_reset, At, InsertToken, Raise,
                  Goto, Cast, StageFits
    <3> QED BY <1>5, <3>1, <3>2, ResetSteps DEF Resetting
  <2>2. /\ pc[r] \in {"select_tokens", "delete_tokens"}
        /\ pc'[r] \in {"delete_tokens", "returned", "insert_token"}
    BY <2>1 DEF SelectTokens, DeleteTokens, Return, Goto, Cast
  <2>3. AccountOf(r) \in Key /\ writer[AccountOf(r)] = r
    BY <1>5, <2>2 DEF PasswordInv, HoldsAccount
  <2>4. AccountOf(r)[1] = "user"
    BY DEF AccountOf
  <2>5. ~Commits(r) /\ ~RollsBack(r)
    BY <2>2 DEF Commits, RollsBack
  <2> QED BY <1>5, <2>3, <2>4, <2>5, UserRows DEF Untouched
<1> QED BY <1>3, <1>4, <1>5

LEMMA LatestStep ==
  ASSUME Cast, RowsInv, TokenInv, PasswordInv, NEW r \in Request,
         Step(r) \/ Arrive(r) \/ Fail(r), NEW q \in Request
  PROVE  LatestOf(q)'
<1>1. Kind(r) /\ job' = job
  BY StepKind DEF Kind, Owns
<1>2. \A s : AccountOf(s)' = AccountOf(s)
  BY <1>1, HoldersStay DEF AccountOf
<1>3. /\ \A s \in Request : Confirmed(s) => Confirmed(s)'
      /\ Confirmed(q)' /\ ~Confirmed(q) => q = r /\ Commits(r)
  BY <1>1, DidStays DEF Confirmed
<1>4. pc[q] # "idle" => earlier'[q] = earlier[q]
  BY <1>1 DEF Cast, Kind, Owns
<1>5. Confirmed(q) => pc[q] # "idle"
  BY DEF Confirmed, Did, Succeeded, Answered
<1> DEFINE k == AccountOf(q)
<1>6. k[1] = "user"
  BY DEF AccountOf
<1> SUFFICES ASSUME Confirmed(q)'
             PROVE  /\ k \in Key
                    /\ \E s \in Request :
                         /\ s = q \/ s \notin earlier'[q]
                         /\ Confirmed(s)' /\ AccountOf(s) = k
                         /\ row'[k].password = job[s].password
  BY <1>1, <1>2 DEF LatestOf
<1>7. ASSUME Commits(r), k \in Key, writer[k] = r
      PROVE  Confirmed(r)' /\ AccountOf(r) = k /\ row'[k].password = job[r].password
  <2>1. SetBy(k)
    BY <1>6, <1>7 DEF PasswordInv
  <2>2. /\ Op(r) = "confirm_password_reset" /\ k = AccountOf(r)
        /\ latest[k].password = job[r].password
    BY <1>7, <2>1, NobodyAssumption DEF SetBy
  <2>3. Succeeded(r)' /\ Op(r)' = Op(r)
    BY <1>1, <1>7, DidStays DEF Op
  <2> QED BY <1>7, <2>2, <2>3, EndWrites DEF Confirmed, Did
<1>8. CASE Confirmed(q) /\ Commits(r) /\ writer[k] = r
  <2>1. k \in Key
    BY <1>8 DEF PasswordInv, LatestOf
  <2>2. r \notin earlier[q]
    BY <1>8 DEF Cast, Commits, Answered
  <2> QED BY <1>4, <1>5, <1>7, <1>8, <2>1, <2>2
<1>9. CASE Confirmed(q) /\ ~(Commits(r) /\ writer[k] = r)
  <2>1. k \in Key
    BY <1>9 DEF PasswordInv, LatestOf
  <2>2. row'[k] = row[k]
    BY <1>6, <1>9, <2>1, UserRows, EndWrites DEF Untouched
  <2>3. PICK s \in Request :
          /\ s = q \/ s \notin earlier[q]
          /\ Confirmed(s) /\ AccountOf(s) = k
          /\ row[k].password = job[s].password
    BY <1>9 DEF PasswordInv, LatestOf
  <2> QED BY <1>3, <1>4, <1>5, <1>9, <2>1, <2>2, <2>3
<1>10. CASE ~Confirmed(q)
  <2>1. q = r /\ Commits(r)
    BY <1>3, <1>10
  <2>2. Op(r) = "confirm_password_reset" /\ pc[r] = "returned"
    BY <1>1, <2>1 DEF Commits, Confirmed, Did, Op
  <2>3. k \in Key /\ writer[k] = r
    BY <2>1, <2>2 DEF PasswordInv, HoldsAccount
  <2> QED BY <1>7, <2>1, <2>3
<1> QED BY <1>8, <1>9, <1>10

LEMMA PasswordInvInit == Init => PasswordInv
<1> SUFFICES ASSUME Init
             PROVE  PasswordInv
  OBVIOUS
<1>1. \A r \in Request : pc[r] = "idle" /\ ~Confirmed(r)
  BY DEF Init, Confirmed, Did, Succeeded, Answered
<1>2. \A k \in Key : writer[k] = Nobody
  BY DEF Init, DatabaseInit
<1> QED BY <1>1, <1>2 DEF PasswordInv, SetBy, HoldsAccount, LatestOf

LEMMA PasswordInvStep ==
  Cast /\ RowsInv /\ TokenInv /\ PasswordInv /\ [Next]_vars => PasswordInv'
<1> SUFFICES ASSUME Cast, RowsInv, TokenInv, PasswordInv, [Next]_vars
             PROVE  PasswordInv'
  OBVIOUS
<1>1. CASE UNCHANGED vars
  BY <1>1 DEF vars, serving, dbvars, PasswordInv, SetBy, HoldsAccount, LatestOf, AccountOf,
              BeneficiaryOf, HolderOf, Confirmed, Did, Succeeded, Answered, Op
<1>2. ASSUME NEW r \in Request, Arrive(r) \/ Step(r) \/ Fail(r)
      PROVE  PasswordInv'
  <2>1. \A k \in Key : k[1] = "user" => SetBy(k)'
    BY <1>2, SetByStep DEF PasswordInv
  <2>2. \A q \in Request : HoldsAccount(q)' /\ LatestOf(q)'
    BY <1>2, HoldsAccountStep, LatestStep
  <2> QED BY <2>1, <2>2 DEF PasswordInv
<1> QED BY <1>1, <1>2 DEF Next, Quiesce

\* ConfirmPasswordReset: it holds the row of the user from the UPDATE to its
\* commit, so the password of an account is never older than a confirmation
\* that was answered with success.
THEOREM PasswordsAreNeverReverted == Spec => []PasswordIsLatest
<1>1. PasswordInv => PasswordIsLatest
  <2> SUFFICES ASSUME PasswordInv, NEW r \in Request, Confirmed(r)
               PROVE  \E q \in Request :
                        /\ q = r \/ q \notin earlier[r]
                        /\ Confirmed(q)
                        /\ HolderOf(job[q].token) = HolderOf(job[r].token)
                        /\ row[<<"user", HolderOf(job[r].token)>>].password = job[q].password
    BY DEF PasswordIsLatest, Confirmed
  <2>1. PICK q \in Request :
          /\ q = r \/ q \notin earlier[r]
          /\ Confirmed(q) /\ AccountOf(q) = AccountOf(r)
          /\ row[AccountOf(r)].password = job[q].password
    BY DEF PasswordInv, LatestOf
  <2>2. /\ AccountOf(q) = <<"user", HolderOf(job[q].token)>>
        /\ AccountOf(r) = <<"user", HolderOf(job[r].token)>>
    BY <2>1 DEF AccountOf, BeneficiaryOf, Confirmed, Did
  <2>3. HolderOf(job[q].token) = HolderOf(job[r].token)
    <3>1. AccountOf(q)[2] = AccountOf(r)[2]
      BY <2>1
    <3> QED BY <2>2, <3>1
  <2>4. row[<<"user", HolderOf(job[r].token)>>].password = job[q].password
    BY <2>1, <2>2
  <2> QED BY <2>1, <2>3, <2>4
<1> QED BY <1>1, Tokens, PasswordInvInit, PasswordInvStep, PTL DEF Spec
=============================================================================
