------------------------------ MODULE Accounts ------------------------------
(***************************************************************************)
(* Logging in and resetting a password: use_cases/authentication.py and    *)
(* use_cases/password_reset.py over the rows of users and of reset tokens. *)
(* A reset token is named by the request that inserts it.  What the access *)
(* tokens are good for is in Sessions.                                     *)
(***************************************************************************)
EXTENDS Catalog

\* _MAX_FAILED_LOGINS_BEFORE_LOCKOUT, _MAX_RESET_REQUESTS_BEFORE_LOCKOUT.
CONSTANT MaxAttempts

Account(r) == Get(r, <<"user", job[r].user>>)

\* The use-case object that serves r: the providers of dependencies.py build
\* one for every request.
Instance(r) == r

\* A use case counts by e-mail address: reset requests, or the logins it has
\* refused since the last one it granted.
Counts(r, q) ==
  /\ Instance(q) = Instance(r) /\ Op(q) = Op(r) /\ job[q].user = job[r].user
  /\ Op(q) = "login" => answer[q] = "refused"
Forgives(r, q) == \E s \in earlier[r] :
  /\ Instance(s) = Instance(r) /\ Op(s) = "login" /\ job[s].user = job[r].user
  /\ answer[s] = "ok" /\ q \in earlier[s]
Attempts(r) == Cardinality({q \in earlier[r] : Counts(r, q) /\ ~Forgives(r, q)})

TooMany(r) == Attempts(r) >= MaxAttempts

\* AuthenticateUser.execute.
login(r) ==
  /\ At(r, "login", "begin")
  /\ IF TooMany(r) THEN Raise(r, "limited")
     ELSE IF Account(r) = NoRow THEN Raise(r, "refused")
     ELSE IF Account(r).password = job[r].password THEN Return(r)
     ELSE Raise(r, "refused")
  /\ UNCHANGED <<dbvars, job, proc, mem, earlier>>

\* RequestPasswordReset.execute up to the tokens.
request_password_reset(r) ==
  /\ At(r, "request_password_reset", "begin")
  /\ IF TooMany(r) THEN Raise(r, "limited")
     ELSE IF Account(r) = NoRow THEN Raise(r, "not_found")
     ELSE Goto(r, "select_tokens") /\ UNCHANGED answer
  /\ UNCHANGED <<dbvars, job, proc, mem, earlier>>

\* ConfirmPasswordReset.execute: get_by_token, then get_by_id of the user.
confirm_password_reset(r) ==
  LET reset == Get(r, <<"token", job[r].token>>)
  IN  /\ At(r, "confirm_password_reset", "begin")
      /\ IF reset = NoRow THEN Raise(r, "refused") /\ UNCHANGED mem
         ELSE /\ mem' = [mem EXCEPT ![r] = reset.user]
              /\ Goto(r, "update_password") /\ UNCHANGED answer
      /\ UNCHANGED <<dbvars, job, proc, earlier>>

\* Mutant of update_password: the tokens of the account stay valid.
update_password_only(r) ==
  LET user == <<"user", mem[r]>>
  IN  /\ pc[r] = "update_password"
      /\ Lockable(r, user)
      /\ Put(r, user, [latest[user] EXCEPT !.password = job[r].password])
      /\ Return(r)
      /\ UNCHANGED <<job, proc, mem, earlier>>

\* A hash has a salt of its own, so there is always something to UPDATE.
update_password(r) ==
  LET user == <<"user", mem[r]>>
  IN  /\ pc[r] = "update_password"
      /\ Lockable(r, user)
      /\ Put(r, user, [latest[user] EXCEPT !.password = job[r].password])
      /\ Goto(r, "select_tokens")
      /\ UNCHANGED <<job, proc, mem, answer, earlier>>

\* Whose tokens a request deletes.
Owner(r) == IF Op(r) = "confirm_password_reset" THEN mem[r] ELSE job[r].user

TokensOf(r, user) ==
  {k \in Key : /\ k[1] = "token" /\ Visible(r, k) # NoRow
               /\ Visible(r, k).user = user}

\* Mutant of SelectTokens: only the token that was presented.
SelectOneToken(r) ==
  /\ pc[r] = "select_tokens"
  /\ mem' = [mem EXCEPT ![r] = IF Op(r) = "confirm_password_reset"
                               THEN {<<"token", job[r].token>>} ELSE {}]
  /\ Goto(r, "delete_tokens")
  /\ UNCHANGED <<dbvars, job, proc, answer, earlier>>

\* delete_for_user, the SELECT: what can be seen at this moment.
SelectTokens(r) ==
  /\ pc[r] = "select_tokens"
  /\ mem' = [mem EXCEPT ![r] = TokensOf(r, Owner(r))]
  /\ Goto(r, "delete_tokens")
  /\ UNCHANGED <<dbvars, job, proc, answer, earlier>>

\* delete_for_user, the DELETEs, in the order of the ids.  A row that is gone
\* by then is a warning of SQLAlchemy.
DeleteTokens(r) ==
  /\ pc[r] = "delete_tokens"
  /\ \A k \in mem[r] : Lockable(r, k)
  /\ Remove(r, {k \in mem[r] : latest[k] # NoRow})
  /\ IF Op(r) = "confirm_password_reset" THEN Return(r)
     ELSE Goto(r, "insert_token") /\ UNCHANGED answer
  /\ UNCHANGED <<job, proc, mem, earlier>>

InsertToken(r) ==
  /\ pc[r] = "insert_token"
  /\ Put(r, <<"token", r>>, [user |-> job[r].user])
  /\ Return(r)
  /\ UNCHANGED <<job, proc, mem, earlier>>

Identify(r) ==
  \/ login(r) \/ request_password_reset(r) \/ confirm_password_reset(r)
  \/ update_password(r) \/ SelectTokens(r) \/ DeleteTokens(r) \/ InsertToken(r)
=============================================================================
