------------------------------ MODULE Sessions ------------------------------
(***************************************************************************)
(* What a session is: the access tokens of jwt_token_service.py, which     *)
(* only the memory of a process can revoke, and the cookie of the web tier *)
(* (ecommerce_backoffice_web/main.py), in which a browser keeps one.  Two  *)
(* tokens of a user that were issued in the same second are the same text. *)
(* The keys of a web session (token, role, e-mail) are set together and    *)
(* stand for one value here.                                               *)
(***************************************************************************)
EXTENDS Startup, Integers

CONSTANTS User, Client,      \* Client: who holds a token
          Tab,               \* the clients that are tabs of one browser
          Ttl, ResetTtl,     \* seconds a token is good for
          Never,             \* the end of a token without one
          NoToken,           \* no token
          MaxTime            \* bound on the clock

ASSUME SessionsAssumption ==
  /\ Tab \subseteq Client
  /\ Ttl \in Int /\ ResetTtl \in Int /\ MaxTime \in Nat

VARIABLES
  now,        \* the second
  token,      \* [Client -> the last token it was given]
  revoked,    \* [Process -> revoked tokens], in memory
  cookie,     \* the token in the browser's cookie
  tab,        \* [Tab -> its request in flight]
  requests,   \* how many more requests the API's clients and the tabs send
  restarts,   \* history: [Process -> how often it has stopped]
  out,        \* history: [Client -> {<<process, restarts>>}]: its logouts
  expected,   \* history: the cookie as the last login or logout left it
  disturbed   \* history: an answer to an older request came after that, or a
              \* logout that sent no cookie found it so

sessions == <<now, token, revoked, cookie, tab, requests, restarts, out,
              expected, disturbed>>
browser == <<cookie, tab, expected, disturbed>>

Idle == [kind |-> "none", sent |-> NoToken, older |-> FALSE]

SessionsInit(n) ==
  /\ now = 0
  /\ token = [c \in Client |-> NoToken]
  /\ revoked = [p \in Process |-> {}]
  /\ cookie = NoToken /\ expected = NoToken /\ disturbed = FALSE
  /\ tab = [t \in Tab |-> Idle]
  /\ requests = n
  /\ restarts = [p \in Process |-> 0]
  /\ out = [c \in Client |-> {}]

Tick ==
  /\ now < MaxTime /\ now' = now + 1
  /\ UNCHANGED <<browser, token, revoked, requests, restarts, out>>

\* issue_access_token; a lifetime that is not positive never ends.
Issue(user, ttl) ==
  [user |-> user, iat |-> now, exp |-> IF ttl > 0 THEN now + ttl ELSE Never]
Expired(t) == t.exp # Never /\ t.exp <= now

\* parse_access_token.
Accepts(p, t) == t \notin revoked[p] /\ ~Expired(t)

\* Mutants of Revoke: the last revocation is remembered; all sessions of the
\* user end.
RevokeLast(p, t) == revoked' = [revoked EXCEPT ![p] = {t}]
RevokeUser(p, t) ==
  revoked' = [revoked EXCEPT ![p] =
    @ \cup {token[c] : c \in {d \in Client : token[d] # NoToken /\ token[d].user = t.user}}]
\* revoke_access_token.
Revoke(p, t) == revoked' = [revoked EXCEPT ![p] = @ \cup {t}]

Give(c, t) ==
  /\ token' = [token EXCEPT ![c] = t]
  /\ out' = [out EXCEPT ![c] = {}]

Spend(tier) == requests[tier] > 0 /\ requests' = [requests EXCEPT ![tier] = @ - 1]
Reachable == \E p \in Process : phase[p] = "serving"

-----------------------------------------------------------------------------
(* Clients of the API itself.                                              *)

\* A login, or the session that the confirmation of a reset begins.
Login(c) ==
  /\ c \notin Tab /\ token[c] = NoToken /\ Reachable
  /\ \E u \in User, ttl \in {Ttl, ResetTtl} : Give(c, Issue(u, ttl))
  /\ Spend("api")
  /\ UNCHANGED <<browser, now, revoked, restarts>>

\* LogoutUser: nothing is asked of the token, which may be old or revoked.
Logout(c, p) ==
  /\ c \notin Tab /\ token[c] # NoToken /\ phase[p] = "serving"
  /\ Revoke(p, token[c])
  /\ out' = [out EXCEPT ![c] = @ \cup {<<p, restarts[p]>>}]
  /\ Spend("api")
  /\ UNCHANGED <<browser, now, token, restarts>>

-----------------------------------------------------------------------------
(* The web tier: a request carries the cookie as it is when it is sent.    *)

Send(t, kind) ==
  /\ tab[t] = Idle /\ Spend("web")
  /\ tab' = [tab EXCEPT ![t] = [kind |-> kind, sent |-> cookie, older |-> FALSE]]
  /\ UNCHANGED <<now, token, revoked, cookie, restarts, out, expected, disturbed>>

Received(t) == [tab EXCEPT ![t] = Idle]
\* The last login or logout is a newer one from now on.
Overtaken(t) == [u \in Tab |-> IF u = t \/ tab[u] = Idle THEN Idle
                               ELSE [tab[u] EXCEPT !.older = TRUE]]

\* SessionMiddleware sends a session that is not empty back with every answer,
\* be it a page, the API's refusal or a failed login; the browser obeys.  Some
\* pages ask nothing of the API.
AnswerPage(t) ==
  /\ tab[t].kind \in {"page", "login"}
  /\ tab[t].kind = "login" => Reachable
  /\ cookie' = IF tab[t].sent = NoToken THEN cookie ELSE tab[t].sent
  /\ disturbed' = (disturbed \/ tab[t].older)
  /\ tab' = Received(t)
  /\ UNCHANGED <<now, token, revoked, requests, restarts, out, expected>>

\* login_submit with an access token of the API.
AnswerLogin(t) ==
  /\ tab[t].kind = "login"
  /\ Reachable
  /\ \E u \in User : LET new == Issue(u, Ttl)
                     IN  Give(t, new) /\ cookie' = new /\ expected' = new
  /\ disturbed' = FALSE
  /\ tab' = Overtaken(t)
  /\ UNCHANGED <<now, revoked, requests, restarts>>

\* Mutant of Cleared: the session stays.
NotCleared(t) == tab[t].sent

\* What the answer to a logout makes of the cookie: a session is cleared, and
\* where there was none no cookie is sent.
Cleared(t) == IF tab[t].sent = NoToken THEN cookie ELSE NoToken

\* logout of the web tier, which does not tell the API.
AnswerLogout(t) ==
  /\ tab[t].kind = "logout"
  /\ cookie' = Cleared(t) /\ expected' = NoToken
  /\ disturbed' = (tab[t].sent = NoToken /\ (disturbed \/ tab[t].older))
  /\ tab' = Overtaken(t)
  /\ UNCHANGED <<now, token, revoked, requests, restarts, out>>

\* The API did not answer in time, or the browser has gone on.
AnswerNothing(t) ==
  /\ tab[t] # Idle
  /\ tab' = Received(t)
  /\ UNCHANGED <<now, token, revoked, cookie, requests, restarts, out,
                 expected, disturbed>>

\* The memory of a process is gone.
Forget(p) ==
  /\ revoked' = [revoked EXCEPT ![p] = {}]
  /\ restarts' = [restarts EXCEPT ![p] = @ + 1]
  /\ UNCHANGED <<browser, now, token, requests, out>>

Use ==
  \/ Tick
  \/ \E c \in Client : Login(c) \/ \E p \in Process : Logout(c, p)
  \/ \E t \in Tab : \/ \E kind \in {"page", "login", "logout"} : Send(t, kind)
                    \/ AnswerPage(t) \/ AnswerLogin(t) \/ AnswerLogout(t)
                    \/ AnswerNothing(t)
=============================================================================
