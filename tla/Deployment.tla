----------------------------- MODULE Deployment -----------------------------
(***************************************************************************)
(* Processes that start, prepare the database, serve and crash, and the    *)
(* sessions of their users.                                                *)
(***************************************************************************)
EXTENDS Sessions

vars == <<preparation, sessions>>

Init == \E d \in Deployments : StartupInit(d) /\ SessionsInit(d.requests)

Begin(p) == Boot(p) /\ UNCHANGED sessions

\* prepare_database; a process that fails has served nobody yet.
Advance(p) == Prepare(p) /\ UNCHANGED sessions

Crash(p) == phase[p] # "down" /\ Stop(p) /\ Forget(p)

\* Nobody has anything left to do.
Quiesce ==
  /\ \A p \in Process : phase[p] \in {"serving", "down"}
  /\ UNCHANGED vars

Next ==
  \/ \E p \in Process : Begin(p) \/ Advance(p) \/ Crash(p)
  \/ Use /\ UNCHANGED preparation
  \/ Quiesce

Spec == Init /\ [][Next]_vars

\* A process that is starting goes on.
FairSpec == Spec /\ \A p \in Process : WF_vars(Advance(p))

-----------------------------------------------------------------------------
Starting == {"heads", "upgrading", "checking", "seeding"}

TypeOK ==
  /\ schema \subseteq SchemaAt(Head) /\ revision \in 0 .. Head
  /\ copies \in [Groups -> Nat]
  /\ phase \in [Process -> Starting \cup {"down", "serving"}]
  /\ passes \in [Process -> 0 .. 2] /\ reached \in [Process -> 0 .. Head]
  /\ altered \in [Process -> SUBSET SchemaAt(Head)]
  /\ groups \in [Process -> 0 .. 6] /\ boots \in Nat
  /\ now \in 0 .. MaxTime /\ requests \in [{"api", "web"} -> Nat]
  /\ \A t \in ((UNION {revoked[p] : p \in Process}) \cup {token[c] : c \in Client}
             \cup {cookie, expected}) \ {NoToken} :
       /\ t.user \in User /\ t.iat \in 0 .. now
       /\ t.exp \in {t.iat + Ttl, t.iat + ResetTtl, Never}

\* env.py: a migration that is cut short leaves nothing, so the committed
\* schema is always that of the committed revision.
SchemaIsRevision == schema = SchemaAt(revision)

\* seed_database: however many processes seed at once, and wherever they stop,
\* the baseline is there once or not at all.
SeedIsWhole ==
  \E n \in 0 .. 1 : \A g \in Groups : copies[g] = n

\* prepare_database: a process serves only over a schema with every column
\* that the ORM names, and over the baseline.
ServesPrepared ==
  \A p \in Process : phase[p] = "serving" =>
    /\ Mapped \subseteq schema
    /\ SeedOnStartup => \A g \in Groups : copies[g] > 0

\* A process that starts comes to serve, or it stops.
BootsSettle ==
  \A p \in Process : phase[p] \in Starting ~> phase[p] \in {"serving", "down"}

\* LogoutUser: a token is refused by the process that logged it out until
\* that process restarts, whoever else logs out or in.
LogoutHolds ==
  \A c \in Client, p \in Process :
    <<p, restarts[p]>> \in out[c] => ~Accepts(p, token[c])

\* A session that nobody logged out at this process is refused only once it
\* has expired, unless a session of the same user, begun in the same second,
\* was logged out.  (The web tier's logout is no reason.)
SessionsEndForAReason ==
  \A c \in Client, p \in Process :
    token[c] # NoToken /\ ~Accepts(p, token[c]) =>
      \/ Expired(token[c])
      \/ \E d \in Client : /\ <<p, restarts[p]>> \in out[d]
                           /\ token[d].user = token[c].user
                           /\ token[d].iat = token[c].iat

\* web main.py: the cookie is what the last login or logout made it, unless
\* an answer to a request that is older came in since.
CookieFollowsLastAnswer == disturbed \/ cookie = expected
=============================================================================
