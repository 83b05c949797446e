-------------------------- MODULE DeploymentProofs --------------------------
(***************************************************************************)
(* The safety of Deployment for any number of processes, starts, crashes,  *)
(* users, clients and requests, and for any lifetimes of the tokens.  Two  *)
(* inductive invariants that do not need each other: one of the database   *)
(* being prepared, one of the sessions.                                    *)
(***************************************************************************)
EXTENDS Deployment, TLAPS

\* The invariant behind the database: a process that is upgrading has created
\* what separates the committed schema from the revision it has reached, and
\* only one process has inserted an admin that is not committed.
PreparationInv ==
  /\ revision \in 0 .. Head
  /\ copies \in [Groups -> Nat]
  /\ phase \in [Process -> Starting \cup {"down", "serving"}]
  /\ passes \in [Process -> 0 .. 2]
  /\ reached \in [Process -> 0 .. Head]
  /\ altered \in [Process -> SUBSET SchemaAt(Head)]
  /\ groups \in [Process -> 0 .. 6]
  /\ boots \in Nat
  /\ SchemaIsRevision
  /\ SeedIsWhole
  /\ \A p \in Process :
       /\ phase[p] = "upgrading" => SchemaAt(reached[p]) \subseteq schema \cup altered[p]
       /\ phase[p] \in {"checking", "seeding", "serving"} => revision = Head
       /\ phase[p] = "serving" /\ SeedOnStartup => copies[1] = 1
       /\ groups[p] > 0 => copies[1] = 0
       /\ \A q \in Process : groups[p] > 0 /\ groups[q] > 0 => p = q

\* The seed is written in six flushes.
LEMMA GroupsAre == Groups = 1 .. 6
BY DEF Groups, Flushes

\* One more revision adds what its upgrade() creates.
LEMMA NextRevision ==
  ASSUME NEW n \in Nat
  PROVE  SchemaAt(n + 1) = SchemaAt(n) \cup Creates[n + 1]
<1>1. 1 .. (n + 1) = (1 .. n) \cup {n + 1}
  OBVIOUS
<1> QED BY <1>1 DEF SchemaAt

\* Earlier revisions are part of the newest one.
LEMMA SchemaGrows ==
  ASSUME NEW n \in 0 .. Head
  PROVE  SchemaAt(n) \subseteq SchemaAt(Head)
<1>1. 1 .. n \subseteq 1 .. Head
  BY DEF Head
<1> QED BY <1>1 DEF SchemaAt

\* The revisions create every column that the models of the ORM map.
LEMMA MappedIsCreated == Mapped \subseteq SchemaAt(Head)
<1>1. \A i \in 1 .. 7 : Creates[i] \subseteq SchemaAt(Head)
  BY DEF SchemaAt, Head
<1>2. /\ phase1b_baseline_schema \subseteq SchemaAt(Head)
      /\ iter02_audit_events \subseteq SchemaAt(Head)
      /\ iter03_theme_and_receipts \subseteq SchemaAt(Head)
      /\ iter04_password_reset \subseteq SchemaAt(Head)
      /\ iter05_credits_coupons_stock \subseteq SchemaAt(Head)
      /\ iter06_order_notes \subseteq SchemaAt(Head)
      /\ iter07_customer_phone_pii \subseteq SchemaAt(Head)
  BY <1>1 DEF Creates
<1>3. UserModel \cup StoreModel \cup OrderLineModel \subseteq SchemaAt(Head)
  BY <1>2 DEF UserModel, StoreModel, OrderLineModel, phase1b_baseline_schema
<1>4. AuditEventModel \cup StoreThemeModel \cup OrderReceiptModel
        \cup PasswordResetTokenModel \subseteq SchemaAt(Head)
  BY <1>2 DEF AuditEventModel, StoreThemeModel, OrderReceiptModel,
       PasswordResetTokenModel, iter02_audit_events, iter03_theme_and_receipts,
       iter04_password_reset
<1>5. CustomerCreditModel \cup CouponModel \cup CouponRedemptionModel
        \subseteq SchemaAt(Head)
  BY <1>2 DEF CustomerCreditModel, CouponModel, CouponRedemptionModel,
       iter05_credits_coupons_stock
<1>6. ProductModel \subseteq SchemaAt(Head)
  <2>1. ProductModel = Table("products", {"id", "store_id", "name", "description",
                                          "price_cents", "is_active"})
                         \cup Table("products", {"stock_quantity"})
    BY DEF ProductModel, Table
  <2> QED BY <1>2, <2>1 DEF phase1b_baseline_schema, iter05_credits_coupons_stock
<1>7. OrderModel \subseteq SchemaAt(Head)
  <2>1. OrderModel = Table("orders", {"id", "store_id", "customer_user_id", "status",
                             "customer_email", "customer_full_name", "shipping_address"})
                       \cup Table("orders", {"notes"})
                       \cup Table("orders", {"customer_phone"})
    BY DEF OrderModel, Table
  <2> QED BY <1>2, <2>1 DEF phase1b_baseline_schema, iter06_order_notes,
            iter07_customer_phone_pii
<1> QED BY <1>3, <1>4, <1>5, <1>6, <1>7 DEF Mapped

LEMMA PreparationInit == Init => PreparationInv
<1> SUFFICES ASSUME NEW d \in Deployments, StartupInit(d)
             PROVE  PreparationInv
  BY DEF Init
<1> USE DeploymentsAssumption, GroupsAre DEF Head
<1>1. SeedIsWhole
  <2>1. CASE d.revision = 0
    BY <2>1 DEF StartupInit, SeedIsWhole
  <2>2. CASE d.revision # 0
    BY <2>2 DEF StartupInit, SeedIsWhole
  <2> QED BY <2>1, <2>2
<1>2. /\ revision \in 0 .. Head /\ boots \in Nat /\ SchemaIsRevision
      /\ copies \in [Groups -> Nat]
      /\ passes \in [Process -> 0 .. 2] /\ reached \in [Process -> 0 .. Head]
      /\ groups \in [Process -> 0 .. 6]
      /\ altered \in [Process -> SUBSET SchemaAt(Head)]
      /\ phase \in [Process -> Starting \cup {"down", "serving"}]
  BY DEF StartupInit, SchemaIsRevision, Starting
<1>3. ASSUME NEW p \in Process
      PROVE  /\ phase[p] # "upgrading"
             /\ phase[p] \in {"checking", "seeding", "serving"} => revision = Head
             /\ phase[p] = "serving" /\ SeedOnStartup => copies[1] = 1
             /\ groups[p] = 0
  BY DEF StartupInit
<1> QED BY <1>1, <1>2, <1>3 DEF PreparationInv

-----------------------------------------------------------------------------
(* Each step of a process that prepares the database keeps the invariant.  *)

\* Boot and the reading of the heads: nothing committed changes.
LEMMA BootKeeps ==
  ASSUME PreparationInv, NEW p \in Process, Boot(p)
  PROVE  PreparationInv'
<1> USE DEF Boot, Goto, Starting, Head
<1>1. SchemaIsRevision' /\ SeedIsWhole'
  BY DEF PreparationInv, SchemaIsRevision, SeedIsWhole
<1>2. /\ (phase \in [Process -> Starting \cup {"down", "serving"}])'
      /\ (passes \in [Process -> 0 .. 2])' /\ (boots \in Nat)'
  BY DEF PreparationInv
<1> QED BY <1>1, <1>2 DEF PreparationInv

LEMMA ReadHeadsKeeps ==
  ASSUME PreparationInv, NEW p \in Process, ReadHeads(p)
  PROVE  PreparationInv'
<1> USE DEF ReadHeads, Goto, Starting, Head
<1>1. SchemaIsRevision' /\ SeedIsWhole'
  BY DEF PreparationInv, SchemaIsRevision, SeedIsWhole
<1>2. /\ (phase \in [Process -> Starting \cup {"down", "serving"}])'
      /\ (reached \in [Process -> 0 .. Head])'
  BY DEF PreparationInv
<1>3. SchemaAt(reached'[p]) \subseteq schema' \cup altered'[p]
  BY DEF PreparationInv, SchemaIsRevision
<1> QED BY <1>1, <1>2, <1>3 DEF PreparationInv

\* A process that stops takes what it had not committed with it.
LEMMA StopKeeps ==
  ASSUME PreparationInv, NEW p \in Process, Stop(p)
  PROVE  PreparationInv'
<1> USE DEF Stop, Goto, Starting, Head
<1>1. SchemaIsRevision' /\ SeedIsWhole'
  BY DEF PreparationInv, SchemaIsRevision, SeedIsWhole
<1>2. /\ (phase \in [Process -> Starting \cup {"down", "serving"}])'
      /\ (altered \in [Process -> SUBSET SchemaAt(Head)])'
      /\ (groups \in [Process -> 0 .. 6])'
  BY DEF PreparationInv
<1> QED BY <1>1, <1>2 DEF PreparationInv

\* The next revision is what separates the one reached from the one after.
LEMMA ApplyRevisionKeeps ==
  ASSUME PreparationInv, NEW p \in Process, ApplyRevision(p)
  PROVE  PreparationInv'
<1> DEFINE columns == Creates[reached[p] + 1]
<1>1. CASE Stop(p)
  BY <1>1, StopKeeps
<1>2. CASE Altering(p, columns)
  <2> USE DEF Altering
  <2>1. reached[p] \in Nat /\ reached[p] + 1 \in 0 .. Head
    BY DEF PreparationInv, ApplyRevision, Head
  <2>2. SchemaAt(reached[p] + 1) = SchemaAt(reached[p]) \cup columns
    BY <2>1, NextRevision
  <2>3. SchemaAt(reached[p] + 1) \subseteq SchemaAt(Head)
    BY <2>1, SchemaGrows
  <2>4. SchemaIsRevision' /\ SeedIsWhole'
    BY <1>2 DEF PreparationInv, SchemaIsRevision, SeedIsWhole
  <2>5. (reached \in [Process -> 0 .. Head])'
    BY <1>2, <2>1 DEF PreparationInv
  <2>6. (altered \in [Process -> SUBSET SchemaAt(Head)])'
    BY <1>2, <2>2, <2>3 DEF PreparationInv
  <2>7. SchemaAt(reached'[p]) \subseteq schema' \cup altered'[p]
    <3>1. SchemaAt(reached[p]) \subseteq schema \cup altered[p]
      BY DEF PreparationInv, ApplyRevision
    <3>2. /\ reached'[p] = reached[p] + 1 /\ schema' = schema
          /\ altered'[p] = altered[p] \cup columns
      BY <1>2 DEF PreparationInv
    <3> QED BY <2>2, <3>1, <3>2
  <2>8. ASSUME NEW q \in Process, q # p
        PROVE  reached'[q] = reached[q] /\ altered'[q] = altered[q]
    BY <1>2, <2>8 DEF PreparationInv
  <2>9. ASSUME NEW q \in Process, phase'[q] = "upgrading"
        PROVE  SchemaAt(reached'[q]) \subseteq schema' \cup altered'[q]
    <3>1. CASE q = p
      BY <2>7, <3>1
    <3>2. CASE q # p
      BY <1>2, <2>8, <2>9, <3>2 DEF PreparationInv
    <3> QED BY <3>1, <3>2
  <2>10. UNCHANGED <<revision, copies, phase, passes, groups, boots>>
    BY <1>2
  <2> QED BY <2>4, <2>5, <2>6, <2>9, <2>10 DEF PreparationInv
<1> QED BY <1>1, <1>2 DEF ApplyRevision

\* The newest revision and its columns become visible together.
LEMMA CommitUpgradeKeeps ==
  ASSUME PreparationInv, NEW p \in Process, CommitUpgrade(p)
  PROVE  PreparationInv'
<1> USE DEF CommitUpgrade, Goto, Starting
<1>1. schema' = SchemaAt(Head)
  <2>1. SchemaAt(Head) \subseteq schema \cup altered[p]
    BY DEF PreparationInv
  <2>2. altered[p] \subseteq SchemaAt(Head)
    BY DEF PreparationInv
  <2>3. schema \subseteq SchemaAt(Head)
    BY SchemaGrows DEF PreparationInv, SchemaIsRevision
  <2> QED BY <2>1, <2>2, <2>3
<1>2. revision' = Head /\ Head \in 0 .. Head
  BY DEF Head
<1>3. SchemaIsRevision' /\ SeedIsWhole'
  BY <1>1, <1>2 DEF PreparationInv, SchemaIsRevision, SeedIsWhole
<1>4. /\ (phase \in [Process -> Starting \cup {"down", "serving"}])'
      /\ (altered \in [Process -> SUBSET SchemaAt(Head)])'
  BY DEF PreparationInv
<1>5. ASSUME NEW q \in Process, phase'[q] = "upgrading"
      PROVE  SchemaAt(reached'[q]) \subseteq schema' \cup altered'[q]
  BY <1>1, SchemaGrows DEF PreparationInv
<1>6. ASSUME NEW q \in Process, phase'[q] = "serving"
      PROVE  phase[q] = "serving"
  BY <1>6 DEF PreparationInv
<1> QED BY <1>2, <1>3, <1>4, <1>5, <1>6 DEF PreparationInv

\* The check of the admin: the process goes on to serve over a database that
\* is prepared, or to the seed.
LEMMA SeedCheckKeeps ==
  ASSUME PreparationInv, NEW p \in Process, SeedCheck(p)
  PROVE  PreparationInv'
<1> USE DEF SeedCheck, Prepared, Goto, Starting, Head
<1>1. SchemaIsRevision' /\ SeedIsWhole'
  BY DEF PreparationInv, SchemaIsRevision, SeedIsWhole
<1>2. /\ (phase \in [Process -> Starting \cup {"down", "serving"}])'
      /\ (passes \in [Process -> 0 .. 2])'
  BY DEF PreparationInv
<1>3. copies[1] > 0 => copies[1] = 1
  BY GroupsAre DEF PreparationInv, SeedIsWhole
<1>4. ASSUME NEW q \in Process
      PROVE  /\ phase'[q] = "upgrading" => phase[q] = "upgrading"
             /\ phase'[q] \in {"checking", "seeding", "serving"} => revision' = Head
             /\ phase'[q] = "serving" /\ SeedOnStartup => copies'[1] = 1
  BY <1>3 DEF PreparationInv
<1> QED BY <1>1, <1>2, <1>4 DEF PreparationInv

\* Whoever inserts the admin is the only one that does.
LEMMA SeedGroupKeeps ==
  ASSUME PreparationInv, NEW p \in Process, SeedGroup(p)
  PROVE  PreparationInv'
<1>1. CASE Stop(p)
  BY <1>1, StopKeeps
<1>2. CASE ~(groups[p] = 0 /\ copies[1] > 0) /\ Seeded(p)
  <2> USE DEF Seeded
  <2>1. SchemaIsRevision' /\ SeedIsWhole'
    BY <1>2 DEF PreparationInv, SchemaIsRevision, SeedIsWhole
  <2>2. (groups \in [Process -> 0 .. 6])'
    BY <1>2, GroupsAre DEF PreparationInv, SeedGroup
  <2>3. copies[1] \in Nat /\ groups[p] \in Nat
    BY GroupsAre DEF PreparationInv
  <2>4. copies[1] = 0
    BY <1>2, <2>3 DEF PreparationInv
  <2>5. ASSUME NEW q \in Process, q # p
        PROVE  groups'[q] = groups[q] /\ groups[q] = 0
    <3>1. groups'[q] = groups[q] /\ groups[q] \in Nat
      BY <1>2, <2>5 DEF PreparationInv
    <3>2. CASE groups[p] = 0
      BY <2>5, <3>2, <3>1 DEF SeedGroup
    <3>3. CASE groups[p] > 0
      BY <2>5, <3>3, <3>1 DEF PreparationInv
    <3> QED BY <2>3, <3>1, <3>2, <3>3
  <2> QED BY <1>2, <2>1, <2>2, <2>4, <2>5 DEF PreparationInv
<1> QED BY <1>1, <1>2 DEF SeedGroup

\* The baseline is committed whole, by a process that found none of it.
LEMMA CommitSeedKeeps ==
  ASSUME PreparationInv, NEW p \in Process, CommitSeed(p)
  PROVE  PreparationInv'
<1> USE DEF CommitSeed, Prepared, Goto, Starting, Head
<1>1. groups[p] \in 0 .. 6 /\ groups[p] > 0
  BY GroupsAre DEF PreparationInv
<1>2. copies[1] = 0
  BY <1>1 DEF PreparationInv
<1>3. \A g \in Groups : copies[g] = 0
  BY <1>2, GroupsAre DEF PreparationInv, SeedIsWhole
<1>4. /\ \A g \in Groups : copies'[g] = 1
      /\ copies' \in [Groups -> Nat]
  BY <1>3
<1>5. SchemaIsRevision' /\ SeedIsWhole'
  BY <1>4 DEF PreparationInv, SchemaIsRevision, SeedIsWhole
<1>6. /\ (phase \in [Process -> Starting \cup {"down", "serving"}])'
      /\ (passes \in [Process -> 0 .. 2])' /\ (groups \in [Process -> 0 .. 6])'
  BY DEF PreparationInv
<1>7. \A q \in Process : groups'[q] = 0
  <2>1. \A q \in Process : groups[q] \in Nat
    BY DEF PreparationInv
  <2> QED BY <1>1, <2>1 DEF PreparationInv
<1>8. copies'[1] = 1
  BY <1>4, GroupsAre
<1>9. ASSUME NEW q \in Process
      PROVE  /\ phase'[q] = "upgrading" => phase[q] = "upgrading"
             /\ phase'[q] \in {"checking", "seeding", "serving"} => revision' = Head
  BY DEF PreparationInv
<1>10. UNCHANGED <<schema, revision, reached, altered, boots>>
  OBVIOUS
<1> QED BY <1>4, <1>5, <1>6, <1>7, <1>8, <1>9, <1>10 DEF PreparationInv

LEMMA PreparationStep == PreparationInv /\ [Next]_vars => PreparationInv'
<1> SUFFICES ASSUME PreparationInv, [Next]_vars
             PROVE  PreparationInv'
  OBVIOUS
<1>1. CASE UNCHANGED preparation
  BY <1>1 DEF PreparationInv, preparation, SchemaIsRevision, SeedIsWhole
<1>2. ASSUME NEW p \in Process, Begin(p)
      PROVE  PreparationInv'
  BY <1>2, BootKeeps DEF Begin
<1>3. ASSUME NEW p \in Process, Advance(p)
      PROVE  PreparationInv'
  BY <1>3, ReadHeadsKeeps, ApplyRevisionKeeps, CommitUpgradeKeeps, SeedCheckKeeps,
     SeedGroupKeeps, CommitSeedKeeps DEF Advance, Prepare
<1>4. ASSUME NEW p \in Process, Crash(p)
      PROVE  PreparationInv'
  BY <1>4, StopKeeps DEF Crash
<1> QED BY <1>1, <1>2, <1>3, <1>4 DEF Next, Quiesce, vars

LEMMA Preparation == Spec => []PreparationInv
BY PreparationInit, PreparationStep, PTL DEF Spec

-----------------------------------------------------------------------------
\* env.py applies all revisions in one transaction: whoever migrates at the
\* same time, and wherever it stops, the committed schema is that of the
\* committed revision.
THEOREM SchemaFollowsRevision == Spec => []SchemaIsRevision
<1>1. PreparationInv => SchemaIsRevision
  BY DEF PreparationInv
<1> QED BY <1>1, Preparation, PTL

\* seed_database: the baseline is committed once and whole, or not at all.
THEOREM SeedOnce == Spec => []SeedIsWhole
<1>1. PreparationInv => SeedIsWhole
  BY DEF PreparationInv
<1> QED BY <1>1, Preparation, PTL

\* prepare_database: whoever serves does so over every column that the ORM
\* names and, where seeding is on, over the baseline.
THEOREM ServesOnlyPrepared == Spec => []ServesPrepared
<1>1. PreparationInv => ServesPrepared
  <2> SUFFICES ASSUME PreparationInv, NEW p \in Process, phase[p] = "serving"
               PROVE  /\ Mapped \subseteq schema
                      /\ SeedOnStartup => \A g \in Groups : copies[g] > 0
    BY DEF ServesPrepared
  <2>1. schema = SchemaAt(Head)
    BY DEF PreparationInv, SchemaIsRevision
  <2>2. SeedOnStartup => copies[1] = 1
    BY DEF PreparationInv
  <2>3. SeedOnStartup => \A g \in Groups : copies[g] = 1
    BY <2>2, GroupsAre DEF PreparationInv, SeedIsWhole
  <2> QED BY <2>1, <2>3, MappedIsCreated
<1> QED BY <1>1, Preparation, PTL

-----------------------------------------------------------------------------
(* The sessions.                                                           *)

\* The tokens that can have been issued by second n.
Issued(n) == {t \in [user : User, iat : 0 .. n, exp : Int \cup {Never}] :
                t.exp \in {t.iat + Ttl, t.iat + ResetTtl, Never}}
MaybeIssued(n) == Issued(n) \cup {NoToken}

SessionTypes ==
  /\ now \in 0 .. MaxTime
  /\ requests \in [{"api", "web"} -> Nat]
  /\ token \in [Client -> MaybeIssued(now)]
  /\ revoked \in [Process -> SUBSET Issued(now)]
  /\ cookie \in MaybeIssued(now) /\ expected \in MaybeIssued(now)
  /\ tab \in [Tab -> [kind : {"none", "page", "login", "logout"},
                      sent : MaybeIssued(now), older : BOOLEAN]]
  /\ disturbed \in BOOLEAN
  /\ restarts \in [Process -> Nat]
  /\ out \in [Client -> SUBSET (Process \X Nat)]

\* What a process has revoked is what was logged out there since it started.
RevocationInv ==
  /\ \A c \in Client :
       /\ c \in Tab \/ token[c] = NoToken => out[c] = {}
       /\ \A p \in Process, n \in Nat : <<p, n>> \in out[c] => n <= restarts[p]
       /\ \A p \in Process : <<p, restarts[p]>> \in out[c] => token[c] \in revoked[p]
  /\ \A p \in Process : \A x \in revoked[p] :
       \E d \in Client : <<p, restarts[p]>> \in out[d] /\ token[d] = x

\* A request that is not older than the last login or logout carries the cookie.
CookieInv ==
  ~disturbed => /\ cookie = expected
                /\ \A t \in Tab : tab[t] # Idle /\ ~tab[t].older => tab[t].sent = cookie

\* What was issued stays issued.
LEMMA IssuedGrows ==
  ASSUME NEW m \in Nat, NEW n \in Nat, m <= n
  PROVE  Issued(m) \subseteq Issued(n)
BY DEF Issued

LEMMA IssueIsIssued ==
  ASSUME SessionTypes, NEW u \in User, NEW ttl \in {Ttl, ResetTtl}
  PROVE  Issue(u, ttl) \in Issued(now)
<1>1. now \in Nat /\ now \in 0 .. now /\ ttl \in Int
  BY SessionsAssumption DEF SessionTypes
<1>2. Issue(u, ttl).exp \in {now + Ttl, now + ResetTtl, Never}
  BY <1>1 DEF Issue
<1>3. Issue(u, ttl).exp \in Int \cup {Never}
  BY <1>1 DEF Issue
<1> QED BY <1>1, <1>2, <1>3 DEF Issue, Issued

LEMMA SessionTypesInit == Init => SessionTypes
<1> SUFFICES ASSUME NEW d \in Deployments, SessionsInit(d.requests)
             PROVE  SessionTypes
  BY DEF Init
<1>1. d.requests \in [{"api", "web"} -> Nat]
  BY DeploymentsAssumption
<1>2. now \in 0 .. MaxTime
  BY SessionsAssumption DEF SessionsInit
<1>3. NoToken \in MaybeIssued(now)
  BY DEF MaybeIssued
<1>4. tab \in [Tab -> [kind : {"none", "page", "login", "logout"},
                      sent : MaybeIssued(now), older : BOOLEAN]]
  BY <1>3 DEF SessionsInit, Idle
<1> QED BY <1>1, <1>2, <1>3, <1>4 DEF SessionsInit, SessionTypes

\* Every action keeps the types.
LEMMA SpendKeeps ==
  ASSUME requests \in [{"api", "web"} -> Nat], NEW tier \in {"api", "web"}, Spend(tier)
  PROVE  requests' \in [{"api", "web"} -> Nat]
BY DEF Spend

LEMMA SessionTypesStep == SessionTypes /\ [Next]_vars => SessionTypes'
<1> SUFFICES ASSUME SessionTypes, [Next]_vars
             PROVE  SessionTypes'
  OBVIOUS
<1> USE SessionsAssumption
<1>1. CASE UNCHANGED sessions
  BY <1>1 DEF SessionTypes, sessions, MaybeIssued, Issued
<1>2. ASSUME NEW p \in Process, Crash(p)
      PROVE  SessionTypes'
  BY <1>2 DEF Crash, Forget, browser, SessionTypes
<1>3. CASE Tick
  <2>1. now \in Nat /\ now' \in Nat /\ now <= now' /\ now' \in 0 .. MaxTime
    BY <1>3 DEF Tick, SessionTypes
  <2>2. Issued(now) \subseteq Issued(now')
    BY <2>1, IssuedGrows
  <2>3. MaybeIssued(now) \subseteq MaybeIssued(now')
    BY <2>2 DEF MaybeIssued
  <2>4. UNCHANGED <<browser, token, revoked, requests, restarts, out>>
    BY <1>3 DEF Tick
  <2>5. token' \in [Client -> MaybeIssued(now')]
    BY <2>3, <2>4 DEF SessionTypes
  <2>6. revoked' \in [Process -> SUBSET Issued(now')]
    BY <2>2, <2>4 DEF SessionTypes
  <2>7. tab' \in [Tab -> [kind : {"none", "page", "login", "logout"},
                          sent : MaybeIssued(now'), older : BOOLEAN]]
    BY <2>3, <2>4 DEF SessionTypes, browser
  <2>8. cookie' \in MaybeIssued(now') /\ expected' \in MaybeIssued(now')
    BY <2>3, <2>4 DEF SessionTypes, browser
  <2> QED BY <2>1, <2>4, <2>5, <2>6, <2>7, <2>8 DEF SessionTypes, browser
<1>4. ASSUME NEW c \in Client, Login(c)
      PROVE  SessionTypes'
  <2>1. PICK u \in User, ttl \in {Ttl, ResetTtl} : Give(c, Issue(u, ttl))
    BY <1>4 DEF Login
  <2>2. Issue(u, ttl) \in MaybeIssued(now)
    BY IssueIsIssued DEF MaybeIssued
  <2>3. requests' \in [{"api", "web"} -> Nat]
    BY <1>4, SpendKeeps DEF Login, SessionTypes
  <2>4. UNCHANGED <<browser, now, revoked, restarts>>
    BY <1>4 DEF Login
  <2> QED BY <2>1, <2>2, <2>3, <2>4 DEF Give, browser, SessionTypes
<1>5. ASSUME NEW c \in Client, NEW p \in Process, Logout(c, p)
      PROVE  SessionTypes'
  <2>1. requests' \in [{"api", "web"} -> Nat]
    BY <1>5, SpendKeeps DEF Logout, SessionTypes
  <2>2. token[c] \in Issued(now)
    BY <1>5 DEF Logout, SessionTypes, MaybeIssued
  <2>3. UNCHANGED <<browser, now, token, restarts>>
    BY <1>5 DEF Logout
  <2>4. revoked' \in [Process -> SUBSET Issued(now)]
    BY <1>5, <2>2 DEF Logout, Revoke, SessionTypes
  <2>5. out' \in [Client -> SUBSET (Process \X Nat)]
    BY <1>5 DEF Logout, SessionTypes
  <2> QED BY <2>1, <2>3, <2>4, <2>5 DEF browser, SessionTypes
<1>6. ASSUME NEW t \in Tab,
             \/ \E kind \in {"page", "login", "logout"} : Send(t, kind)
             \/ AnswerPage(t) \/ AnswerLogin(t) \/ AnswerLogout(t) \/ AnswerNothing(t)
      PROVE  SessionTypes'
  <2>1. ASSUME NEW kind \in {"page", "login", "logout"}, Send(t, kind)
        PROVE  SessionTypes'
    <3>1. requests' \in [{"api", "web"} -> Nat]
      BY <2>1, SpendKeeps DEF Send, SessionTypes
    <3> QED BY <2>1, <3>1 DEF Send, SessionTypes
  <2>2. Idle \in [kind : {"none", "page", "login", "logout"},
                  sent : MaybeIssued(now), older : BOOLEAN]
    BY DEF Idle, MaybeIssued
  <2>3. CASE AnswerPage(t)
    BY <2>2, <2>3 DEF AnswerPage, Received, SessionTypes
  <2>4. Overtaken(t) \in [Tab -> [kind : {"none", "page", "login", "logout"},
                                  sent : MaybeIssued(now), older : BOOLEAN]]
    BY <2>2 DEF Overtaken, SessionTypes
  <2>5. CASE AnswerLogin(t)
    <3>1. PICK u \in User :
            LET new == Issue(u, Ttl)
            IN  Give(t, new) /\ cookie' = new /\ expected' = new
      BY <2>5 DEF AnswerLogin
    <3>2. Issue(u, Ttl) \in MaybeIssued(now)
      BY IssueIsIssued DEF MaybeIssued
    <3> QED BY <2>4, <2>5, <3>1, <3>2 DEF AnswerLogin, Give, SessionTypes
  <2>6. CASE AnswerLogout(t)
    BY <2>4, <2>6 DEF AnswerLogout, Cleared, SessionTypes, MaybeIssued
  <2>7. CASE AnswerNothing(t)
    BY <2>2, <2>7 DEF AnswerNothing, Received, SessionTypes
  <2> QED BY <1>6, <2>1, <2>3, <2>5, <2>6, <2>7
<1> QED BY <1>1, <1>2, <1>3, <1>4, <1>5, <1>6
        DEF Next, Begin, Advance, Quiesce, Use, vars

\* Every step keeps the revocations in line with the logouts.
LEMMA RevocationStep ==
  SessionTypes /\ RevocationInv /\ [Next]_vars => RevocationInv'
<1> SUFFICES ASSUME SessionTypes, RevocationInv, [Next]_vars
             PROVE  RevocationInv'
  OBVIOUS
<1> USE SessionsAssumption
<1>1. CASE UNCHANGED <<token, revoked, restarts, out>>
  BY <1>1 DEF RevocationInv
<1>2. ASSUME NEW p \in Process, Crash(p)
      PROVE  RevocationInv'
  <2>1. /\ revoked' = [revoked EXCEPT ![p] = {}]
        /\ restarts' = [restarts EXCEPT ![p] = @ + 1]
        /\ token' = token /\ out' = out
    BY <1>2 DEF Crash, Forget
  <2>2. restarts \in [Process -> Nat] /\ revoked \in [Process -> SUBSET Issued(now)]
    BY DEF SessionTypes
  <2>3. \A q \in Process : restarts[q] \in Nat /\ restarts'[q] \in Nat
    BY <2>1, <2>2
  <2>4. ASSUME NEW c \in Client
        PROVE  /\ \A q \in Process, n \in Nat : <<q, n>> \in out[c] => n <= restarts'[q]
               /\ <<p, restarts'[p]>> \notin out[c]
    BY <2>1, <2>2, <2>3 DEF RevocationInv
  <2>5. \A q \in Process \ {p} : restarts'[q] = restarts[q] /\ revoked'[q] = revoked[q]
    BY <2>1, <2>2
  <2>6. revoked'[p] = {}
    BY <2>1, <2>2
  <2> QED BY <2>1, <2>4, <2>5, <2>6 DEF RevocationInv
<1>3. ASSUME NEW c \in Client, NEW t, Give(c, t), out[c] = {},
             UNCHANGED <<revoked, restarts>>
      PROVE  RevocationInv'
  <2>1. /\ out'[c] = {}
        /\ \A d \in Client \ {c} : out'[d] = out[d] /\ token'[d] = token[d]
    BY <1>3 DEF Give, SessionTypes
  <2>2. ASSUME NEW p \in Process, NEW x \in revoked[p]
        PROVE  \E d \in Client : <<p, restarts[p]>> \in out'[d] /\ token'[d] = x
    <3>1. PICK d \in Client : <<p, restarts[p]>> \in out[d] /\ token[d] = x
      BY DEF RevocationInv
    <3> QED BY <1>3, <2>1, <3>1
  <2> QED BY <1>3, <2>1, <2>2 DEF RevocationInv
<1>4. ASSUME NEW c \in Client, NEW p \in Process, Logout(c, p)
      PROVE  RevocationInv'
  <2>1. /\ c \notin Tab /\ token[c] # NoToken
        /\ token' = token /\ restarts' = restarts
        /\ revoked'[p] = revoked[p] \cup {token[c]}
        /\ \A q \in Process \ {p} : revoked'[q] = revoked[q]
        /\ out'[c] = out[c] \cup {<<p, restarts[p]>>}
        /\ \A d \in Client \ {c} : out'[d] = out[d]
    BY <1>4 DEF Logout, Revoke, SessionTypes
  <2>2. restarts[p] \in Nat
    BY DEF SessionTypes
  <2>3. ASSUME NEW d \in Client
        PROVE  /\ d \in Tab \/ token'[d] = NoToken => out'[d] = {}
               /\ \A q \in Process, n \in Nat : <<q, n>> \in out'[d] => n <= restarts'[q]
               /\ \A q \in Process : <<q, restarts'[q]>> \in out'[d] => token'[d] \in revoked'[q]
    <3>1. CASE d = c
      BY <2>1, <2>2, <3>1 DEF RevocationInv
    <3>2. CASE d # c
      BY <2>1, <3>2 DEF RevocationInv
    <3> QED BY <3>1, <3>2
  <2>4. ASSUME NEW q \in Process, NEW x \in revoked'[q]
        PROVE  \E d \in Client : <<q, restarts'[q]>> \in out'[d] /\ token'[d] = x
    <3>1. CASE x \in revoked[q]
      <4>1. PICK d \in Client : <<q, restarts[q]>> \in out[d] /\ token[d] = x
        BY <3>1 DEF RevocationInv
      <4> QED BY <2>1, <4>1
    <3>2. CASE x \notin revoked[q]
      BY <2>1, <3>2
    <3> QED BY <3>1, <3>2
  <2> QED BY <2>3, <2>4 DEF RevocationInv
<1>5. ASSUME NEW c \in Client, Login(c)
      PROVE  RevocationInv'
  BY <1>3, <1>5 DEF Login, RevocationInv
<1>6. ASSUME NEW t \in Tab, AnswerLogin(t)
      PROVE  RevocationInv'
  BY <1>3, <1>6 DEF AnswerLogin, RevocationInv
<1> QED BY <1>1, <1>2, <1>4, <1>5, <1>6
        DEF Next, Begin, Advance, Quiesce, Use, vars, sessions, Tick, Send,
            AnswerPage, AnswerLogout, AnswerNothing

LEMMA Revocation == Spec => [](SessionTypes /\ RevocationInv)
<1>1. Init => RevocationInv
  BY DEF Init, SessionsInit, RevocationInv
<1> QED BY <1>1, SessionTypesInit, SessionTypesStep, RevocationStep, PTL DEF Spec

\* Every step keeps the cookie in line with the requests that are not older.
LEMMA CookieStep == SessionTypes /\ CookieInv /\ [Next]_vars => CookieInv'
<1> SUFFICES ASSUME SessionTypes, CookieInv, [Next]_vars
             PROVE  CookieInv'
  OBVIOUS
<1>1. CASE UNCHANGED browser
  BY <1>1 DEF CookieInv, browser
<1>2. ASSUME NEW t \in Tab, NEW kind \in {"page", "login", "logout"}, Send(t, kind)
      PROVE  CookieInv'
  BY <1>2 DEF Send, CookieInv, SessionTypes
<1>3. ASSUME NEW t \in Tab, AnswerPage(t)
      PROVE  CookieInv'
  <2>1. tab[t] # Idle
    BY <1>3 DEF AnswerPage, Idle
  <2>2. ~disturbed' => ~disturbed /\ cookie' = cookie
    BY <1>3, <2>1 DEF AnswerPage, CookieInv
  <2>3. \A u \in Tab : tab'[u] # Idle => tab'[u] = tab[u]
    BY <1>3 DEF AnswerPage, Received, SessionTypes
  <2> QED BY <1>3, <2>2, <2>3 DEF AnswerPage, CookieInv
<1>4. ASSUME NEW t \in Tab
      PROVE  \A u \in Tab : Overtaken(t)[u] # Idle => Overtaken(t)[u].older
  BY DEF Overtaken, SessionTypes
<1>5. ASSUME NEW t \in Tab, AnswerLogin(t)
      PROVE  CookieInv'
  BY <1>4, <1>5 DEF AnswerLogin, CookieInv
<1>6. ASSUME NEW t \in Tab, AnswerLogout(t)
      PROVE  CookieInv'
  <2>1. tab[t] # Idle
    BY <1>6 DEF AnswerLogout, Idle
  <2>2. ~disturbed' => cookie' = NoToken /\ expected' = NoToken
    BY <1>6, <2>1 DEF AnswerLogout, Cleared, CookieInv
  <2> QED BY <1>4, <1>6, <2>2 DEF AnswerLogout, CookieInv
<1>7. ASSUME NEW t \in Tab, AnswerNothing(t)
      PROVE  CookieInv'
  <2>1. \A u \in Tab : tab'[u] # Idle => tab'[u] = tab[u]
    BY <1>7 DEF AnswerNothing, Received, SessionTypes
  <2> QED BY <1>7, <2>1 DEF AnswerNothing, CookieInv
<1> QED BY <1>1, <1>2, <1>3, <1>5, <1>6, <1>7
        DEF Next, Begin, Advance, Crash, Forget, Quiesce, Use, vars, sessions, browser,
            Tick, Login, Logout

-----------------------------------------------------------------------------
\* The state has its types whatever the processes and the clients do.
THEOREM TypeCorrect == Spec => []TypeOK
<1>1. PreparationInv /\ SessionTypes => TypeOK
  <2> SUFFICES ASSUME PreparationInv, SessionTypes
               PROVE  TypeOK
    OBVIOUS
  <2>1. schema \subseteq SchemaAt(Head)
    BY SchemaGrows DEF PreparationInv, SchemaIsRevision
  <2>2. ((UNION {revoked[p] : p \in Process}) \cup {token[c] : c \in Client}
           \cup {cookie, expected}) \ {NoToken} \subseteq Issued(now)
    BY DEF SessionTypes, MaybeIssued
  <2>3. ASSUME NEW t \in Issued(now)
        PROVE  /\ t.user \in User /\ t.iat \in 0 .. now
               /\ t.exp \in {t.iat + Ttl, t.iat + ResetTtl, Never}
    BY DEF Issued
  <2> QED BY <2>1, <2>2, <2>3 DEF PreparationInv, SessionTypes, TypeOK
<1> QED BY <1>1, Preparation, Revocation, PTL

\* LogoutUser: what a process logged out stays refused there until the process
\* restarts.
THEOREM LogoutStands == Spec => []LogoutHolds
<1>1. RevocationInv => LogoutHolds
  BY DEF RevocationInv, LogoutHolds, Accepts
<1> QED BY <1>1, Revocation, PTL

\* A token that is refused has expired, or it or one of the same text was
\* logged out at that process.
THEOREM RefusedForAReason == Spec => []SessionsEndForAReason
<1>1. SessionTypes /\ RevocationInv => SessionsEndForAReason
  BY DEF SessionTypes, MaybeIssued, RevocationInv, SessionsEndForAReason, Accepts
<1> QED BY <1>1, Revocation, PTL

\* The web tier: only an answer to an older request can leave the browser with
\* another session than its last login or logout did.
THEOREM CookieIsLastAnswer == Spec => []CookieFollowsLastAnswer
<1>1. Init => CookieInv
  BY DEF Init, SessionsInit, CookieInv
<1>2. CookieInv => CookieFollowsLastAnswer
  BY DEF CookieInv, CookieFollowsLastAnswer
<1> QED BY <1>1, <1>2, SessionTypesInit, SessionTypesStep, CookieStep, PTL DEF Spec
=============================================================================
