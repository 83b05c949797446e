------------------------------ MODULE Startup ------------------------------
(***************************************************************************)
(* How API processes prepare a database they share: the migrations of      *)
(* database/migrations, applied in one transaction by run_alembic_upgrade, *)
(* then the seed of database/seeding/seed.py in a second one, when         *)
(* scripts/api_entrypoint.sh starts and again in the lifespan of           *)
(* presentation/main.py.  The schema is a set of <<table, column>>.        *)
(***************************************************************************)
EXTENDS Naturals

CONSTANTS Process,        \* API processes
          SeedOnStartup,  \* Settings.seed_on_startup
          Deployments     \* [revision, phase, boots, requests]: the starts

-----------------------------------------------------------------------------
(* The revisions, oldest first: the columns that each upgrade() creates.   *)

Table(name, columns) == {name} \X columns

phase1b_baseline_schema ==
  Table("stores", {"id", "public_id", "name", "owner_user_id"})
  \cup Table("users", {"id", "email", "password_hash", "role", "full_name", "store_id"})
  \cup Table("products",
             {"id", "store_id", "name", "description", "price_cents", "is_active"})
  \cup Table("orders",
             {"id", "store_id", "customer_user_id", "status", "customer_email",
              "customer_full_name", "shipping_address"})
  \cup Table("order_lines",
             {"id", "order_id", "product_id", "quantity", "unit_price_cents"})
iter02_audit_events ==
  Table("audit_events", {"id", "actor_user_id", "action", "resource_type",
                         "resource_id", "outcome", "detail", "created_at"})
iter03_theme_and_receipts ==
  Table("store_themes", {"id", "store_id", "artifact_bytes", "content_type"})
  \cup Table("order_receipts", {"id", "order_id", "payload_blob"})
iter04_password_reset == Table("password_reset_tokens", {"id", "user_id", "token"})
iter05_credits_coupons_stock ==
  Table("products", {"stock_quantity"})
  \cup Table("customer_credits", {"id", "user_id", "balance_cents"})
  \cup Table("coupons", {"id", "store_id", "code", "discount_percent", "is_active"})
  \cup Table("coupon_redemptions", {"id", "coupon_id", "user_id", "order_id"})
iter06_order_notes == Table("orders", {"notes"})

\* Mutant of iter07_customer_phone_pii: the revision was forgotten.
iter07_empty == {}
iter07_customer_phone_pii == Table("orders", {"customer_phone"})

Creates == <<phase1b_baseline_schema, iter02_audit_events,
             iter03_theme_and_receipts, iter04_password_reset,
             iter05_credits_coupons_stock, iter06_order_notes,
             iter07_customer_phone_pii>>
Head == 7
SchemaAt(n) == UNION {Creates[i] : i \in 1 .. n}

(* What the ORM maps: every query of the program names these columns.      *)

UserModel ==
  Table("users", {"id", "email", "password_hash", "role", "full_name", "store_id"})
StoreModel == Table("stores", {"id", "public_id", "name", "owner_user_id"})
ProductModel ==
  Table("products", {"id", "store_id", "name", "description", "price_cents",
                     "is_active", "stock_quantity"})
OrderModel ==
  Table("orders", {"id", "store_id", "customer_user_id", "status", "customer_email",
                   "customer_full_name", "shipping_address", "customer_phone", "notes"})
OrderLineModel ==
  Table("order_lines", {"id", "order_id", "product_id", "quantity", "unit_price_cents"})
AuditEventModel ==
  Table("audit_events", {"id", "actor_user_id", "action", "resource_type",
                         "resource_id", "outcome", "detail", "created_at"})
StoreThemeModel ==
  Table("store_themes", {"id", "store_id", "artifact_bytes", "content_type"})
OrderReceiptModel == Table("order_receipts", {"id", "order_id", "payload_blob"})
PasswordResetTokenModel == Table("password_reset_tokens", {"id", "user_id", "token"})
CustomerCreditModel == Table("customer_credits", {"id", "user_id", "balance_cents"})
CouponModel ==
  Table("coupons", {"id", "store_id", "code", "discount_percent", "is_active"})
CouponRedemptionModel ==
  Table("coupon_redemptions", {"id", "coupon_id", "user_id", "order_id"})

Mapped ==
  UNION {UserModel, StoreModel, ProductModel, OrderModel, OrderLineModel,
         AuditEventModel, StoreThemeModel, OrderReceiptModel,
         PasswordResetTokenModel, CustomerCreditModel, CouponModel,
         CouponRedemptionModel}

(* What each flush of the seed writes: the admin and the delivery manager, *)
(* the stores, their owners and customers, who owns which, the products,   *)
(* and credits, coupons and orders of every status.                        *)
Flushes == <<"staff", "stores", "people", "owners", "products", "trade">>
Groups == DOMAIN Flushes

\* A deployment starts from nothing, or from what an earlier one left; a
\* process that already serves has prepared the database.
ASSUME DeploymentsAssumption ==
  \A d \in Deployments :
    /\ d.revision \in 0 .. Head /\ d.boots \in Nat
    /\ d.phase = "down" \/ (d.phase = "serving" /\ d.revision = Head)
    /\ d.requests \in [{"api", "web"} -> Nat]

-----------------------------------------------------------------------------
VARIABLES
  schema,    \* committed columns
  revision,  \* committed row of alembic_version, 0 if there is none
  copies,    \* [Groups -> Nat]: how often each group is committed
  phase,     \* [Process -> what it is doing]
  passes,    \* [Process -> how often it will yet run prepare_database]
  reached,   \* [Process -> revision in its transaction]
  altered,   \* [Process -> columns it has added, uncommitted and locked]
  groups,    \* [Process -> groups it has inserted, uncommitted]
  boots      \* how many more processes will be started

preparation == <<schema, revision, copies, phase, passes, reached, altered, groups, boots>>

StartupInit(d) ==
  /\ schema = SchemaAt(d.revision) /\ revision = d.revision
  /\ copies = [g \in Groups |-> IF d.revision = 0 THEN 0 ELSE 1]
  /\ phase = [p \in Process |-> d.phase]
  /\ passes = [p \in Process |-> 0]
  /\ reached = [p \in Process |-> 0]
  /\ altered = [p \in Process |-> {}]
  /\ groups = [p \in Process |-> 0]
  /\ boots = d.boots

Goto(p, label) == phase' = [phase EXCEPT ![p] = label]

\* The entrypoint prepares, and so does the lifespan of the server it then
\* starts; the command of the compose override is only the server.
Boot(p) ==
  /\ phase[p] = "down" /\ boots > 0
  /\ \E n \in 1 .. 2 : passes' = [passes EXCEPT ![p] = n]
  /\ boots' = boots - 1
  /\ Goto(p, "heads")
  /\ UNCHANGED <<schema, revision, copies, reached, altered, groups>>

\* An error or a crash ends the process; PostgreSQL rolls back.
Stop(p) ==
  /\ Goto(p, "down")
  /\ altered' = [altered EXCEPT ![p] = {}]
  /\ groups' = [groups EXCEPT ![p] = 0]
  /\ UNCHANGED <<schema, revision, copies, passes, reached, boots>>

ReadHeads(p) ==
  /\ phase[p] = "heads"
  /\ reached' = [reached EXCEPT ![p] = revision]
  /\ Goto(p, "upgrading")
  /\ UNCHANGED <<schema, revision, copies, passes, altered, groups, boots>>

\* Mutants of Altering: a revision names the wrong predecessor; every statement
\* commits, as where DDL is not transactional.
AlteringSkipping(p, columns) ==
  /\ altered' = [altered EXCEPT ![p] = @ \cup columns]
  /\ reached' = [reached EXCEPT ![p] = @ + 2]
  /\ UNCHANGED <<schema, revision, copies, phase, passes, groups, boots>>
AlteringAtOnce(p, columns) ==
  /\ schema' = schema \cup columns
  /\ reached' = [reached EXCEPT ![p] = @ + 1]
  /\ UNCHANGED <<revision, copies, phase, passes, altered, groups, boots>>
Altering(p, columns) ==
  /\ altered' = [altered EXCEPT ![p] = @ \cup columns]
  /\ reached' = [reached EXCEPT ![p] = @ + 1]
  /\ UNCHANGED <<schema, revision, copies, phase, passes, groups, boots>>

\* The next revision: wait for who is creating the same, fail if it is there.
ApplyRevision(p) ==
  /\ phase[p] = "upgrading" /\ reached[p] < Head
  /\ LET columns == Creates[reached[p] + 1]
     IN  /\ \A q \in Process \ {p} : altered[q] \cap columns = {}
         /\ IF columns \cap schema = {} THEN Altering(p, columns) ELSE Stop(p)

\* One transaction for all revisions (env.py).
CommitUpgrade(p) ==
  /\ phase[p] = "upgrading" /\ reached[p] = Head
  /\ schema' = schema \cup altered[p]
  /\ revision' = Head
  /\ altered' = [altered EXCEPT ![p] = {}]
  /\ Goto(p, "checking")
  /\ UNCHANGED <<copies, passes, reached, groups, boots>>

\* Mutant of Prepared: the server is never started.
PreparedAgain(p) == Goto(p, "heads") /\ UNCHANGED passes

\* prepare_database returns.
Prepared(p) ==
  IF passes[p] = 2
  THEN Goto(p, "heads") /\ passes' = [passes EXCEPT ![p] = 1]
  ELSE Goto(p, "serving") /\ passes' = [passes EXCEPT ![p] = 0]

\* run_seed_if_enabled and the SELECT of the admin in seed_database.
SeedCheck(p) ==
  /\ phase[p] = "checking"
  /\ IF ~SeedOnStartup \/ copies[1] > 0 THEN Prepared(p)
     ELSE Goto(p, "seeding") /\ UNCHANGED passes
  /\ UNCHANGED <<schema, revision, copies, reached, altered, groups, boots>>

\* Mutant of Seeded: every group is committed.
SeededAtOnce(p) ==
  /\ copies' = [copies EXCEPT ![groups[p] + 1] = @ + 1]
  /\ groups' = [groups EXCEPT ![p] = @ + 1]
  /\ UNCHANGED <<schema, revision, phase, passes, reached, altered, boots>>
Seeded(p) ==
  /\ groups' = [groups EXCEPT ![p] = @ + 1]
  /\ UNCHANGED <<schema, revision, copies, phase, passes, reached, altered, boots>>

\* session.flush() of the next group.  The e-mail of the admin is unique: wait
\* for who is inserting it, fail if it is there.
SeedGroup(p) ==
  /\ phase[p] = "seeding" /\ groups[p] + 1 \in Groups
  /\ groups[p] = 0 => \A q \in Process \ {p} : groups[q] = 0
  /\ IF groups[p] = 0 /\ copies[1] > 0 THEN Stop(p) ELSE Seeded(p)

CommitSeed(p) ==
  /\ phase[p] = "seeding" /\ groups[p] + 1 \notin Groups
  /\ copies' = [g \in Groups |-> copies[g] + 1]
  /\ groups' = [groups EXCEPT ![p] = 0]
  /\ Prepared(p)
  /\ UNCHANGED <<schema, revision, reached, altered, boots>>

Prepare(p) ==
  \/ ReadHeads(p) \/ ApplyRevision(p) \/ CommitUpgrade(p)
  \/ SeedCheck(p) \/ SeedGroup(p) \/ CommitSeed(p)
=============================================================================
