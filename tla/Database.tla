------------------------------ MODULE Database ------------------------------
(***************************************************************************)
(* The rows that several requests may update at once, as PostgreSQL keeps  *)
(* them for the sessions of infrastructure/persistence/database.py: the    *)
(* default READ COMMITTED isolation, one transaction per HTTP request      *)
(* (get_session of presentation/dependencies.py), and a row lock taken by  *)
(* the first UPDATE or INSERT of a row and held until the request commits  *)
(* or rolls back.                                                          *)
(*                                                                         *)
(* A Key is the identity of a row: a primary key, or the unique columns of *)
(* a row that need not exist yet (NoRow).  Because a written row is locked *)
(* there is at most one uncommitted version of it, "latest".               *)
(***************************************************************************)

CONSTANTS Request,   \* HTTP requests, each the owner of one transaction
          Key,       \* identities of the rows
          NoRow,     \* the value of a row that does not exist
          Nobody     \* the writer of a row that is not locked

ASSUME NobodyAssumption == Nobody \notin Request

VARIABLES row,       \* [Key -> value]: the committed version of each row
          latest,    \* [Key -> value]: the newest version, committed or not
          writer     \* [Key -> Request \cup {Nobody}]: who holds the row lock

dbvars == <<row, latest, writer>>

IsTable(t) == t = [k \in Key |-> t[k]]

DatabaseInit(initial) ==
  /\ row = initial
  /\ latest = initial
  /\ writer = [k \in Key |-> Nobody]

\* What a SELECT of r returns: its own uncommitted version, else what is
\* committed at the time of the statement.
Visible(r, k) == IF writer[k] = r THEN latest[k] ELSE row[k]

\* r need not wait for the lock of row k.
Lockable(r, k) == writer[k] \in {r, Nobody}

\* An UPDATE or INSERT that got the lock of row k.
Put(r, k, value) ==
  /\ latest' = [latest EXCEPT ![k] = value]
  /\ writer' = [writer EXCEPT ![k] = r]
  /\ UNCHANGED row

\* One statement that deletes several rows, all of which it could lock.
Remove(r, keys) ==
  /\ latest' = [k \in Key |-> IF k \in keys THEN NoRow ELSE latest[k]]
  /\ writer' = [k \in Key |-> IF k \in keys THEN r ELSE writer[k]]
  /\ UNCHANGED row

Unlocked(r) == [k \in Key |-> IF writer[k] = r THEN Nobody ELSE writer[k]]

\* session.commit(): the versions r wrote become visible to every request.
Publish(r) ==
  /\ row' = [k \in Key |-> Visible(r, k)]
  /\ writer' = Unlocked(r)
  /\ UNCHANGED latest

\* Mutants of Discard: rows written by a request that failed are published;
\* and their versions stay behind.
DiscardPublishing(r) ==
  /\ row' = [k \in Key |-> Visible(r, k)]
  /\ writer' = Unlocked(r)
  /\ UNCHANGED latest
DiscardIncomplete(r) ==
  /\ writer' = Unlocked(r)
  /\ UNCHANGED <<row, latest>>

\* session.rollback(): the versions r wrote are gone.
Discard(r) ==
  /\ latest' = [k \in Key |-> IF writer[k] = r THEN row[k] ELSE latest[k]]
  /\ writer' = Unlocked(r)
  /\ UNCHANGED row

\* PostgreSQL's deadlock check, where waits[q] is the request that holds the
\* lock q waits for (Nobody if q does not wait).  The waits of the members of
\* S permute S exactly if S is a union of cycles.
InCycle(r, waits) ==
  \E S \in SUBSET Request : r \in S /\ {waits[q] : q \in S} = S
=============================================================================
