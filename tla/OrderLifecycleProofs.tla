------------------------ MODULE OrderLifecycleProofs ------------------------
(***************************************************************************)
(* What OrderLifecycle keeps, for every number of threads, orders, users   *)
(* and bodies.  The lock invariant says what an uncommitted version is: the *)
(* committed row with the update of the thread that locked it, which is    *)
(* about to commit.  From it follow the types, the independence of the     *)
(* columns, and, with the table of transitions, how statuses are reached.  *)
(***************************************************************************)
EXTENDS OrderLifecycle, TLAPS

Passed == {"select", "update", "commit"}

LockInv ==
  \A o \in Key :
    /\ writer[o] = Nobody => latest[o] = row[o]
    /\ \A r \in Request :
         writer[o] = r =>
           /\ pc[r] = "commit"
           /\ job[r].order = o
           /\ latest[o] = WithUpdate(r, row[o])

\* s is a status that o has had, or is allowed from one.
Backed(o, s) ==
  \/ s \in past[o]
  \/ \E t \in past[o] : s \in ALLOWED_ORDER_STATUS_TRANSITIONS[t]

BackedInv ==
  \A r \in Request :
    pc[r] \in Passed /\ job[r].op = "status" => Backed(job[r].order, job[r].target)

FreshInv ==
  \A r \in Request :
    pc[r] \in Passed /\ job[r].op = "status" /\ ~stale[r] =>
      is_allowed_order_status_transition(row[job[r].order].status, job[r].target)

IInv == TypeOK /\ LockInv /\ StatusesAreReached /\ BackedInv /\ FreshInv

LEMMA BodyTypes ==
  ASSUME TypeOK, NEW r \in Request, pc[r] # "idle"
  PROVE  /\ job[r].order \in Key
         /\ \/ job[r].op = "status" /\ job[r].target \in Status
            \/ job[r].op = "notes" /\ job[r].target \in Note
<1>1. job[r] \in Update
  BY LifecycleAssumption DEF TypeOK
<1> QED BY <1>1 DEF Update

LEMMA UpdateTypes ==
  ASSUME TypeOK, NEW r \in Request, pc[r] # "idle", NEW base \in OrderRow
  PROVE  /\ WithUpdate(r, base) \in OrderRow
         /\ job[r].op = "status" =>
              /\ WithUpdate(r, base).status = job[r].target
              /\ WithUpdate(r, base).notes = base.notes
         /\ job[r].op = "notes" => WithUpdate(r, base).status = base.status
<1>1. CASE job[r].op = "status"
  BY <1>1, BodyTypes DEF WithUpdate, OrderRow
<1>2. CASE job[r].op = "notes"
  BY <1>2, BodyTypes DEF WithUpdate, OrderRow
<1> QED BY <1>1, <1>2, BodyTypes

LEMMA InitInv == Init => IInv
<1> SUFFICES ASSUME Init PROVE IInv
  OBVIOUS
<1>1. TypeOK
  BY LifecycleAssumption DEF Init, DatabaseInit, TypeOK, OrderRow, Status
<1>2. LockInv
  BY NobodyAssumption DEF Init, DatabaseInit, LockInv
<1>3. StatusesAreReached
  BY DEF Init, DatabaseInit, StatusesAreReached
<1>4. BackedInv /\ FreshInv
  BY DEF Init, BackedInv, FreshInv, Passed
<1> QED BY <1>1, <1>2, <1>3, <1>4 DEF IInv

\* A thread that is not about to commit sees the committed row.
LEMMA SeesCommitted ==
  ASSUME IInv, NEW r \in Request, pc[r] # "commit", NEW o \in Key
  PROVE  Visible(r, o) = row[o]
BY DEF IInv, LockInv, Visible

LEMMA BeginInv ==
  ASSUME IInv, NEW r \in Request, Begin(r)
  PROVE  IInv'
<1>1. /\ pc[r] = "idle" /\ pc'[r] = "read"
      /\ UNCHANGED <<row, latest, writer, past, stale>>
      /\ \A q \in Request \ {r} : pc'[q] = pc[q] /\ job'[q] = job[q]
  BY DEF Begin, Goto, IInv, TypeOK
<1>2. TypeOK'
  BY <1>1, LifecycleAssumption DEF Begin, Goto, IInv, TypeOK
<1>3. LockInv'
  <2>1. \A k \in Key : writer[k] # r
    BY <1>1 DEF IInv, LockInv
  <2>2. \A q \in Request \ {r}, k \in Key : WithUpdate(q, row[k])' = WithUpdate(q, row[k])
    BY <1>1 DEF WithUpdate
  <2> QED BY <1>1, <2>1, <2>2 DEF IInv, LockInv
<1>4. StatusesAreReached'
  BY <1>1 DEF IInv, StatusesAreReached
<1>5. BackedInv' /\ FreshInv'
  BY <1>1 DEF IInv, BackedInv, Backed, FreshInv, Passed
<1> QED BY <1>2, <1>3, <1>4, <1>5 DEF IInv

LEMMA ReadInv ==
  ASSUME IInv, NEW r \in Request, Read(r)
  PROVE  IInv'
<1>1. /\ pc[r] = "read" /\ pc'[r] = "select" /\ stale'[r] = FALSE
      /\ UNCHANGED <<row, latest, writer, job, past>>
      /\ \A q \in Request \ {r} : pc'[q] = pc[q] /\ stale'[q] = stale[q]
  BY DEF Read, Goto, IInv, TypeOK
<1>2. TypeOK'
  BY <1>1 DEF Read, Goto, IInv, TypeOK
<1>3. LockInv'
  BY <1>1 DEF IInv, LockInv, WithUpdate
<1>4. StatusesAreReached'
  BY <1>1 DEF IInv, StatusesAreReached
<1>5. job[r].order \in Key /\ Visible(r, job[r].order) = row[job[r].order]
  BY <1>1, BodyTypes, SeesCommitted DEF IInv
<1>6. job[r].op = "status" =>
        is_allowed_order_status_transition(row[job[r].order].status, job[r].target)
  BY <1>5 DEF Read, Resolved
<1>7. job[r].op = "status" => Backed(job[r].order, job[r].target)
  BY <1>5, <1>6 DEF is_allowed_order_status_transition, Backed, IInv, StatusesAreReached
<1>8. BackedInv' /\ FreshInv'
  BY <1>1, <1>6, <1>7 DEF IInv, BackedInv, Backed, FreshInv, Passed
<1> QED BY <1>2, <1>3, <1>4, <1>8 DEF IInv

LEMMA SelectInv ==
  ASSUME IInv, NEW r \in Request, Select(r)
  PROVE  IInv'
<1>1. /\ pc[r] = "select" /\ pc'[r] \in {"update", "commit"}
      /\ UNCHANGED <<row, latest, writer, job, past, stale>>
      /\ \A q \in Request \ {r} : pc'[q] = pc[q]
  BY DEF Select, Goto, IInv, TypeOK
<1>2. TypeOK'
  BY <1>1 DEF Select, Goto, IInv, TypeOK
<1>3. LockInv'
  BY <1>1 DEF IInv, LockInv, WithUpdate
<1>4. StatusesAreReached'
  BY <1>1 DEF IInv, StatusesAreReached
<1>5. BackedInv' /\ FreshInv'
  BY <1>1 DEF IInv, BackedInv, Backed, FreshInv, Passed
<1> QED BY <1>2, <1>3, <1>4, <1>5 DEF IInv

LEMMA UpdateRowInv ==
  ASSUME IInv, NEW r \in Request, UpdateRow(r)
  PROVE  IInv'
<1> DEFINE o == job[r].order
<1>1. /\ pc[r] = "update" /\ pc'[r] = "commit" /\ o \in Key
      /\ UNCHANGED <<row, job, past, stale>>
      /\ \A q \in Request \ {r} : pc'[q] = pc[q]
      /\ Lockable(r, o) /\ Put(r, o, WithUpdate(r, latest[o]))
  BY BodyTypes DEF UpdateRow, Put, Goto, IInv, TypeOK
<1>2. writer[o] = Nobody /\ latest[o] = row[o]
  BY <1>1 DEF Lockable, IInv, LockInv
<1>3. /\ latest'[o] = WithUpdate(r, row[o]) /\ writer'[o] = r
      /\ \A k \in Key \ {o} : latest'[k] = latest[k] /\ writer'[k] = writer[k]
  BY <1>1, <1>2 DEF Put, IInv, TypeOK
<1>4. TypeOK'
  <2>1. WithUpdate(r, latest[o]) \in OrderRow
    BY <1>1, UpdateTypes DEF IInv, TypeOK
  <2> QED BY <1>1, <2>1 DEF UpdateRow, Put, Goto, IInv, TypeOK
<1>5. LockInv'
  BY <1>1, <1>2, <1>3, NobodyAssumption DEF IInv, LockInv, WithUpdate
<1>6. StatusesAreReached'
  BY <1>1 DEF IInv, StatusesAreReached
<1>7. BackedInv' /\ FreshInv'
  BY <1>1 DEF IInv, BackedInv, Backed, FreshInv, Passed
<1> QED BY <1>4, <1>5, <1>6, <1>7 DEF IInv

\* What a commit makes of the rows.
LEMMA Committing ==
  ASSUME IInv, NEW r \in Request, Commit(r)
  PROVE  /\ job[r].order \in Key
         /\ row'[job[r].order] \in {row[job[r].order], WithUpdate(r, row[job[r].order])}
         /\ row'[job[r].order] = Visible(r, job[r].order)
         /\ \A k \in Key \ {job[r].order} : row'[k] = row[k]
<1>1. pc[r] = "commit" /\ job[r].order \in Key
  BY BodyTypes DEF Commit, IInv
<1> QED BY <1>1 DEF Commit, Publish, Visible, IInv, LockInv

LEMMA CommitInv ==
  ASSUME IInv, NEW r \in Request, Commit(r)
  PROVE  IInv'
<1> DEFINE o == job[r].order
           new == row'[o]
<1>1. /\ pc[r] = "commit" /\ pc'[r] = "idle" /\ o \in Key /\ r # Nobody
      /\ \A q \in Request \ {r} : pc'[q] = pc[q] /\ job'[q] = job[q]
      /\ latest' = latest /\ writer' = Unlocked(r)
      /\ past' = [past EXCEPT ![o] = @ \cup {new.status}]
      /\ \A k \in Key : row'[k] = Visible(r, k)
  BY BodyTypes, NobodyAssumption DEF Commit, Publish, Finish, Goto, IInv, TypeOK
<1>2. /\ new \in {row[o], WithUpdate(r, row[o])}
      /\ \A k \in Key \ {o} : row'[k] = row[k]
  BY Committing
<1>3. new \in OrderRow
  BY <1>1, <1>2, UpdateTypes DEF IInv, TypeOK
<1>4. \A q \in Request \ {r} :
        stale'[q] = (\/ stale[q]
                     \/ q \in InFlight /\ job[q].order = o /\ new.status # row[o].status)
  BY <1>1 DEF Commit
<1>5. Backed(o, new.status)
  <2>1. CASE new = row[o]
    BY <1>1, <2>1 DEF Backed, IInv, StatusesAreReached
  <2>2. CASE new = WithUpdate(r, row[o])
    <3>1. row[o] \in OrderRow
      BY <1>1 DEF IInv, TypeOK
    <3>2. new.status = row[o].status \/ (job[r].op = "status" /\ new.status = job[r].target)
      BY <1>1, <2>2, <3>1, UpdateTypes, BodyTypes DEF IInv
    <3> QED BY <1>1, <3>2 DEF Backed, IInv, StatusesAreReached, BackedInv, Passed
  <2> QED BY <1>2, <2>1, <2>2
<1>6. TypeOK'
  <2>1. row' \in [Key -> OrderRow]
    <3>1. row' = [k \in Key |-> Visible(r, k)]
      BY DEF Commit, Publish
    <3> QED BY <3>1 DEF Visible, IInv, TypeOK
  <2>2. past' \in [Key -> SUBSET Status]
    BY <1>1, <1>3 DEF IInv, TypeOK, OrderRow
  <2>3. stale' \in [Request -> BOOLEAN]
    BY DEF Commit, IInv, TypeOK
  <2> QED
    BY <1>1, <2>1, <2>2, <2>3 DEF Commit, Finish, Goto, Unlocked, IInv, TypeOK
<1>7. LockInv'
  <2>1. \A k \in Key : writer[k] = r => writer'[k] = Nobody /\ row'[k] = latest[k]
    BY <1>1 DEF Unlocked, Visible
  <2>2. \A k \in Key : writer[k] # r => writer'[k] = writer[k] /\ row'[k] = row[k]
    BY <1>1 DEF Unlocked, Visible
  <2>3. \A q \in Request \ {r}, k \in Key :
          row'[k] = row[k] => WithUpdate(q, row[k])' = WithUpdate(q, row[k])
    BY <1>1 DEF WithUpdate
  <2> SUFFICES ASSUME NEW k \in Key
               PROVE  /\ writer'[k] = Nobody => latest'[k] = row'[k]
                      /\ \A q \in Request :
                           writer'[k] = q =>
                             /\ pc'[q] = "commit"
                             /\ job'[q].order = k
                             /\ latest'[k] = WithUpdate(q, row[k])'
    BY DEF LockInv
  <2>4. CASE writer[k] = r
    BY <1>1, <2>1, <2>4, NobodyAssumption
  <2>5. CASE writer[k] # r
    BY <1>1, <2>2, <2>3, <2>5 DEF IInv, LockInv
  <2> QED BY <2>4, <2>5
<1>8. StatusesAreReached'
  <2>1. \A k \in Key \ {o} : past'[k] = past[k] /\ row'[k] = row[k]
    BY <1>1, <1>2 DEF IInv, TypeOK
  <2>2. past'[o] = past[o] \cup {new.status}
    BY <1>1 DEF IInv, TypeOK
  <2> HIDE DEF new
  <2>3. \A s \in past'[o] \ {"pending"} :
          \E t \in past'[o] : s \in ALLOWED_ORDER_STATUS_TRANSITIONS[t]
    BY <1>1, <1>5, <2>2 DEF Backed, IInv, StatusesAreReached
  <2> USE DEF new
  <2> QED BY <1>1, <2>1, <2>2, <2>3 DEF IInv, StatusesAreReached
<1>9. BackedInv'
  <2>1. \A k \in Key : past[k] \subseteq past'[k]
    BY <1>1 DEF IInv, TypeOK
  <2>2. ASSUME NEW q \in Request \ {r}, pc[q] \in Passed
        PROVE  job[q].order \in Key
    BY <2>2, BodyTypes DEF Passed, IInv
  <2> QED BY <1>1, <2>1, <2>2 DEF IInv, BackedInv, Backed, Passed
<1>10. FreshInv'
  <2> SUFFICES ASSUME NEW q \in Request, pc'[q] \in Passed, job'[q].op = "status", ~stale'[q]
               PROVE  is_allowed_order_status_transition(
                        row'[job'[q].order].status, job'[q].target)
    BY DEF FreshInv
  <2>1. /\ q # r /\ pc[q] \in Passed /\ job'[q] = job[q] /\ ~stale[q]
        /\ q \in InFlight /\ job[q].order \in Key
    BY <1>1, <1>4, BodyTypes DEF Passed, InFlight, IInv
  <2>2. row'[job[q].order].status = row[job[q].order].status
    BY <1>2, <1>4, <2>1
  <2> QED BY <2>1, <2>2 DEF IInv, FreshInv
<1> QED BY <1>6, <1>7, <1>8, <1>9, <1>10 DEF IInv

LEMMA RollbackInv ==
  ASSUME IInv, NEW r \in Request, Rollback(r)
  PROVE  IInv'
<1>1. /\ pc'[r] = "idle" /\ r # Nobody /\ row' = row /\ past' = past
      /\ \A q \in Request \ {r} :
           pc'[q] = pc[q] /\ job'[q] = job[q] /\ stale'[q] = stale[q]
      /\ latest' = [k \in Key |-> IF writer[k] = r THEN row[k] ELSE latest[k]]
      /\ writer' = Unlocked(r)
  BY NobodyAssumption DEF Rollback, Discard, Finish, Goto, IInv, TypeOK
<1>2. TypeOK'
  BY <1>1 DEF Rollback, Finish, Goto, Unlocked, IInv, TypeOK
<1>3. LockInv'
  <2>1. \A k \in Key : writer[k] = r => writer'[k] = Nobody /\ latest'[k] = row[k]
    BY <1>1 DEF Unlocked
  <2>2. \A k \in Key : writer[k] # r => writer'[k] = writer[k] /\ latest'[k] = latest[k]
    BY <1>1 DEF Unlocked
  <2>3. \A q \in Request \ {r}, k \in Key :
          row'[k] = row[k] => WithUpdate(q, row[k])' = WithUpdate(q, row[k])
    BY <1>1 DEF WithUpdate
  <2> SUFFICES ASSUME NEW k \in Key
               PROVE  /\ writer'[k] = Nobody => latest'[k] = row'[k]
                      /\ \A q \in Request :
                           writer'[k] = q =>
                             /\ pc'[q] = "commit"
                             /\ job'[q].order = k
                             /\ latest'[k] = WithUpdate(q, row[k])'
    BY DEF LockInv
  <2>4. CASE writer[k] = r
    BY <1>1, <2>1, <2>4, NobodyAssumption
  <2>5. CASE writer[k] # r
    BY <1>1, <2>2, <2>3, <2>5 DEF IInv, LockInv
  <2> QED BY <2>4, <2>5
<1>4. StatusesAreReached'
  BY <1>1 DEF IInv, StatusesAreReached
<1>5. BackedInv' /\ FreshInv'
  BY <1>1 DEF IInv, BackedInv, Backed, FreshInv, Passed
<1> QED BY <1>2, <1>3, <1>4, <1>5 DEF IInv

LEMMA NextInv ==
  ASSUME IInv, [Next]_vars
  PROVE  IInv'
<1>1. ASSUME NEW r \in Request, Begin(r) \/ Step(r) \/ Fail(r)
      PROVE  IInv'
  BY <1>1, BeginInv, ReadInv, SelectInv, UpdateRowInv, CommitInv, RollbackInv
     DEF Step, Refuse, Fail
<1>2. CASE UNCHANGED vars
  BY <1>2 DEF vars, IInv, TypeOK, LockInv, WithUpdate, StatusesAreReached, BackedInv,
       Backed, FreshInv
<1> QED BY <1>1, <1>2 DEF Next

LEMMA Invariant == Spec => []IInv
<1> QED BY InitInv, NextInv, PTL DEF Spec

\* Every variable of the lifecycle keeps its type, and the threads that serve
\* a request know its body.
THEOREM TypeCorrect == Spec => []TypeOK
<1>1. IInv => TypeOK
  BY DEF IInv
<1> QED BY <1>1, Invariant, PTL

\* However updates race, every status an order has had was reached through
\* the table from another that it has had.
THEOREM StatusesReached == Spec => []StatusesAreReached
<1>1. IInv => StatusesAreReached
  BY DEF IInv
<1> QED BY <1>1, Invariant, PTL

\* Only Commit changes the committed rows.
LEMMA RowsChangeAtCommit ==
  ASSUME IInv, [Next]_vars, NEW o \in Key, row'[o] # row[o]
  PROVE  \E r \in Request : Commit(r) /\ job[r].order = o
<1>1. PICK r \in Request : Commit(r)
  BY DEF Next, vars, Begin, Step, Fail, Read, Select, UpdateRow, Put, Refuse,
         Rollback, Discard
<1> QED BY <1>1, Committing

\* A status changes against the table of order_status_transitions.py only if
\* the status that its request read was replaced before it committed.
THEOREM LegalOrStale == Spec => LegalUnlessStale
<1> DEFINE A == \A o \in Key :
                  Changes(o) =>
                    \/ is_allowed_order_status_transition(row[o].status, row'[o].status)
                    \/ \E r \in Request : /\ pc[r] = "commit" /\ pc'[r] = "idle"
                                          /\ stale[r] /\ job[r].order = o
<1>1. ASSUME IInv, [Next]_vars
      PROVE  A
  <2> SUFFICES ASSUME NEW o \in Key, Changes(o)
               PROVE  \/ is_allowed_order_status_transition(row[o].status, row'[o].status)
                      \/ \E r \in Request : /\ pc[r] = "commit" /\ pc'[r] = "idle"
                                            /\ stale[r] /\ job[r].order = o
    OBVIOUS
  <2>1. PICK r \in Request : Commit(r) /\ job[r].order = o
    BY <1>1, RowsChangeAtCommit DEF Changes
  <2>2. pc[r] = "commit" /\ pc'[r] = "idle" /\ row[o] \in OrderRow
    BY <1>1, <2>1 DEF Commit, Finish, Goto, IInv, TypeOK
  <2>3. row'[o] = WithUpdate(r, row[o])
    BY <1>1, <2>1, Committing DEF Changes
  <2>4. job[r].op = "status" /\ row'[o].status = job[r].target
    BY <1>1, <2>2, <2>3, UpdateTypes, BodyTypes DEF Changes, IInv
  <2>5. ~stale[r] => is_allowed_order_status_transition(row[o].status, row'[o].status)
    BY <1>1, <2>1, <2>2, <2>4 DEF IInv, FreshInv, Passed
  <2> QED BY <2>1, <2>2, <2>5
<1>2. IInv /\ [Next]_vars => [A]_vars
  BY <1>1
<1> QED BY <1>2, Invariant, PTL DEF Spec, LegalUnlessStale

\* An update of the status leaves the notes, and an update of the notes the
\* status, as they are committed at that moment.
THEOREM ColumnsIndependent == Spec => ColumnsAreIndependent
<1> DEFINE A == \A o \in Key, r \in Request :
                  /\ pc[r] = "commit" /\ pc'[r] = "idle"
                  /\ job[r].order = o
                  => IF job[r].op = "notes" THEN row'[o].status = row[o].status
                     ELSE row'[o].notes = row[o].notes
<1>1. ASSUME IInv, [Next]_vars
      PROVE  A
  <2> SUFFICES ASSUME NEW o \in Key, NEW r \in Request, pc[r] = "commit",
                      pc'[r] = "idle", job[r].order = o
               PROVE  IF job[r].op = "notes" THEN row'[o].status = row[o].status
                      ELSE row'[o].notes = row[o].notes
    OBVIOUS
  <2>1. CASE row'[o] = row[o]
    BY <2>1
  <2>2. CASE row'[o] # row[o]
    <3>1. PICK q \in Request : Commit(q) /\ job[q].order = o
      BY <1>1, <2>2, RowsChangeAtCommit
    <3>2. q = r
      BY <1>1, <3>1 DEF Commit, Finish, Goto, IInv, TypeOK
    <3>3. row'[o] = WithUpdate(r, row[o]) /\ row[o] \in OrderRow
      BY <1>1, <2>2, <3>1, <3>2, Committing DEF IInv, TypeOK
    <3> QED BY <1>1, <3>3, UpdateTypes, BodyTypes DEF IInv
  <2> QED BY <2>1, <2>2
<1>2. IInv /\ [Next]_vars => [A]_vars
  BY <1>1
<1> QED BY <1>2, Invariant, PTL DEF Spec, ColumnsAreIndependent
\* With one thread nothing is stale.
LEMMA NeverStale ==
  ASSUME \A r, q \in Request : r = q
  PROVE  Spec => [](\A r \in Request : stale[r] = FALSE)
<1> DEFINE Fresh == \A r \in Request : stale[r] = FALSE
<1>1. Init => Fresh
  BY DEF Init
<1>2. IInv /\ Fresh /\ [Next]_vars => Fresh'
  <2> SUFFICES ASSUME IInv, Fresh, [Next]_vars PROVE Fresh'
    OBVIOUS
  <2>1. ASSUME NEW r \in Request, Begin(r) \/ Step(r) \/ Fail(r)
        PROVE  Fresh'
    <3>1. CASE Commit(r)
      BY <3>1 DEF Commit
    <3>2. CASE ~Commit(r)
      BY <2>1, <3>2
         DEF Begin, Step, Read, Select, UpdateRow, Refuse, Fail, Rollback, IInv, TypeOK
    <3> QED BY <3>1, <3>2
  <2> QED BY <2>1 DEF Next, vars
<1> QED BY <1>1, <1>2, Invariant, PTL DEF Spec

\* With one thread, that is without another request between the check and the
\* UPDATE, the status changes as order_status_transitions.py says: what the
\* check lacks is a lock.
THEOREM TableFollowedInTurn ==
  ASSUME \A r, q \in Request : r = q
  PROVE  Spec => TransitionsFollowTable
<1> DEFINE Fresh == \A r \in Request : stale[r] = FALSE
           Legal == \A o \in Key :
             is_allowed_order_status_transition(row[o].status, row'[o].status)
           A == \A o \in Key :
                  Changes(o) =>
                    \/ is_allowed_order_status_transition(row[o].status, row'[o].status)
                    \/ \E r \in Request : /\ pc[r] = "commit" /\ pc'[r] = "idle"
                                          /\ stale[r] /\ job[r].order = o
<1>1. ASSUME Fresh, A
      PROVE  Legal
  BY <1>1 DEF Changes, is_allowed_order_status_transition
<1>2. Fresh /\ [A]_vars => [Legal]_vars
  BY <1>1
<1>3. Spec => [][A]_vars
  BY LegalOrStale DEF LegalUnlessStale
<1>4. Spec => []Fresh
  BY NeverStale
<1> QED BY <1>2, <1>3, <1>4, PTL DEF TransitionsFollowTable
=============================================================================
