------------------------------ MODULE Serving ------------------------------
(***************************************************************************)
(* How a process of the API serves requests: one event loop, a pool of     *)
(* handler threads (anyio's limiter) and a pool of database connections    *)
(* (create_engine of infrastructure/persistence/database.py), around one   *)
(* transaction per request (get_session of presentation/dependencies.py).  *)
(*                                                                         *)
(* The user of a token is looked up in a thread, which waits there for a   *)
(* connection; the connection is kept until the transaction ends, the      *)
(* thread is not.  An "async def" handler runs its use case on the event   *)
(* loop itself.  The statements of the use cases are in Catalog and        *)
(* Accounts.                                                               *)
(***************************************************************************)
EXTENDS Database, Authorization, Naturals, FiniteSets

CONSTANTS Process,       \* API processes
          Threads,       \* [Process -> handler threads]
          Connections,   \* [Process -> size of the connection pool]
          Workloads,     \* [Request -> body or NoRow]: what clients may send
          InitialRow     \* [Key -> value]: the rows before the first request

ASSUME PoolAssumption ==
  \A p \in Process : /\ Threads[p] \in Nat /\ Connections[p] \in Nat
                     /\ 0 < Connections[p] /\ Connections[p] <= Threads[p]

VARIABLES
  job,       \* the body of each request
  proc,      \* the process that serves it
  pc,        \* its stage, or the next statement of its use case
  mem,       \* what its use case has read and will return
  answer,    \* how it is answered
  earlier    \* history: the requests that were answered when it arrived

serving == <<job, proc, pc, mem, answer, earlier>>
vars == <<dbvars, serving>>

Public == {"login", "request_password_reset", "confirm_password_reset"}
Async == {"upload_store_theme", "import_products"}

Op(r) == job[r].op

Answered(r) == pc[r] = "done"
Active(r) == pc[r] \notin {"idle", "done"}
InUseCase(r) ==
  Active(r) /\ pc[r] \notin {"queued", "connecting", "authorized", "returned", "raised"}

\* Which resources of its process a request occupies.
HoldsLoop(r) == InUseCase(r) /\ Op(r) \in Async
HoldsThread(r) == \/ pc[r] = "connecting"
                  \/ InUseCase(r) /\ Op(r) \notin Async
HoldsConnection(r) == Active(r) /\ pc[r] \notin {"queued", "connecting"}

Of(p) == {r \in Request : Active(r) /\ proc[r] = p}
LoopFree(p) == \A r \in Of(p) : ~HoldsLoop(r)
ThreadFree(p) == Cardinality({r \in Of(p) : HoldsThread(r)}) < Threads[p]

\* Mutant of ConnectionFree: one connection too many.
ConnectionFreeOver(p) ==
  Cardinality({r \in Of(p) : HoldsConnection(r)}) <= Connections[p]
ConnectionFree(p) ==
  Cardinality({r \in Of(p) : HoldsConnection(r)}) < Connections[p]

Init ==
  /\ DatabaseInit(InitialRow)
  /\ job \in Workloads
  /\ proc = [r \in Request |-> NoRow]
  /\ pc = [r \in Request |-> "idle"]
  /\ mem = [r \in Request |-> NoRow]
  /\ answer = [r \in Request |-> "none"]
  /\ earlier = [r \in Request |-> {}]

Goto(r, label) == pc' = [pc EXCEPT ![r] = label]

Arrive(r) ==
  /\ pc[r] = "idle" /\ job[r] # NoRow
  /\ \E p \in Process : proc' = [proc EXCEPT ![r] = p]
  /\ earlier' = [earlier EXCEPT ![r] = {q \in Request : Answered(q)}]
  /\ Goto(r, "queued")
  /\ UNCHANGED <<dbvars, job, mem, answer>>

Move(r, from, to) ==
  /\ pc[r] = from
  /\ Goto(r, to)
  /\ UNCHANGED <<dbvars, job, proc, mem, answer, earlier>>

\* The loop hands the first dependency that uses the session to a thread.
Dispatch(r) ==
  /\ Move(r, "queued", "connecting")
  /\ LoopFree(proc[r]) /\ ThreadFree(proc[r])

\* The first statement checks a connection out; get_current_user then gives
\* its thread back, while a handler without a user goes on in it.
Connect(r) ==
  /\ Move(r, "connecting", IF Op(r) \in Public THEN "begin" ELSE "authorized")
  /\ ConnectionFree(proc[r])

\* The provider of the use case needs a thread, even for an async handler.
Start(r) ==
  /\ Move(r, "authorized", "begin")
  /\ LoopFree(proc[r]) /\ ThreadFree(proc[r])

\* The use case of a request with operation op reaches a statement.
At(r, op, label) == pc[r] = label /\ Op(r) = op

Return(r) == Goto(r, "returned") /\ UNCHANGED answer
Raise(r, why) == Goto(r, "raised") /\ answer' = [answer EXCEPT ![r] = why]

Finish(r, outcome) ==
  /\ Goto(r, "done")
  /\ answer' = [answer EXCEPT ![r] = outcome]
  /\ UNCHANGED <<job, proc, mem, earlier>>

\* The answer of a handler run in a thread is serialised in a thread, and
\* then get_session commits.
Commit(r) ==
  /\ pc[r] = "returned"
  /\ LoopFree(proc[r]) /\ (Op(r) \notin Async => ThreadFree(proc[r]))
  /\ Publish(r)
  /\ Finish(r, "ok")

\* Mutant of Rollback: the request is served again.
RollbackRetrying(r) ==
  /\ pc[r] = "raised" /\ LoopFree(proc[r])
  /\ Discard(r)
  /\ Goto(r, "queued")
  /\ UNCHANGED <<job, proc, mem, answer, earlier>>

\* Every error of a use case, translated by error_mapping.py or unhandled,
\* passes through get_session.
Rollback(r) ==
  /\ pc[r] = "raised" /\ LoopFree(proc[r])
  /\ Discard(r)
  /\ Finish(r, answer[r])

\* No connection came back within pool_timeout.
PoolTimeout(r) ==
  /\ pc[r] = "connecting" /\ ~ConnectionFree(proc[r])
  /\ Finish(r, "failed")
  /\ UNCHANGED dbvars

\* The connection is lost, or PostgreSQL refuses a value.
Fail(r) ==
  /\ HoldsConnection(r)
  /\ Discard(r)
  /\ Finish(r, "failed")

Serve(r) ==
  \/ Dispatch(r) \/ Connect(r) \/ Start(r)
  \/ Commit(r) \/ Rollback(r) \/ PoolTimeout(r)

-----------------------------------------------------------------------------
\* Request r runs on the event loop of its process and waits there for a row.
LoopWaits(r, q) ==
  /\ HoldsLoop(r) /\ pc[r] = "save"
  /\ writer[<<"theme", job[r].store>>] = q /\ q \notin {r, Nobody}

\* Processes whose event loops wait for each other: a request on the loop of
\* each needs a row lock of one whose transaction ends only when the loop of
\* another of them (or the same) is free.
Wedged(S) ==
  S # {} /\ \A p \in S : \E r, q \in Request :
    /\ proc[r] = p /\ proc[q] \in S
    /\ LoopWaits(r, q) /\ pc[q] \in {"returned", "raised"}
=============================================================================
