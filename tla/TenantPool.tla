----------------------------- MODULE TenantPool -----------------------------
(***************************************************************************)
(* Calls of all tenants share a bounded pool of database connections       *)
(* (src/wte/db/repo.py, Repository.tenant): a call waits for a connection, *)
(* begins a transaction, makes its tenant the context of row-level         *)
(* security for that transaction, runs its statements, and returns the     *)
(* connection.  Every step is awaited, and may raise.                      *)
(*                                                                         *)
(* The table stands for those that the inserts write: each has the policy  *)
(* tenant_isolation.  Reads go elsewhere: wait_series to an aggregate that *)
(* the database fills from the table in the background and that has no     *)
(* policy, export_tenant to a table that has one and that no insert        *)
(* writes.  asyncpg serves those who wait in their order.                  *)
(***************************************************************************)
EXTENDS Integers, Sequences, FiniteSets, SequencesExt

CONSTANTS
    Calls, Tenant, Written, Exports, Buckets, Absent,    \* of TenantStore
    Connections      \* of the pool, max_size of them

ASSUME AbsentAssumption == Absent \notin Connections

(* Rows carry the tenant of their call: insert_zone_events takes it from   *)
(* the first event, and one camera's engine stamps all of a frame.         *)
ASSUME OwnRowsAssumption == \A c \in Calls : \A r \in Written[c] : r.tenant = Tenant[c]

VARIABLES
    table,       \* the rows committed
    aggregate,   \* those that wait_time_15m covers
    phase,       \* how far a call is
    conn,        \* the connection it holds
    waiters,     \* the calls that wait for a connection
    context,     \* a session's app.current_tenant_id, and whether it is
                 \*   local to the transaction
    staged,      \* the rows inserted in a session and not committed
    answer       \* the rows that a call has read

pool == <<conn, waiters>>
sessions == <<context, staged>>
tables == <<table, aggregate>>
vars == <<tables, phase, pool, sessions, answer>>

Reads(c) == Written[c] = {}
NoContext == [tenant |-> Absent, local |-> FALSE]
Free == Connections \ {conn[c] : c \in Calls}

Init ==
    /\ table = {} /\ aggregate = {}
    /\ phase = [c \in Calls |-> "idle"] /\ conn = [c \in Calls |-> Absent] /\ waiters = <<>>
    /\ context = [k \in Connections |-> NoContext] /\ staged = [k \in Connections |-> {}]
    /\ answer = [c \in Calls |-> Absent]

Becomes(c, from, to) == phase[c] = from /\ phase' = [phase EXCEPT ![c] = to]

-----------------------------------------------------------------------------
Call(c) ==
    /\ Becomes(c, "idle", "waiting")
    /\ waiters' = Append(waiters, c)
    /\ UNCHANGED <<tables, conn, sessions, answer>>

Acquire(c) ==
    /\ waiters # <<>> /\ Head(waiters) = c
    /\ Becomes(c, "waiting", "acquired")
    /\ waiters' = Tail(waiters)
    /\ \E k \in Free : conn' = [conn EXCEPT ![c] = k]
    /\ UNCHANGED <<tables, sessions, answer>>

(* The database takes no connection: acquire raises. *)
AcquireFails(c) ==
    /\ Becomes(c, "waiting", "failed")
    /\ waiters' = Remove(waiters, c)
    /\ UNCHANGED <<tables, conn, sessions, answer>>

Begin(c) == Becomes(c, "acquired", "begun") /\ UNCHANGED <<tables, pool, sessions, answer>>

\* mutant: set_config(..., false), for the session
SetTenantOfSession(c) ==
    /\ Becomes(c, "begun", "scoped")
    /\ context' = [context EXCEPT ![conn[c]] = [tenant |-> Tenant[c], local |-> FALSE]]
    /\ UNCHANGED <<tables, pool, staged, answer>>

(* SELECT set_config('app.current_tenant_id', $1, true) *)
SetTenant(c) ==
    /\ Becomes(c, "begun", "scoped")
    /\ context' = [context EXCEPT ![conn[c]] = [tenant |-> Tenant[c], local |-> TRUE]]
    /\ UNCHANGED <<tables, pool, staged, answer>>

(* One row of an executemany; the policy checks its tenant. *)
InsertRow(c) ==
    /\ phase[c] = "scoped"
    /\ \E r \in Written[c] \ staged[conn[c]] :
           /\ r.tenant = context[conn[c]].tenant
           /\ staged' = [staged EXCEPT ![conn[c]] = @ \union {r}]
    /\ UNCHANGED <<tables, phase, pool, context, answer>>

Answer(c, rows) ==
    /\ phase[c] = "scoped" /\ Reads(c) /\ answer[c] = Absent
    /\ answer' = [answer EXCEPT ![c] = rows]
    /\ UNCHANGED <<tables, phase, pool, sessions>>

\* mutant: what the query leaves out is left to a policy
FetchSeriesByPolicy(c) == c \notin Exports /\ Answer(c, aggregate)

(* SELECT ... FROM wait_time_15m WHERE tenant_id = $1: no policy filters   *)
(* the aggregate, whatever the context is.                                 *)
FetchSeries(c) == c \notin Exports /\ Answer(c, {r \in aggregate : r.tenant = Tenant[c]})

(* SELECT * FROM wait_time_buckets WHERE tenant_id = $1, of the rows that  *)
(* the policy lets through.                                                *)
FetchExport(c) ==
    /\ c \in Exports
    /\ Answer(c, {r \in Buckets : r.tenant = context[conn[c]].tenant /\ r.tenant = Tenant[c]})

(* add_continuous_aggregate_policy: the database takes in more of the rows *)
(* committed, those of the quarters of an hour that are over.              *)
Refresh ==
    /\ aggregate' \in {rows \in SUBSET table : aggregate \subseteq rows}
    /\ UNCHANGED <<table, phase, pool, sessions, answer>>

(* The transaction is over: what is local to it goes. *)
EndTransaction(k) ==
    /\ context' = [context EXCEPT ![k] = IF @.local THEN NoContext ELSE @]
    /\ staged' = [staged EXCEPT ![k] = {}]

(* All statements ran; the answer to the COMMIT may be lost. *)
Commit(c) ==
    /\ Becomes(c, "scoped", "committed") \/ Becomes(c, "scoped", "rolledback")
    /\ IF Reads(c) THEN answer[c] # Absent ELSE Written[c] \subseteq staged[conn[c]]
    /\ table' = table \union staged[conn[c]]
    /\ EndTransaction(conn[c])
    /\ UNCHANGED <<aggregate, pool, answer>>

(* A step raises, and leaving the transaction's block rolls it back. *)
Rollback(c) ==
    /\ phase[c] \in {"acquired", "begun", "scoped"}
    /\ phase' = [phase EXCEPT ![c] = "rolledback"]
    /\ EndTransaction(conn[c])
    /\ UNCHANGED <<tables, pool, answer>>

\* mutant: a connection is returned by the calls that succeed only
ReleaseCommitted(c) ==
    /\ Becomes(c, "committed", "done") \/ Becomes(c, "rolledback", "failed")
    /\ conn' = IF phase[c] = "committed" THEN [conn EXCEPT ![c] = Absent] ELSE conn
    /\ UNCHANGED <<tables, waiters, sessions, answer>>

(* Leaving the block of acquire. *)
Release(c) ==
    /\ Becomes(c, "committed", "done") \/ Becomes(c, "rolledback", "failed")
    /\ conn' = [conn EXCEPT ![c] = Absent]
    /\ UNCHANGED <<tables, waiters, sessions, answer>>

-----------------------------------------------------------------------------
Progress(c) ==
    \/ Acquire(c) \/ Begin(c) \/ SetTenant(c)
    \/ InsertRow(c) \/ FetchSeries(c) \/ FetchExport(c)
    \/ Commit(c) \/ Release(c)

Next ==
    \/ \E c \in Calls : Call(c) \/ Progress(c) \/ AcquireFails(c) \/ Rollback(c)
    \/ Refresh

(* The event loop runs what is ready, and the database ends what it began. *)
Fairness == \A c \in Calls : WF_vars(Progress(c))

Spec == Init /\ [][Next]_vars /\ Fairness

-----------------------------------------------------------------------------
(* "a connection returned to the pool can never leak another tenant's      *)
(* context" (repo.py:5): while a call runs statements the context is its   *)
(* own tenant's and nobody else has its connection, and a connection that  *)
(* is free has no context and no rows of an unfinished transaction.        *)
TenantContextIsScoped ==
    /\ \A c \in Calls :
          phase[c] = "scoped" =>
              /\ context[conn[c]].tenant = Tenant[c]
              /\ \A r \in staged[conn[c]] : r.tenant = Tenant[c]
              /\ \A d \in Calls \ {c} : conn[d] # conn[c]
    /\ \A k \in Free : context[k] = NoContext /\ staged[k] = {}

Outcome ==
    [c \in Calls |->
        CASE phase[c] \in {"waiting", "acquired", "begun", "scoped"} -> "pending"
          [] phase[c] \in {"committed", "done"} -> "done"
          [] phase[c] \in {"rolledback", "failed"} -> "failed"
          [] OTHER -> "idle"]

Store == INSTANCE TenantStore WITH outcome <- Outcome, shown <- aggregate

(* However calls interleave on the pool and whatever fails: batches are    *)
(* written whole or not at all, a series has rows of its own tenant only,  *)
(* all of them committed and no fewer than an earlier one, an export those *)
(* of its own tenant, and every call ends, for none keeps a connection     *)
(* while it waits and all return theirs.                                   *)
StoreSpec == Store!Spec
=============================================================================
