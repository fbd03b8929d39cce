---------------------------- MODULE TenantStore ----------------------------
(***************************************************************************)
(* What the database promises the program (src/wte/db/repo.py, class       *)
(* Repository): a call takes effect in one step.  A write puts all of its  *)
(* rows in the table, a read gets rows of its tenant and none of another,  *)
(* or the call fails; and every call ends.  A series has the rows that     *)
(* were committed some time ago: when they show is up to the database, but *)
(* what has shown keeps showing.  A write that fails may have taken        *)
(* effect: it was committed and the answer was lost.                       *)
(***************************************************************************)
EXTENDS Integers, FiniteSets

CONSTANTS
    Calls,       \* calls of the repository's methods
    Tenant,      \* the tenant_id of a call
    Written,     \* the rows [tenant, id] it inserts; none if it reads
    Exports,     \* the calls of export_tenant; other reads are of wait_series
    Buckets,     \* the rows of wait_time_buckets, which no call writes
    Absent

VARIABLES
    table,       \* the rows of all tenants
    shown,       \* those of them that a series shows
    outcome,     \* a call's "idle", "pending", "done" or "failed"
    answer       \* the rows that a call has read

vars == <<table, shown, outcome, answer>>

Reads(c) == Written[c] = {}

Init ==
    /\ table = {} /\ shown = {}
    /\ outcome = [c \in Calls |-> "idle"]
    /\ answer = [c \in Calls |-> Absent]

Becomes(c, from, to) == outcome[c] = from /\ outcome' = [outcome EXCEPT ![c] = to]

Call(c) == Becomes(c, "idle", "pending") /\ UNCHANGED <<table, shown, answer>>

Write(c) ==
    /\ ~Reads(c)
    /\ Becomes(c, "pending", "done") \/ Becomes(c, "pending", "failed")
    /\ table' = table \union Written[c]
    /\ UNCHANGED <<shown, answer>>

(* The rows are those of one moment before the call ends. *)
Read(c) ==
    /\ Reads(c) /\ outcome[c] = "pending" /\ answer[c] = Absent
    /\ LET source == IF c \in Exports THEN Buckets ELSE shown
       IN  answer' = [answer EXCEPT ![c] = {r \in source : r.tenant = Tenant[c]}]
    /\ UNCHANGED <<table, shown, outcome>>

Show ==
    /\ shown' \in {rows \in SUBSET table : shown \subseteq rows}
    /\ UNCHANGED <<table, outcome, answer>>

Answered(c) ==
    /\ Reads(c) /\ answer[c] # Absent
    /\ Becomes(c, "pending", "done")
    /\ UNCHANGED <<table, shown, answer>>

Fail(c) == Becomes(c, "pending", "failed") /\ UNCHANGED <<table, shown, answer>>

Next ==
    \/ \E c \in Calls : Call(c) \/ Write(c) \/ Read(c) \/ Answered(c) \/ Fail(c)
    \/ Show

CallsEnd == \A c \in Calls : outcome[c] = "pending" ~> outcome[c] \in {"done", "failed"}

Safety == Init /\ [][Next]_vars

Spec == Safety /\ CallsEnd
============================================================================
