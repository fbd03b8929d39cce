-------------------------- MODULE TenantPoolProofs --------------------------
(***************************************************************************)
(* No tenant context leaks from one call to the next, and the pool         *)
(* implements the safety part of TenantStore, for any calls, tenants, rows *)
(* and number of connections.                                              *)
(*                                                                         *)
(* The inductive invariant follows a connection from hand to hand: a call  *)
(* has one exactly between acquire and release, nobody else has the same,  *)
(* and it is clean except while its holder runs statements, when all of    *)
(* its state is the holder's.                                              *)
(***************************************************************************)
EXTENDS TenantPool, TLAPS

Holding == {"acquired", "begun", "scoped", "committed", "rolledback"}
Phases == Holding \union {"idle", "waiting", "done", "failed"}

Tenants == {Tenant[c] : c \in Calls}
Rows == UNION {Written[c] : c \in Calls}

WellTyped ==
    /\ phase \in [Calls -> Phases]
    /\ conn \in [Calls -> Connections \union {Absent}]
    /\ context \in [Connections -> [tenant : Tenants \union {Absent}, local : BOOLEAN]]
    /\ staged \in [Connections -> SUBSET Rows]

HoldersHaveOne == \A c \in Calls : phase[c] \in Holding <=> conn[c] # Absent

NobodyShares == \A c, d \in Calls : c # d /\ conn[c] = conn[d] => conn[c] = Absent

Clean(k) == context[k] = NoContext /\ staged[k] = {}

CleanOutside ==
    \A k \in Connections :
        (\A c \in Calls : phase[c] = "scoped" => conn[c] # k) => Clean(k)

OwnInside ==
    \A c \in Calls :
        phase[c] = "scoped" =>
            /\ context[conn[c]].tenant = Tenant[c] /\ context[conn[c]].local = TRUE
            /\ staged[conn[c]] \subseteq Written[c]
            /\ \A r \in staged[conn[c]] : r.tenant = Tenant[c]

IInv == WellTyped /\ HoldersHaveOne /\ NobodyShares /\ CleanOutside /\ OwnInside

LEMMA InitLemma == Init => IInv
BY DEF Init, IInv, WellTyped, HoldersHaveOne, NobodyShares, CleanOutside, OwnInside,
       Clean, NoContext, Phases, Holding, Tenants, Rows

LEMMA AcquireKeeps == ASSUME IInv, NEW c \in Calls, Acquire(c) PROVE IInv'
<1> USE DEF IInv, Acquire, Becomes, sessions
<1>1. PICK k \in Free : conn' = [conn EXCEPT ![c] = k]
  OBVIOUS
<1>2. /\ k \in Connections /\ k # Absent
      /\ \A d \in Calls : conn[d] # k
      /\ phase[c] = "waiting" /\ phase' = [phase EXCEPT ![c] = "acquired"]
  BY <1>1, AbsentAssumption DEF Free
<1>3. WellTyped'
  BY <1>1, <1>2 DEF WellTyped, Phases, Holding
<1>4. HoldersHaveOne'
  BY <1>1, <1>2 DEF WellTyped, HoldersHaveOne, Holding
<1>5. NobodyShares'
  BY <1>1, <1>2 DEF WellTyped, NobodyShares
<1>6. CleanOutside'
  BY <1>1, <1>2 DEF WellTyped, CleanOutside, Clean
<1>7. OwnInside'
  BY <1>1, <1>2 DEF WellTyped, OwnInside
<1> QED BY <1>3, <1>4, <1>5, <1>6, <1>7
(* A step of a call that changes its phase and perhaps its own session.    *)
LEMMA BeginKeeps == ASSUME IInv, NEW c \in Calls, Begin(c) PROVE IInv'
BY DEF IInv, WellTyped, HoldersHaveOne, NobodyShares, CleanOutside, OwnInside, Clean,
       Begin, Becomes, pool, sessions, Phases, Holding

LEMMA CallKeeps == ASSUME IInv, NEW c \in Calls, Call(c) PROVE IInv'
BY DEF IInv, WellTyped, HoldersHaveOne, NobodyShares, CleanOutside, OwnInside, Clean,
       Call, Becomes, sessions, Phases, Holding

LEMMA AcquireFailsKeeps == ASSUME IInv, NEW c \in Calls, AcquireFails(c) PROVE IInv'
BY DEF IInv, WellTyped, HoldersHaveOne, NobodyShares, CleanOutside, OwnInside, Clean,
       AcquireFails, Becomes, sessions, Phases, Holding

LEMMA FetchKeeps ==
    ASSUME IInv, NEW c \in Calls, FetchSeries(c) \/ FetchExport(c) PROVE IInv'
BY DEF IInv, WellTyped, HoldersHaveOne, NobodyShares, CleanOutside, OwnInside, Clean,
       FetchSeries, FetchExport, Answer, pool, sessions

LEMMA RefreshKeeps == ASSUME IInv, Refresh PROVE IInv'
BY DEF IInv, WellTyped, HoldersHaveOne, NobodyShares, CleanOutside, OwnInside, Clean,
       Refresh, pool, sessions

(* A call whose phase holds a connection has one of the pool. *)
LEMMA HolderLemma ==
    ASSUME IInv, NEW c \in Calls, phase[c] \in Holding
    PROVE  /\ conn[c] \in Connections
           /\ \A d \in Calls : d # c => conn[d] # conn[c]
BY DEF IInv, WellTyped, HoldersHaveOne, NobodyShares

LEMMA SetTenantKeeps == ASSUME IInv, NEW c \in Calls, SetTenant(c) PROVE IInv'
<1> USE DEF IInv, SetTenant, Becomes, pool
<1>1. /\ phase[c] = "begun" /\ phase' = [phase EXCEPT ![c] = "scoped"]
      /\ conn[c] \in Connections
      /\ \A d \in Calls : d # c => conn[d] # conn[c]
  BY HolderLemma DEF Holding
<1>2. Clean(conn[c])
  BY <1>1 DEF WellTyped, CleanOutside
<1>3. WellTyped' /\ HoldersHaveOne' /\ NobodyShares'
  BY <1>1 DEF WellTyped, HoldersHaveOne, NobodyShares, Phases, Holding, Tenants
<1>4. CleanOutside'
  BY <1>1 DEF WellTyped, CleanOutside, Clean
<1>5. OwnInside'
  BY <1>1, <1>2 DEF WellTyped, OwnInside, Clean
<1> QED BY <1>3, <1>4, <1>5

LEMMA InsertRowKeeps == ASSUME IInv, NEW c \in Calls, InsertRow(c) PROVE IInv'
<1> USE DEF IInv, InsertRow, pool
<1>1. PICK r \in Written[c] :
          /\ r.tenant = context[conn[c]].tenant
          /\ staged' = [staged EXCEPT ![conn[c]] = @ \union {r}]
  OBVIOUS
<1>2. /\ phase[c] = "scoped"
      /\ conn[c] \in Connections
      /\ \A d \in Calls : d # c => conn[d] # conn[c]
  BY HolderLemma DEF Holding
<1>3. r.tenant = Tenant[c]
  BY <1>1, <1>2 DEF OwnInside
<1>4. WellTyped' /\ HoldersHaveOne' /\ NobodyShares'
  BY <1>1, <1>2 DEF WellTyped, HoldersHaveOne, NobodyShares, Rows
<1>5. CleanOutside'
  BY <1>1, <1>2 DEF WellTyped, CleanOutside, Clean
<1>6. OwnInside'
  BY <1>1, <1>2, <1>3 DEF WellTyped, OwnInside
<1> QED BY <1>4, <1>5, <1>6

(* After the end of its transaction a connection is clean, whichever step  *)
(* of the transaction its call had come to.                                *)
LEMMA EndTransactionLemma ==
    ASSUME IInv, NEW c \in Calls, phase[c] \in Holding, EndTransaction(conn[c])
    PROVE  /\ conn[c] \in Connections
           /\ context' = [context EXCEPT ![conn[c]] = NoContext]
           /\ staged' = [staged EXCEPT ![conn[c]] = {}]
<1>1. /\ conn[c] \in Connections
      /\ \A d \in Calls : d # c => conn[d] # conn[c]
  BY HolderLemma
<1>2. CASE phase[c] = "scoped"
  BY <1>1, <1>2 DEF IInv, OwnInside, EndTransaction
<1>3. CASE phase[c] # "scoped"
  <2>1. context[conn[c]] = NoContext
    BY <1>1, <1>3 DEF IInv, CleanOutside, Clean
  <2> QED BY <1>1, <2>1 DEF EndTransaction, NoContext
<1> QED BY <1>2, <1>3

LEMMA EndKeeps ==
    ASSUME IInv, NEW c \in Calls, phase[c] \in Holding, EndTransaction(conn[c]), UNCHANGED <<conn, answer>>,
           NEW p \in {"committed", "rolledback"}, phase' = [phase EXCEPT ![c] = p]
    PROVE  IInv'
<1> USE DEF IInv
<1>1. /\ conn[c] \in Connections
      /\ context' = [context EXCEPT ![conn[c]] = NoContext]
      /\ staged' = [staged EXCEPT ![conn[c]] = {}]
      /\ \A d \in Calls : d # c => conn[d] # conn[c]
  BY EndTransactionLemma, HolderLemma
<1>2. WellTyped' /\ HoldersHaveOne' /\ NobodyShares'
  BY <1>1 DEF WellTyped, HoldersHaveOne, NobodyShares, Phases, Holding, NoContext
<1>3. CleanOutside'
  BY <1>1 DEF WellTyped, CleanOutside, Clean
<1>4. OwnInside'
  BY <1>1 DEF WellTyped, OwnInside
<1> QED BY <1>2, <1>3, <1>4

LEMMA CommitKeeps == ASSUME IInv, NEW c \in Calls, Commit(c) PROVE IInv'
BY EndKeeps DEF Commit, Becomes, pool, Holding

LEMMA RollbackKeeps == ASSUME IInv, NEW c \in Calls, Rollback(c) PROVE IInv'
BY EndKeeps DEF Rollback, pool, Holding

LEMMA ReleaseKeeps == ASSUME IInv, NEW c \in Calls, Release(c) PROVE IInv'
<1> USE DEF IInv, Release, Becomes, sessions
<1>1. /\ phase[c] \in {"committed", "rolledback"}
      /\ conn[c] \in Connections
      /\ conn' = [conn EXCEPT ![c] = Absent]
      /\ \A d \in Calls : d # c => conn[d] # conn[c]
  BY HolderLemma DEF Holding
<1>2. PICK p \in {"done", "failed"} : phase' = [phase EXCEPT ![c] = p]
  OBVIOUS
<1>3. WellTyped' /\ HoldersHaveOne' /\ NobodyShares'
  BY <1>1, <1>2 DEF WellTyped, HoldersHaveOne, NobodyShares, Phases, Holding
<1>4. CleanOutside'
  BY <1>1, <1>2 DEF WellTyped, CleanOutside, Clean
<1>5. OwnInside'
  BY <1>1, <1>2 DEF WellTyped, OwnInside
<1> QED BY <1>3, <1>4, <1>5

LEMMA InvariantHolds == Spec => []IInv
<1>1. IInv /\ [Next]_vars => IInv'
  <2> SUFFICES ASSUME IInv, [Next]_vars PROVE IInv'
    OBVIOUS
  <2>1. ASSUME NEW c \in Calls, Call(c) \/ Progress(c) \/ AcquireFails(c) \/ Rollback(c)
        PROVE  IInv'
    BY <2>1, CallKeeps, AcquireKeeps, BeginKeeps, SetTenantKeeps, InsertRowKeeps, FetchKeeps,
       CommitKeeps, ReleaseKeeps, AcquireFailsKeeps, RollbackKeeps DEF Progress
  <2>2. CASE UNCHANGED vars
    BY <2>2 DEF vars, pool, sessions, IInv, WellTyped, HoldersHaveOne, NobodyShares,
                CleanOutside, OwnInside, Clean
  <2> QED BY <2>1, <2>2, RefreshKeeps DEF Next
<1> QED BY InitLemma, <1>1, PTL DEF Spec

(* However many calls of however many tenants share the pool, and whatever *)
(* fails: statements run in the context of their own tenant (Repository.   *)
(* tenant), and free connections have none.                                *)
THEOREM TenantContextIsScopedHolds == Spec => []TenantContextIsScoped
<1>1. IInv => TenantContextIsScoped
  <2> SUFFICES ASSUME IInv PROVE TenantContextIsScoped
    OBVIOUS
  <2>1. ASSUME NEW c \in Calls, phase[c] = "scoped"
        PROVE  /\ context[conn[c]].tenant = Tenant[c]
               /\ \A r \in staged[conn[c]] : r.tenant = Tenant[c]
               /\ \A d \in Calls \ {c} : conn[d] # conn[c]
    BY <2>1, HolderLemma DEF IInv, OwnInside, Holding
  <2>2. \A k \in Free : context[k] = NoContext /\ staged[k] = {}
    BY DEF Free, IInv, CleanOutside, Clean
  <2> QED BY <2>1, <2>2 DEF TenantContextIsScoped
<1> QED BY <1>1, InvariantHolds, PTL

(* The outcome that a caller sees of a phase. *)
OutcomeOf(p) ==
    CASE p \in {"waiting", "acquired", "begun", "scoped"} -> "pending"
      [] p \in {"committed", "done"} -> "done"
      [] p \in {"rolledback", "failed"} -> "failed"
      [] OTHER -> "idle"

LEMMA OutcomeLemma ==
    ASSUME phase \in [Calls -> Phases], NEW c \in Calls, NEW p,
           phase' = [phase EXCEPT ![c] = p]
    PROVE  /\ Outcome = [d \in Calls |-> OutcomeOf(phase[d])]
           /\ Outcome' = [Outcome EXCEPT ![c] = OutcomeOf(p)]
BY DEF Outcome, OutcomeOf

(* Each step of a call is one of the store's, or changes nothing there.    *)
LEMMA StepImplements ==
    ASSUME IInv, NEW c \in Calls, Call(c) \/ Progress(c) \/ AcquireFails(c) \/ Rollback(c)
    PROVE  [Store!Next]_(Store!vars)
<1> USE DEF Store!Next, Store!vars
<1>0. phase \in [Calls -> Phases]
  BY DEF IInv, WellTyped
<1>1. CASE Call(c)
  <2>1. OutcomeOf("idle") = "idle" /\ OutcomeOf("waiting") = "pending"
    BY DEF OutcomeOf
  <2>2. Outcome[c] = "idle" /\ Outcome' = [Outcome EXCEPT ![c] = "pending"]
    BY <1>0, <1>1, <2>1, OutcomeLemma DEF Call, Becomes
  <2>3. Store!Call(c)
    BY <1>1, <2>2 DEF Call, tables, Store!Call, Store!Becomes
  <2> QED BY <2>3
<1>2. CASE Acquire(c) \/ Begin(c) \/ SetTenant(c)
  BY <1>0, <1>2, OutcomeLemma DEF OutcomeOf, Acquire, Begin, SetTenant, Becomes, tables, Outcome
<1>3. CASE InsertRow(c)
  BY <1>3 DEF InsertRow, tables, Outcome
<1>4. CASE FetchSeries(c) \/ FetchExport(c)
  <2>1. context[conn[c]].tenant = Tenant[c] /\ Outcome[c] = "pending"
    BY <1>4 DEF FetchSeries, FetchExport, Answer, IInv, OwnInside, Outcome
  <2>2. CASE FetchSeries(c)
    BY <2>1, <2>2 DEF FetchSeries, Answer, tables, Store!Read, Store!Reads, Reads, Outcome
  <2>3. CASE FetchExport(c)
    BY <2>1, <2>3 DEF FetchExport, Answer, tables, Store!Read, Store!Reads, Reads, Outcome
  <2> QED BY <1>4, <2>2, <2>3
<1>5. CASE Commit(c)
  <2>1. staged[conn[c]] \subseteq Written[c]
    BY <1>5 DEF Commit, Becomes, IInv, OwnInside
  <2>2. table' = table \union Written[c]
    BY <1>5, <2>1 DEF Commit, Reads
  <2>3. PICK p \in {"committed", "rolledback"} : phase' = [phase EXCEPT ![c] = p]
    BY <1>5 DEF Commit, Becomes
  <2>4. /\ Outcome[c] = "pending"
        /\ Outcome' = [Outcome EXCEPT ![c] = OutcomeOf(p)]
        /\ OutcomeOf(p) = IF p = "committed" THEN "done" ELSE "failed"
    BY <1>0, <1>5, <2>3, OutcomeLemma DEF OutcomeOf, Commit, Becomes
  <2>5. CASE ~Reads(c)
    <3>1. Store!Write(c)
      BY <1>5, <2>2, <2>3, <2>4, <2>5 DEF Commit, Store!Write, Store!Reads, Reads, Store!Becomes
    <3> QED BY <3>1
  <2>6. CASE Reads(c)
    <3>1. /\ table' = table /\ aggregate' = aggregate
          /\ answer[c] # Absent /\ answer' = answer
      BY <1>5, <2>2, <2>6 DEF Commit, Reads
    <3>2. Store!Answered(c) \/ Store!Fail(c)
      BY <2>3, <2>4, <2>6, <3>1 DEF Store!Answered, Store!Fail, Store!Reads, Reads, Store!Becomes
    <3> QED BY <3>2
  <2> QED BY <2>5, <2>6
<1>6. CASE Release(c)
  BY <1>0, <1>6, OutcomeLemma DEF OutcomeOf, Release, Becomes, tables, Outcome
<1>7. CASE AcquireFails(c)
  <2>1. Store!Fail(c)
    BY <1>0, <1>7, OutcomeLemma DEF OutcomeOf, AcquireFails, Becomes, tables, Store!Fail, Store!Becomes
  <2> QED BY <2>1
<1>8. CASE Rollback(c)
  <2>1. Store!Fail(c)
    BY <1>0, <1>8, OutcomeLemma DEF OutcomeOf, Rollback, tables, Store!Fail, Store!Becomes
  <2> QED BY <2>1
<1> QED BY <1>1, <1>2, <1>3, <1>4, <1>5, <1>6, <1>7, <1>8 DEF Progress

(* Behind the pool (create_pool, tenant, and the inserts and reads) is a   *)
(* store whose calls take effect in one step, for their own tenant only: a *)
(* series by its WHERE alone, whatever the context, an export by both.     *)
THEOREM PoolImplementsStore == Spec => Store!Safety
<1>1. Init => Store!Init
  BY DEF Init, Store!Init, Outcome
<1>2. IInv /\ [Next]_vars => [Store!Next]_(Store!vars)
  <2> SUFFICES ASSUME IInv, [Next]_vars PROVE [Store!Next]_(Store!vars)
    OBVIOUS
  <2>1. CASE UNCHANGED vars
    BY <2>1 DEF vars, tables, Store!vars, Outcome
  <2>2. CASE Refresh
    <3>1. Store!Show
      BY <2>2 DEF Refresh, Store!Show, Outcome
    <3> QED BY <3>1 DEF Store!Next
  <2> QED BY <2>1, <2>2, StepImplements DEF Next
<1> QED BY <1>1, <1>2, InvariantHolds, PTL DEF Spec, Store!Safety
=============================================================================
