------------------------------ MODULE Webhook ------------------------------
(***************************************************************************)
(* The life of a webhook: the provider sends an event, and sends it again  *)
(* when no answer reaches it; the server normalises it, checks its         *)
(* deduplication store, counts an order in the live state, and saves it to *)
(* the database before it answers (src/wte/api/state.py, ingest_webhook,   *)
(* _on_pos_event and _on_booking_event; src/wte/db/repo.py,                *)
(* insert_pos_event).  Requests interleave where the save is awaited.      *)
(*                                                                         *)
(* The database may refuse a save, an answer may be lost, and the server   *)
(* may restart: its memory is gone, the database stays.                    *)
(***************************************************************************)
EXTENDS Connectors, Idempotency, FiniteSets

CONSTANTS
    Orders,        \* the events that providers send
    Payload,       \* the payload of each, as in Connectors
    MaxClock,      \* bound of the runs: the time goes from 0 to MaxClock
    MaxFaults      \* bound of the runs: restarts, and orders with a save lost

VARIABLES
    clock,      \* the server's time
    store,      \* AppState.idempotency
    counted,    \* for an order, how often the live state counts it
    saving,     \* the saves awaited, rows [order, at]
    rows,       \* the table pos_events
    acked,      \* POS events the provider has a 2xx answer for
    restarts,
    unsaved,    \* history: orders with a save that failed or was cut off
    noted,      \* history: when the store last took a key in
    others      \* history: the other keys delivered since a key was

server == <<store, counted, saving>>
history == <<unsaved, noted, others>>
vars == <<clock, server, rows, acked, restarts, history>>

KeyOf(o) == Key(Payload[o])
Keys == {KeyOf(o) : o \in Orders}

(* An event that the connector ignores is answered and leaves no trace. *)
Events == {o \in Orders : Normalize(Payload[o]) # {}}
Bookings == {o \in Events : IsBooking(Payload[o])}
PosEvents == Events \ Bookings

(* _on_pos_event counts these in pos_orders_5m. *)
CountedTypes == {"order_created", "check_open"}
Opening == {o \in PosEvents : \A e \in Normalize(Payload[o]) : e.type \in CountedTypes}

Rows == [order : Orders, at : 0 .. MaxClock]

RowsOf(o) == {r \in rows : r.order = o}
SavesOf(o) == {r \in saving : r.order = o}

(* insert_pos_event: INSERT ... ON CONFLICT DO NOTHING, with the table's   *)
(* UNIQUE (provider, event_id, received_at).                               *)
Insert(table, r) == table \union {r}

Init ==
    /\ clock = 0
    /\ store = <<>> /\ counted = [o \in Opening |-> 0] /\ saving = {}
    /\ rows = {} /\ acked = {} /\ restarts = 0
    /\ unsaved = {} /\ noted = [k \in Keys |-> -1] /\ others = [k \in Keys |-> {}]

(* An answer reaches the provider or is lost on the way. *)
Answer(o) == acked' \in {acked, acked \union ({o} \intersect PosEvents)}

Delivered(k) ==
    others' = [j \in Keys |-> IF j = k THEN {} ELSE others[j] \union {k}]

\* mutant: an event the store knows is not counted again, but saved again
DeliverAgainSaves(o) ==
    /\ o \in Events
    /\ IsFresh(store, KeyOf(o), clock)
    /\ store' = AfterSeen(store, KeyOf(o), clock)
    /\ saving' = saving \union {[order |-> p, at |-> clock] : p \in {o} \intersect PosEvents}
    /\ Answer(o)
    /\ Delivered(KeyOf(o))
    /\ UNCHANGED <<clock, counted, rows, restarts, unsaved, noted>>

(* ingest_webhook, an event the store knows: answered at once. *)
DeliverAgain(o) ==
    /\ o \in Events
    /\ IsFresh(store, KeyOf(o), clock)
    /\ store' = AfterSeen(store, KeyOf(o), clock)
    /\ Answer(o)
    /\ Delivered(KeyOf(o))
    /\ UNCHANGED <<clock, counted, saving, rows, restarts, unsaved, noted>>

Accept(k) ==
    /\ ~IsFresh(store, k, clock)
    /\ store' = AfterSeen(store, k, clock)
    /\ noted' = [noted EXCEPT ![k] = clock]
    /\ Delivered(k)

(* ingest_webhook, an order the store does not know: _on_pos_event counts  *)
(* it and awaits the save.  No two receptions share a received_at.         *)
DeliverNew(o) ==
    /\ o \in PosEvents
    /\ clock > noted[KeyOf(o)]
    /\ Accept(KeyOf(o))
    /\ counted' = IF o \in Opening THEN [counted EXCEPT ![o] = @ + 1] ELSE counted
    /\ saving' = saving \union {[order |-> o, at |-> clock]}
    /\ UNCHANGED <<clock, rows, acked, restarts, unsaved>>

(* ingest_webhook, a booking the store does not know: _on_booking_event    *)
(* saves nothing, and publishes an estimate at most.                       *)
DeliverBooking(o) ==
    /\ o \in Bookings
    /\ Accept(KeyOf(o))
    /\ Answer(o)
    /\ UNCHANGED <<clock, counted, saving, rows, restarts, unsaved>>

(* The save commits; the request is answered. *)
Saved(r) ==
    /\ r \in saving
    /\ rows' = Insert(rows, r)
    /\ saving' = saving \ {r}
    /\ Answer(r.order)
    /\ UNCHANGED <<clock, store, counted, restarts, history>>

FaultAllowed == restarts + Cardinality(unsaved) < MaxFaults

(* The database refuses the save; the answer is a 500. *)
SaveFails(r) ==
    /\ r \in saving /\ FaultAllowed
    /\ saving' = saving \ {r}
    /\ unsaved' = unsaved \union {r.order}
    /\ UNCHANGED <<clock, store, counted, rows, acked, restarts, noted, others>>

(* The server restarts; some of the saves it was awaiting have committed. *)
Restart ==
    /\ FaultAllowed
    /\ restarts' = restarts + 1
    /\ store' = <<>> /\ counted' = [o \in Opening |-> 0] /\ saving' = {}
    /\ \E done \in SUBSET saving :
           /\ rows' = rows \union done
           /\ unsaved' = unsaved \union {r.order : r \in saving \ done}
    /\ others' = [k \in Keys |-> {}]
    /\ UNCHANGED <<clock, acked, noted>>

Tick ==
    /\ clock < MaxClock
    /\ clock' = clock + 1
    /\ UNCHANGED <<server, rows, acked, restarts, history>>

Next ==
    \/ \E o \in Orders : DeliverAgain(o) \/ DeliverNew(o) \/ DeliverBooking(o)
    \/ \E r \in saving : Saved(r) \/ SaveFails(r)
    \/ Restart
    \/ Tick

Spec == Init /\ [][Next]_vars

----------------------------------------------------------------------------
(* "POS providers retry" (base.py:4): the live state counts an order again *)
(* only when its entry is TTL old, or at least MaxSize other events came,  *)
(* bookings included, since the order was last delivered.                  *)
OnlyForgottenOrdersCountAgain ==
    [][\A o \in Opening :
           counted[o] > 0 /\ counted'[o] > counted[o] =>
               clock >= noted[KeyOf(o)] + TTL \/ Cardinality(others[KeyOf(o)]) >= MaxSize]_vars

(* An order the provider has an answer for, and will not send again, is in *)
(* the database or on its way there, unless one of its own saves failed or *)
(* was cut off by a restart, or another event was taken for it: one with   *)
(* the same id, which all events without an id have.                       *)
LossHasACause ==
    \A o \in acked :
        \/ RowsOf(o) # {} \/ SavesOf(o) # {} \/ o \in unsaved
        \/ \E p \in PosEvents \ {o} :
               /\ KeyOf(p) = KeyOf(o)
               /\ RowsOf(p) # {} \/ SavesOf(p) # {} \/ p \in unsaved

(* The live state and the database agree until the server restarts, unless *)
(* a save of the order was refused: an order that _on_pos_event counted is *)
(* stored or being stored, and it has no more rows and saves than it was   *)
(* counted times, however often it was sent.                               *)
LiveAgreesWithTable ==
    restarts = 0 => \A o \in Opening \ unsaved :
        /\ counted[o] > 0 => RowsOf(o) # {} \/ SavesOf(o) # {}
        /\ Cardinality(RowsOf(o)) + Cardinality(SavesOf(o)) <= counted[o]

(* "With WTE_DATABASE_URL set, events are also persisted" (state.py:3-4):  *)
(* when the provider gets its 2xx answer to an order, which it will then   *)
(* not send again, the order is stored or being stored.  The code does not *)
(* keep this: the order is marked as seen before it is saved (state.py:158)*)
(* so the retry of a failed save is answered 2xx and saves nothing.        *)
AckedIsStored ==
    [][\A o \in acked' \ acked : RowsOf(o)' # {} \/ SavesOf(o)' # {}]_vars

(* "idempotency (§6.3)" (001_init.sql:89): an event has one row at most.   *)
(* The code does not keep this: the unique index has received_at in it, the*)
(* time of each reception, so an event that the in-memory store no longer  *)
(* knows, after a restart or once it was forgotten, is another row.        *)
OneRowPerEvent == \A o \in PosEvents : Cardinality(RowsOf(o)) <= 1
============================================================================
