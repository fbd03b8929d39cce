----------------------------- MODULE Connectors -----------------------------
(***************************************************************************)
(* The connectors of Toast, Square and SevenRooms                          *)
(* (src/wte/connectors/toast.py, square.py, sevenrooms.py): from a         *)
(* provider's payload to the event of the program, if it is one.           *)
(*                                                                         *)
(*   p : [provider, type, id, completed], the id Absent when the payload   *)
(*       has none, completed when a fulfilment update says so              *)
(***************************************************************************)
EXTENDS TLC

CONSTANT Absent

(* The _EVENT_MAPs.  A type that they map to None is left out: either way *)
(* the event is ignored.                                                  *)
ToastEvents ==
    [ORDER_CREATED |-> "order_created", ORDER_COMPLETED |-> "order_completed",
     ORDER_VOIDED |-> "order_cancelled", CHECK_OPENED |-> "check_open",
     CHECK_CLOSED |-> "check_closed"]

SquareEvents ==
    "order.created" :> "order_created" @@ "payment.completed" :> "check_closed"
      @@ "order.fulfillment.updated" :> "order_completed"

SevenRoomsEvents ==
    "reservation.created" :> "reservation_created"
      @@ "reservation.arrived" :> "reservation_seated"
      @@ "reservation.seated" :> "reservation_seated"
      @@ "reservation.cancelled" :> "reservation_cancelled"
      @@ "reservation.no_show" :> "reservation_cancelled"

(* str() makes the id "None" of a missing one. *)
EventId(p) == IF p.id = Absent THEN "None" ELSE p.id

Translated(map, p) ==
    {[id |-> EventId(p), type |-> map[t]] : t \in DOMAIN map \intersect {p.type}}

(* normalize, as the set of the events it returns: none or one. *)
ToastNormalize(p) == Translated(ToastEvents, p)

SquareNormalize(p) ==
    {e \in Translated(SquareEvents, p) : e.type = "order_completed" => p.completed}

SevenRoomsNormalize(p) == Translated(SevenRoomsEvents, p)

Normalize(p) ==
    CASE p.provider = "toast"      -> ToastNormalize(p)
      [] p.provider = "square"     -> SquareNormalize(p)
      [] p.provider = "sevenrooms" -> SevenRoomsNormalize(p)

IsBooking(p) == p.provider = "sevenrooms"

\* mutant: the key leaves the provider out
KeyAnyProvider(p) == <<EventId(p)>>

(* The key of the deduplication store, for all tenants. *)
Key(p) == <<p.provider, EventId(p)>>
=============================================================================
