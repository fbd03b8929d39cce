----------------------------- MODULE MCWebhook -----------------------------
(* The events of the run: an order of Toast, two of its checks whose       *)
(* payloads have no id, a seated booking, and an update of Square about a  *)
(* fulfilment that is not completed.                                       *)
EXTENDS Webhook

CONSTANTS order, check, otherCheck, booking, update

Content(provider, type, id) ==
    [provider |-> provider, type |-> type, id |-> id, completed |-> FALSE]

MCPayload ==
    order :> Content("toast", "ORDER_CREATED", "e1")
      @@ check :> Content("toast", "CHECK_OPENED", Absent)
      @@ otherCheck :> Content("toast", "CHECK_OPENED", Absent)
      @@ booking :> Content("sevenrooms", "reservation.seated", "e1")
      @@ update :> Content("square", "order.fulfillment.updated", "e1")

CheckSymmetry == Permutations({check, otherCheck})
============================================================================
