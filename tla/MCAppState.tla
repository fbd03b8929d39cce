---------------------------- MODULE MCAppState ----------------------------
(* The cameras of the runs. *)
EXTENDS AppState

Camera(tenant, id) == [tenant |-> tenant, location |-> "soho", id |-> id]

OneTenant == {Camera("A", "front"), Camera("A", "back")}
===========================================================================
