----------------------------- MODULE MCForecast -----------------------------
EXTENDS Forecast

(* Two observations in a bucket, one in the next slot, one at the time of  *)
(* the first a day and one a week later, one at another time of day.       *)
MCObservations == {<<0, 6>>, <<1, 1>>, <<2, 4>>, <<8, 2>>, <<16, 8>>, <<22, 3>>}

(* The library's forecast rises from below zero, or ends above its own     *)
(* upper bound.                                                            *)
MCFits ==
    {[i \in 1 .. Horizon |-> [lower |-> 100 * (i - 4), yhat |-> 100 * (i - 2), upper |-> 100 * i]],
     [i \in 1 .. Horizon |-> [lower |-> 100, yhat |-> 200 + 50 * (i % 3), upper |-> 250]]}
=============================================================================
