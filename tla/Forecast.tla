------------------------------ MODULE Forecast ------------------------------
(***************************************************************************)
(* The "best time to visit" of one location: observations are collapsed    *)
(* into buckets, forecast by the season they belong to                     *)
(* (src/wte/forecast), kept in the service's cache, saved, and read as a   *)
(* forecast or as the best times (src/wte/api/main.py).                    *)
(*                                                                         *)
(* Times are integers.  A series holds tenths of the unit of the           *)
(* observations and a forecast hundredths, so that the interpolated        *)
(* quantiles are integers.                                                 *)
(*                                                                         *)
(* The warm tier is forecast by Prophet, an optional dependency: what it   *)
(* forecasts is one of Fits, about which nothing is assumed.  Where it is  *)
(* not installed a warm training raises, because make_forecaster catches   *)
(* the ImportError of a constructor that imports nothing; fit does.        *)
(***************************************************************************)
EXTENDS Integers, FiniteSets, Sequences, SequencesExt, OrderStatistics

CONSTANTS
    Observations,   \* the observations clients train with, <<ts, minutes>>
    Step,           \* the length of a bucket
    Day, Week,      \* the length of a day and of a week
    Horizon,        \* steps of a forecast
    Fits,           \* what the library may forecast, in hundredths, step by step
    MinSlotObs,     \* SeasonalNaiveForecaster.min_slot_obs
    ColdDays,       \* days of data below which a location is cold
    MinGapSteps,    \* best_windows' min_gap_steps
    Best,           \* best-times' n
    Start,          \* the server's clock at first
    MaxClock, MaxTrainings,    \* bounds of the runs
    None

ASSUME ForecastAssumption ==
    /\ Step \in Nat \ {0} /\ Day % Step = 0 /\ Week % Day = 0
    /\ {MinSlotObs, MinGapSteps, Best} \subseteq Nat \ {0} /\ Horizon \in Nat
    /\ Observations \subseteq Int \X Int /\ IsFiniteSet(Observations)
    /\ {Day, Week, Start} \subseteq Int
    /\ Fits \subseteq [1 .. Horizon -> [lower : Int, yhat : Int, upper : Int]]
    /\ None \notin [id : Nat, tier : {"cold", "warm"}, model : {"seasonal_naive", "prophet"},
                    points : Seq([ts : Int, q10 : Int, q50 : Int, q90 : Int])]

VARIABLES
    prophet,     \* whether Prophet is installed
    serverTime,  \* the server's clock
    trained,     \* trainings begun
    cache,       \* ForecastService._cache of the location
    saving,      \* forecasts whose insert is under way
    stored,      \* forecasts in the table
    basis,       \* history: the observations of the cached forecast
    earlier,     \* history: the trainings begun before the server last started
    raised       \* history: the trainings that raised

forecastVars == <<prophet, serverTime, trained, cache, saving, stored, basis, earlier, raised>>

---------------------------------------------------------------------------
(* bucket *)
Bucket(ts) == (ts \div Step) * Step

(* aggregate_to_buckets: the median of each bucket. *)
Series(obs) ==
    [b \in {Bucket(o[1]) : o \in obs} |->
        Quantile([o \in {p \in obs : Bucket(p[1]) = b} |-> o[2]], 5)]

(* tier_for, for a tenant that counts as one location. *)
Tier(series) ==
    LET b == DOMAIN series
    IN  IF \E x, y \in b : y - x >= ColdDays * Day THEN "warm" ELSE "cold"

\* mutant: a slot with too few observations is forecast as no wait
SlotOnly(series, ts) ==
    LET daily == {b \in DOMAIN series : b % Day = ts % Day}
    IN  IF Cardinality(daily) < MinSlotObs THEN {} ELSE daily

(* The observations that SeasonalNaiveForecaster goes by: of the same time *)
(* of the same weekday, of the same time of day, or all.                   *)
SlotBuckets(series, ts) ==
    LET weekly == {b \in DOMAIN series : b % Week = ts % Week}
        daily == {b \in DOMAIN series : b % Day = ts % Day}
    IN  IF Cardinality(weekly) >= MinSlotObs THEN weekly
        ELSE IF Cardinality(daily) >= MinSlotObs THEN daily
        ELSE DOMAIN series

(* predict, for one point: zero if there is nothing to go by. *)
Predict(series, ts) ==
    LET slot == SlotBuckets(series, ts)
        f == [b \in slot |-> series[b]]
        q(tenths) == IF slot = {} THEN 0 ELSE Quantile(f, tenths)
        q50 == q(5)
    IN  [ts |-> ts, q10 |-> q(1), q50 |-> q50, q90 |-> IF q(9) > q50 THEN q(9) ELSE q50]

Clamped(w) == IF w > 0 THEN w ELSE 0

(* ProphetForecaster.predict, for one point of the library's forecast.     *)
Interval(f, ts) ==
    [ts |-> ts, q10 |-> Clamped(f.lower), q50 |-> Clamped(f.yhat), q90 |-> Clamped(f.upper)]

(* ForecastService.run: the forecasts it may return, with Horizon points   *)
(* from the next bucket on.  There is none when fit raises.                *)
Run(obs, id) ==
    LET series == Series(obs)
        Time(i) == Bucket(serverTime) + Step + (i - 1) * Step
        Made(model, points) ==
            [id |-> id, tier |-> Tier(series), model |-> model, points |-> points]
    IN  IF Tier(series) = "cold"
          THEN {Made("seasonal_naive", [i \in 1 .. Horizon |-> Predict(series, Time(i))])}
        ELSE IF prophet
          THEN {Made("prophet", [i \in 1 .. Horizon |-> Interval(f[i], Time(i))]) : f \in Fits}
        ELSE {}

Gap(p, c) == IF p.ts > c.ts THEN p.ts - c.ts ELSE c.ts - p.ts

(* Sorted by q50: of equals, Python's sort leaves the first one first. *)
Ranked(points) ==
    LET Before(i, j) == \/ points[i].q50 < points[j].q50
                        \/ points[i].q50 = points[j].q50 /\ i < j
        Place(i) == 1 + Cardinality({j \in DOMAIN points : Before(j, i)})
    IN  [k \in DOMAIN points |-> points[CHOOSE i \in DOMAIN points : Place(i) = k]]

\* mutant: a point is compared with the last choice only
WindowsApartFromLast(points) ==
    FoldLeft(LAMBDA chosen, p :
                IF Len(chosen) < Best
                     /\ (chosen = <<>> \/ Gap(p, Last(chosen)) >= MinGapSteps * Step)
                  THEN Append(chosen, p) ELSE chosen,
             <<>>, Ranked(points))

(* best_windows, before it is put in the order of time: the lowest points, *)
(* none close to one chosen before.                                        *)
BestWindows(points) ==
    FoldLeft(LAMBDA chosen, p :
                IF Len(chosen) < Best
                     /\ \A i \in DOMAIN chosen : Gap(p, chosen[i]) >= MinGapSteps * Step
                  THEN Append(chosen, p) ELSE chosen,
             <<>>, Ranked(points))

(* What best_times and get_forecast look at: nothing after now + span.     *)
(* (The points are in the order of time.)                                  *)
Ahead(fc, span) ==
    SubSeq(fc.points, 1, Cardinality({i \in DOMAIN fc.points : fc.points[i].ts <= serverTime + span}))

BestTimes(fc) == BestWindows(Ahead(fc, Day))

---------------------------------------------------------------------------
ForecastInit ==
    /\ prophet \in BOOLEAN
    /\ serverTime = Start /\ trained = 0 /\ cache = None
    /\ saving = {} /\ stored = {} /\ basis = {} /\ earlier = 0 /\ raised = {}

(* train_forecast, up to the insert. *)
Train(obs) ==
    /\ trained < MaxTrainings
    /\ trained' = trained + 1
    /\ \E fc \in Run(obs, trained') : cache' = fc /\ saving' = saving \union {fc}
    /\ basis' = obs
    /\ UNCHANGED <<prophet, serverTime, stored, earlier, raised>>

(* ... and when fit raises: the answer is a 500, the cache stays as it is. *)
TrainRaises(obs) ==
    /\ trained < MaxTrainings
    /\ Run(obs, trained + 1) = {}
    /\ trained' = trained + 1 /\ raised' = raised \union {trained'}
    /\ UNCHANGED <<prophet, serverTime, cache, saving, stored, basis, earlier>>

\* mutant: the forecast is cached once it is saved
SavedCaches(fc) ==
    /\ fc \in saving
    /\ saving' = saving \ {fc} /\ stored' = stored \union {fc}
    /\ cache' = fc
    /\ UNCHANGED <<prophet, serverTime, trained, basis, earlier, raised>>

(* The inserts of several trainings end in any order, or fail. *)
Saved(fc) ==
    /\ fc \in saving
    /\ saving' = saving \ {fc} /\ stored' = stored \union {fc}
    /\ UNCHANGED <<prophet, serverTime, trained, cache, basis, earlier, raised>>

SaveFails(fc) ==
    /\ fc \in saving
    /\ saving' = saving \ {fc}
    /\ UNCHANGED <<prophet, serverTime, trained, cache, stored, basis, earlier, raised>>

(* Nothing reads the table when the server starts. *)
Restart ==
    /\ cache # None
    /\ cache' = None /\ saving' = {} /\ basis' = {} /\ earlier' = trained
    /\ UNCHANGED <<prophet, serverTime, trained, stored, raised>>

TimePasses ==
    /\ serverTime < MaxClock /\ serverTime' = serverTime + 1
    /\ UNCHANGED <<prophet, trained, cache, saving, stored, basis, earlier, raised>>

ForecastNext ==
    \/ \E obs \in SUBSET Observations : Train(obs) \/ TrainRaises(obs)
    \/ \E fc \in saving : Saved(fc) \/ SaveFails(fc)
    \/ Restart \/ TimePasses

ForecastSpec == ForecastInit /\ [][ForecastNext]_forecastVars

---------------------------------------------------------------------------
(* "Lowest-wait windows" (README.md:105): the best times are MinGapSteps   *)
(* apart, and a time that is not among them is close to a better one that  *)
(* is, or all of them are as good and there are Best.                      *)
BestTimesAreBest ==
    cache # None =>
        LET best == ToSet(BestTimes(cache))
            close(p, c) == Gap(p, c) < MinGapSteps * Step
        IN  /\ \A p, c \in best : p # c => ~close(p, c)
            /\ \A p \in ToSet(Ahead(cache, Day)) \ best :
                  \/ \E c \in best : close(p, c) /\ c.q50 <= p.q50
                  \/ Cardinality(best) = Best /\ \A c \in best : c.q50 <= p.q50

(* "so it gives *something* from day 1" (models.py:38): whatever slots have *)
(* too few observations, a forecast of the seasonal forecaster lies within *)
(* what was observed, its quantiles in order.  Prophet's are not negative; *)
(* nothing in the code puts them in order.                                 *)
ForecastStaysInRange ==
    LET seen == [o \in basis |-> o[2]]
    IN  /\ cache # None /\ cache.model = "seasonal_naive" /\ basis # {} =>
              \A i \in 1 .. Horizon :
                  LET p == cache.points[i]
                  IN  /\ 100 * Kth(seen, 1) <= p.q10 /\ p.q10 <= p.q50
                      /\ p.q50 <= p.q90 /\ p.q90 <= 100 * Kth(seen, Cardinality(basis))
        /\ cache # None /\ cache.model = "prophet" =>
              \A i \in 1 .. Horizon :
                  LET p == cache.points[i]
                  IN  0 <= p.q10 /\ 0 <= p.q50 /\ 0 <= p.q90

(* Of trainings that overlap, the last to begin is the one that is served, *)
(* in whatever order their inserts end, and even if its own fails; but one *)
(* whose fit raised leaves what was served before, or nothing.             *)
NewestTrainingIsServed ==
    LET served == IF cache = None THEN earlier ELSE cache.id
    IN  \A t \in 1 .. trained : t > served => t \in raised

(* "prophet not installed -> still serve something" (service.py:35): once  *)
(* the location was trained since the server started, there is a forecast. *)
(* The code does not keep this: the ImportError comes from fit.            *)
SomethingIsServed == trained > earlier => cache # None
=============================================================================
