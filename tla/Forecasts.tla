------------------------------ MODULE Forecasts ------------------------------
(***************************************************************************)
(* Forecast runs of one site (services/forecast_service.py) and what is    *)
(* read from them: a run is committed before its provider is asked, its    *)
(* points are committed together when the provider has answered, and the   *)
(* expected surplus of the site pairs the newest solar prediction of each  *)
(* interval with the newest load prediction (domain/policies/surplus.py).  *)
(*                                                                         *)
(* The provider of the application is the same-period average of           *)
(* adapters/forecast/baseline.py. The registry accepts any other, which    *)
(* may raise or answer badly. Time is counted in slots, power in 0.001 kW. *)
(* A run's place in runs is the order of created_at, which is stamped      *)
(* before the run is committed.                                            *)
(***************************************************************************)
EXTENDS Integers, Sequences, FiniteSets, FiniteSetsExt

CONSTANTS
    Forecasters,  \* threads that serve POST /forecasts/runs
    LastSlot,     \* horizons and readings lie in 0 .. LastSlot
    Day,          \* slots in a day
    Window,       \* how far back history goes
    Observations, \* readings of the site's meters that telemetry may store
    Requests,     \* what is asked for
    Faults,       \* what providers other than the baseline do
    MaxRuns, MaxCrashes, \* bounds of the model
    Absent        \* a channel that was not measured, a point that is not there

Types == {"solar", "load"}
Slots == 0 .. LastSlot

ASSUME ForecastsAssumption ==
    /\ LastSlot \in Nat /\ Day \in Nat \ {0} /\ Window \in Nat /\ Absent \notin Int
    /\ \A r \in Observations :
        /\ DOMAIN r = {"meter", "start", "valid", "generation", "load"}
        /\ r.start \in Slots /\ r.valid \in BOOLEAN
        /\ {r.generation, r.load} \subseteq Nat \cup {Absent}
    /\ Faults \subseteq {"raises", "othertype", "short", "twice", "backward", "outside",
                          "overconfident", "crossed", "huge", "negative", "unknown"}
    /\ Requests \subseteq [type : Types, start : Slots, end : Slots, interval : 1 .. LastSlot]

VARIABLES
    readings, \* telemetry rows of the site
    runs,     \* forecast_runs with their forecast_points
    job,      \* job[w]: the request that w serves
    lost      \* runs whose request ended without saying so: its process was gone, or the
              \* database refused its points

forecastVars == <<readings, runs, job, lost>>

NoJob == [at |-> "idle"]

ForecastInit ==
    /\ readings = {}
    /\ runs = <<>>
    /\ job = [w \in Forecasters |-> NoJob]
    /\ lost = {}

-----------------------------------------------------------------------------
(***************************************************************************)
(* History.                                                                *)
(***************************************************************************)
\* What is absent counts as nothing, unless nothing was measured at all.
Sum(rows, channel) ==
    LET measured == {r \in rows : r[channel] # Absent}
    IN  IF measured = {} THEN Absent ELSE SumFunction([r \in measured |-> r[channel]])

\* The window is closed: a reading stamped at the horizon's start is in it.
InWindow(start) == {r \in readings : r.valid /\ r.start >= start - Window /\ r.start <= start}

\* One observation per slot, summed over the meters.
History(start) ==
    {[start |-> s,
      solar |-> Sum({r \in InWindow(start) : r.start = s}, "generation"),
      load |-> Sum({r \in InWindow(start) : r.start = s}, "load")] :
        s \in {r.start : r \in InWindow(start)}}

-----------------------------------------------------------------------------
(***************************************************************************)
(* The baseline provider.                                                  *)
(***************************************************************************)
Mean(sum, n) ==
    LET q == sum \div n
        r == 2 * (sum % n)
    IN  IF r > n \/ (r = n /\ q % 2 = 1) THEN q + 1 ELSE q

\* Buckets follow each other from the horizon's start; the last may be short.
Buckets(ask) ==
    [k \in 1 .. (ask.end - ask.start + ask.interval - 1) \div ask.interval |->
        LET s == ask.start + (k - 1) * ask.interval
        IN  [start |-> s, end |-> Min({s + ask.interval, ask.end})]]

\* "none" is a confidence of 0, "beyond" one outside of 0 to 1. A point is storable when
\* its bounds are in order and its columns hold its numbers.
Point(bucket, type, history) ==
    LET samples == {o \in history : o[type] # Absent /\ o.start % Day = bucket.start % Day}
    IN  [start |-> bucket.start, end |-> bucket.end, storable |-> TRUE,
         kw |-> IF samples = {} THEN 0
                ELSE Mean(SumFunction([o \in samples |-> o[type]]), Cardinality(samples)),
         confidence |-> IF samples = {} THEN "none" ELSE "some"]

Predict(ask, history) ==
    [type |-> ask.type,
     points |-> [k \in DOMAIN Buckets(ask) |-> Point(Buckets(ask)[k], ask.type, history)]]

-----------------------------------------------------------------------------
(***************************************************************************)
(* The service.                                                            *)
(***************************************************************************)
\* The run gets its created_at; the surplus type is refused, only Types get here.
RunForecast(w, ask) ==
    /\ job[w] = NoJob
    /\ ask.start < ask.end
    /\ Len(runs) < MaxRuns
    /\ runs' = Append(runs, [type |-> ask.type, start |-> ask.start, end |-> ask.end,
                             status |-> "uncommitted", points |-> {}])
    /\ job' = [job EXCEPT ![w] = [at |-> "stamped", run |-> Len(runs) + 1, ask |-> ask]]
    /\ UNCHANGED <<readings, lost>>

\* Runs may be committed in another order than they were stamped.
CommitRun(w) ==
    /\ job[w].at = "stamped"
    /\ runs' = [runs EXCEPT ![job[w].run].status = "running"]
    /\ job' = [job EXCEPT ![w].at = "begun"]
    /\ UNCHANGED <<readings, lost>>

GatherHistory(w) ==
    /\ job[w].at = "begun"
    /\ job' = [job EXCEPT ![w] = [at |-> "asked", run |-> job[w].run, ask |-> job[w].ask,
                                  history |-> History(job[w].ask.start)]]
    /\ UNCHANGED <<readings, runs, lost>>

ValidResult(ask, answer) ==
    LET points == {answer.points[k] : k \in DOMAIN answer.points}
    IN  /\ answer.type = ask.type
        /\ points # {}
        /\ Cardinality({p.start : p \in points}) = Len(answer.points)
        /\ \A p \in points : /\ p.start < p.end
                             /\ ask.start <= p.start /\ p.start < ask.end
                             /\ p.confidence # "beyond"

End(w, status, points) ==
    /\ runs' = [runs EXCEPT ![job[w].run].status = status, ![job[w].run].points = points]
    /\ job' = [job EXCEPT ![w] = NoJob]

\* Fault: the failure is not committed.
TakeSilently(w, answer) ==
    /\ job[w].at = "asked"
    /\ job' = [job EXCEPT ![w] =
                  IF ValidResult(job[w].ask, answer)
                  THEN [at |-> "answered", run |-> job[w].run,
                        points |-> {answer.points[k] : k \in DOMAIN answer.points}]
                  ELSE NoJob]
    /\ UNCHANGED <<readings, runs, lost>>

\* Predict and validate. A result that is refused, like a provider that raises, is
\* committed as a failure.
Take(w, answer) ==
    /\ job[w].at = "asked"
    /\ IF ValidResult(job[w].ask, answer)
       THEN /\ job' = [job EXCEPT ![w] = [at |-> "answered", run |-> job[w].run,
                                          points |-> {answer.points[k] : k \in DOMAIN answer.points}]]
            /\ UNCHANGED runs
       ELSE End(w, "failed", {})
    /\ UNCHANGED <<readings, lost>>

Answer(w) == job[w].at = "asked" /\ Take(w, Predict(job[w].ask, job[w].history))

\* What a provider may do wrong, as a change of the baseline's answer; raising is like
\* an answer without points.
Distorted(ask, answer, fault) ==
    CASE fault = "raises" -> [answer EXCEPT !.points = <<>>]
      [] fault = "othertype" -> [answer EXCEPT !.type = CHOOSE t \in Types : t # ask.type]
      [] fault = "short" -> [answer EXCEPT !.points = Tail(@)]
      [] fault = "twice" -> [answer EXCEPT !.points = Append(@, Head(@))]
      [] fault = "backward" -> [answer EXCEPT !.points[1].end = answer.points[1].start]
      [] fault = "outside" -> [answer EXCEPT !.points[1].start = ask.end, !.points[1].end = ask.end + 1]
      [] fault = "overconfident" -> [answer EXCEPT !.points[1].confidence = "beyond"]
      [] fault \in {"crossed", "huge"} -> [answer EXCEPT !.points[1].storable = FALSE]
      [] fault = "negative" -> [answer EXCEPT !.points[1].kw = -1]
      [] fault = "unknown" -> [answer EXCEPT !.points[1].kw = Absent]

OtherAnswer(w, fault) ==
    /\ job[w].at = "asked"
    /\ Take(w, Distorted(job[w].ask, Predict(job[w].ask, job[w].history), fault))

\* The points and the status in one transaction. A pair of bounds in the wrong order, or a
\* number too large for its column, is refused by the database, outside of the try block.
StorePoints(w) ==
    /\ job[w].at = "answered"
    /\ IF \A p \in job[w].points : p.storable
       THEN End(w, "completed", job[w].points) /\ UNCHANGED lost
       ELSE job' = [job EXCEPT ![w] = NoJob] /\ lost' = lost \cup {job[w].run} /\ UNCHANGED runs
    /\ UNCHANGED readings

Crash(w) ==
    /\ job[w] # NoJob
    /\ Cardinality(lost) < MaxCrashes
    /\ lost' = lost \cup {job[w].run}
    /\ job' = [job EXCEPT ![w] = NoJob]
    /\ UNCHANGED <<readings, runs>>

\* Telemetry stores a reading; a meter has one per slot.
Measure(row) ==
    /\ \A r \in readings : <<r.meter, r.start>> # <<row.meter, row.start>>
    /\ readings' = readings \cup {row}
    /\ UNCHANGED <<runs, job, lost>>

ForecastNext ==
    \/ \E w \in Forecasters :
        \/ \E ask \in Requests : RunForecast(w, ask)
        \/ CommitRun(w)
        \/ GatherHistory(w)
        \/ Answer(w)
        \/ \E fault \in Faults : OtherAnswer(w, fault)
        \/ StorePoints(w)
        \/ Crash(w)
    \/ \E row \in Observations : Measure(row)

ForecastSpec == ForecastInit /\ [][ForecastNext]_forecastVars

-----------------------------------------------------------------------------
(***************************************************************************)
(* What is read from the runs.                                             *)
(***************************************************************************)
Predicting(type, start) ==
    {i \in DOMAIN runs : /\ runs[i].status = "completed" /\ runs[i].type = type
                         /\ \E p \in runs[i].points : p.start = start}

\* Fault: rows come newest run first, and the last one is kept.
LatestIsFirst(type, start) ==
    IF Predicting(type, start) = {} THEN 0 ELSE Min(Predicting(type, start))

\* The newest run that predicts the interval, by created_at.
Latest(type, start) == IF Predicting(type, start) = {} THEN 0 ELSE Max(Predicting(type, start))

Prediction(type, start) ==
    IF Latest(type, start) = 0 THEN Absent
    ELSE CHOOSE p \in runs[Latest(type, start)].points : p.start = start

\* What a point predicts; a provider may leave it open.
Kw(point) == IF point = Absent THEN Absent ELSE point.kw

\* Fault: the load is what may be sold.
SurplusSwapped ==
    {LET generation == Prediction("solar", s)
         load == Prediction("load", s)
     IN  [start |-> s,
          end |-> IF generation # Absent THEN generation.end ELSE load.end,
          kw |-> IF Absent \in {Kw(generation), Kw(load)} THEN Absent ELSE Kw(load) - Kw(generation)] :
        s \in {t \in Slots : \E type \in Types : Latest(type, t) # 0}}

\* Generation and load are paired by the start of the interval; the end is the generation's.
Surplus ==
    {LET generation == Prediction("solar", s)
         load == Prediction("load", s)
     IN  [start |-> s,
          end |-> IF generation # Absent THEN generation.end ELSE load.end,
          kw |-> IF Absent \in {Kw(generation), Kw(load)} THEN Absent ELSE Kw(generation) - Kw(load)] :
        s \in {t \in Slots : \E type \in Types : Latest(type, t) # 0}}

ExportableKw(p) == IF p.kw = Absent THEN 0 ELSE Max({0, p.kw})

\* An interval counts with its duration: its power is offered in each slot that it covers.
Over(points, t) == {p \in points : p.start <= t /\ t < p.end}
Offered(surplus, t) == SumFunction([p \in Over(surplus, t) |-> ExportableKw(p)])

-----------------------------------------------------------------------------
(***************************************************************************)
(* Properties.                                                             *)
(***************************************************************************)
\* The completed runs of a type, and those with a prediction for slot t.
Completed(type) == {i \in DOMAIN runs : runs[i].status = "completed" /\ runs[i].type = type}
Covering(type, t) == {i \in Completed(type) : Over(runs[i].points, t) # {}}
PointsOver(type, t) == UNION {Over(runs[i].points, t) : i \in Covering(type, t)}

\* What the newest solar run with a prediction for slot t predicts there.
NewestAt(t) ==
    IF Covering("solar", t) = {} THEN 0
    ELSE Max({0} \cup {p.kw : p \in {q \in Over(runs[Max(Covering("solar", t))].points, t) :
                                       q.kw \in Nat}})

\* The solar intervals over slot t start together: around t their runs share a grid.
OneStart(t) == \A p, q \in PointsOver("solar", t) : p.start = q.start

\* No load that is paired with them is negative, which no check keeps a provider from.
NoNegativeLoad(t) ==
    \A p \in PointsOver("solar", t), i \in Completed("load") : \A q \in runs[i].points :
        q.start = p.start => q.kw = Absent \/ q.kw >= 0

\* The power that the surplus offers for sale in a slot is never more than the newest solar
\* run for that slot predicts there: an older prediction is not served in its place, and no
\* energy is counted once per run that predicted it. This takes solar intervals over the slot
\* that start together, and loads for them that are not negative; elsewhere the runs may
\* have other buckets and other loads. (latest_per_interval_for_site, calculate_surplus.)
NoMoreThanForecast ==
    LET surplus == Surplus
    IN  \A t \in Slots : OneStart(t) /\ NoNegativeLoad(t) => Offered(surplus, t) <= NewestAt(t)

\* Where the intervals start that are served.
PredictedStarts(type) == {p.start : p \in UNION {runs[i].points : i \in Completed(type)}}

\* What is served for an interval is never replaced by an older prediction, in whatever
\* order concurrent runs end. (list_for_site's order by created_at.)
NeverOlder ==
    [][\A type \in Types : \A s \in PredictedStarts(type) : Latest(type, s)' >= Latest(type, s)]_forecastVars

\* A run that is still "running" has a process at work on it, unless that process crashed or
\* the database refused its points: whatever else the provider does is recorded.
\* (run_forecast, _mark_failed.)
FailureRecorded ==
    \A i \in DOMAIN runs : runs[i].status = "running" =>
        i \in lost \/ \E w \in Forecasters : job[w] # NoJob /\ job[w].run = i
=============================================================================
