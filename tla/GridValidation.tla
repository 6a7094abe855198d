--------------------------- MODULE GridValidation ---------------------------
(***************************************************************************)
(* Judging whether a trade is safe for the network: the validation service *)
(* (services/grid_validation_service.py), the contract of an engine        *)
(* (domain/interfaces/grid.py), the rules of grid_limits.py, and the       *)
(* adapter of the power-flow library (power_grid_model_adapter.py).        *)
(*                                                                         *)
(* A validation reads the digital twin, solves it, which takes time, and   *)
(* then records its verdict in one transaction.  Requests run at once, the *)
(* twin is edited, and snapshots arrive late.  The rows of grid_nodes,     *)
(* grid_snapshots and grid_validation_runs are the state; notifications    *)
(* are in Realtime and the audit event of a run is in AuditChain.          *)
(*                                                                         *)
(* The library is external.  Its solution is a lossless radial flow: an    *)
(* element carries the power of the nodes below it, and a node's voltage   *)
(* moves with what flows on its way to the source.                         *)
(***************************************************************************)
EXTENDS Integers, Sequences, FiniteSets, FiniteSetsExt, Functions

CONSTANTS
    Workers,     \* threads that run validations
    Node,        \* nodes of the twin
    Parent,      \* Parent[n]: the node above n, or None
    Feeder,      \* Feeder[n]: the feeder that n belongs to
    Transformer, \* the nodes whose element is a transformer; the others hang on a line
    Twins,       \* states of the twin: functions from the nodes present to their rating
    Baseline,    \* Baseline[n]: power that n injects without any trade
    Trades,      \* proposed trades: records of the set Trade
    VoltageBand, \* GridLimits: how far a voltage may move
    LoadingPct,  \* GridLimits: how far an element may be loaded, in percent
    Captures,    \* <<feeder, time>>: when feeders are observed
    MaxRuns,     \* runs recorded, a bound of the model
    MaxEdits,    \* edits of the twin, a bound of the model
    Engines,     \* "adapter", and "other" for any other implementation of GridEngine
    None

\* A trade names the feeder whose network is to be judged, or None for the whole twin.
Trade == [seller : Node, buyer : Node, kw : Nat \ {0}, feeder : {Feeder[n] : n \in Node} \cup {None}]

\* A rating of zero stands for NULL: the twin records none.
ASSUME GridAssumption ==
    /\ IsFiniteSet(Node) /\ VoltageBand \in Int /\ LoadingPct \in Int
    /\ Parent \in [Node -> Node \cup {None}] /\ Transformer \subseteq Node
    /\ \A t \in Twins : \E present \in SUBSET Node : t \in [present -> Nat]
    /\ Baseline \in [Node -> Int] /\ Trades \subseteq Trade
    /\ Captures \subseteq {Feeder[n] : n \in Node} \X (Nat \ {0})
    /\ Engines \subseteq {"adapter", "other"}

VARIABLES
    twin,       \* grid_nodes: the nodes present and their ratings
    edits,      \* how often it was edited
    snapshots,  \* snapshots[f]: times of the snapshots recorded of feeder f, in order
    runs,       \* grid_validation_runs, in commit order
    request     \* request[w]: the validation that w runs

tables == <<twin, edits, snapshots, runs>>
vars == <<tables, request>>

Feeders == {Feeder[n] : n \in Node}
Status == {"safe", "unsafe", "unknown"}

-----------------------------------------------------------------------------
(***************************************************************************)
(* The network handed to an engine, and what it would find.                *)
(***************************************************************************)
\* build_network: the nodes of the feeder; a node hangs on its parent if that is there too.
BuildNetwork(f) == [n \in {m \in DOMAIN twin : f \in {None, Feeder[m]}} |-> twin[n]]

Elements(net) == {n \in DOMAIN net : Parent[n] \in DOMAIN net}
Unrated(net) == {n \in Elements(net) : net[n] = 0}

\* combined_injections: per node, the baseline plus what the trade adds; hours are 1.
Proposed(t) == [n \in Node |-> (IF n = t.seller THEN t.kw ELSE 0) - (IF n = t.buyer THEN t.kw ELSE 0)]

\* Fault: only what the trade adds is solved.
ProposalAlone(t) == Proposed(t)

Combined(t) == [n \in Node |-> Baseline[n] + Proposed(t)[n]]

\* The elements between n and its source: those that are met going up from n, which takes
\* fewer steps than there are nodes.
Path(n, net) ==
    LET way[k \in 0 .. Cardinality(DOMAIN net)] ==
          IF k = 0 THEN {n}
          ELSE LET met == way[k - 1] IN met \cup {Parent[m] : m \in met \cap Elements(net)}
    IN  Elements(net) \cap way[Cardinality(DOMAIN net)]

\* The library.  Injections at nodes that are not in the network are not passed to it.
Flow(e, net, inj) == SumFunctionOnSet(inj, {n \in DOMAIN net : e \in Path(n, net)})
Shift(n, net, inj) == SumFunctionOnSet([e \in Elements(net) |-> Flow(e, net, inj)], Path(n, net))
Size(x) == IF x < 0 THEN -x ELSE x

OverLoaded(e, net, inj, pct) == net[e] > 0 /\ 100 * Size(Flow(e, net, inj)) > pct * net[e]
KindOf(e) == IF e \in Transformer THEN "transformer_overload" ELSE "line_overload"

\* evaluate_metrics, on the extremes over the network; no element is named.
EvaluateMetrics(net, inj) ==
    {<<KindOf(e), None>> : e \in {x \in Elements(net) : OverLoaded(x, net, inj, LoadingPct)}}
    \cup {<<"under_voltage", None>> : n \in {m \in DOMAIN net : Shift(m, net, inj) < -VoltageBand}}
    \cup {<<"over_voltage", None>> : n \in {m \in DOMAIN net : Shift(m, net, inj) > VoltageBand}}

\* _extract_metrics: elements above their rating, whatever the limits are.
PerElement(net, inj) ==
    {<<KindOf(e), e>> : e \in {x \in Elements(net) : OverLoaded(x, net, inj, 100)}}

\* Violations of an element take the place of those of its kind.
Violations(net, inj) ==
    LET own == PerElement(net, inj)
    IN  own \cup {v \in EvaluateMetrics(net, inj) : \A p \in own : p[1] # v[1]}

\* PowerGridModelAdapter.validate.  A baseline that cannot be solved counts as clean.
AdapterResults(net, t) ==
    LET found == Violations(net, Combined(t))
    IN  {[status |-> IF found = {} THEN "safe" ELSE "unsafe", valid |-> TRUE, caused |-> found \ base]
         : base \in {{}, Violations(net, Baseline)}}

\* Another engine gives any verdict, and blames violations on the trade or does not.
OtherResults == [status : Status, valid : BOOLEAN, caused : {{}, {<<"line_overload", None>>}}]

EngineResults(engine, net, t) == IF engine = "other" THEN OtherResults ELSE AdapterResults(net, t)

\* Fault: a verdict stands although elements had no rating.
ResolveTrusting(net, result) ==
    IF result.status # "unknown" /\ result.caused # {} THEN "unsafe" ELSE result.status

\* resolve_status and effective_status: missing ratings take a pass away, and a breach
\* that the trade causes makes a solved network unsafe.
Resolve(net, result) ==
    LET status == IF result.status = "safe" /\ Unrated(net) # {} THEN "unknown" ELSE result.status
    IN  IF status # "unknown" /\ result.caused # {} THEN "unsafe" ELSE status

\* Fault: what was violated before does not count.
DecideByCause(status, caused) == IF caused = {} THEN "accept" ELSE "reject"

Decide(status, caused) == IF status = "safe" /\ caused = {} THEN "accept" ELSE "reject"

-----------------------------------------------------------------------------
Free == [op |-> "free"]
Go(w, r) == request' = [request EXCEPT ![w] = r]
Doing(w, op) == request[w].op = op

Init ==
    /\ twin \in Twins
    /\ edits = 0
    /\ snapshots = [f \in Feeders |-> <<>>]
    /\ runs = <<>>
    /\ request = [w \in Workers |-> Free]

Recorded(f) == {snapshots[f][i] : i \in DOMAIN snapshots[f]}

\* Fault: the snapshot recorded last.
LastRow(f) == IF snapshots[f] = <<>> THEN 0 ELSE snapshots[f][Len(snapshots[f])]

\* GridSnapshotRepository.latest_for_feeder: by the time of observation; 0 is none.
LatestForFeeder(f) == IF f = None THEN 0 ELSE Max(Recorded(f) \cup {0})

\* validate_trade: the network is read and the request for the engine is built.
ValidateTrade(w, t, engine) ==
    /\ request[w] = Free /\ Len(runs) < MaxRuns
    /\ DOMAIN BuildNetwork(t.feeder) # {}
    /\ Go(w, [op |-> "solve", trade |-> t, engine |-> engine, net |-> BuildNetwork(t.feeder),
              read |-> edits, after |-> Len(runs), snapshot |-> LatestForFeeder(t.feeder)])
    /\ UNCHANGED tables

RunsFor(t) == {i \in DOMAIN runs : runs[i].trade = t}

\* Fault: ascending order.
FirstForTrade(t) == Min(RunsFor(t))

\* GridValidationRunRepository.latest_for_trade: by created_at, the order of runs.
LatestForTrade(t) == Max(RunsFor(t))

RunOf(r, status, decision) ==
    [trade |-> r.trade, engine |-> r.engine, net |-> r.net, read |-> r.read, after |-> r.after,
     snapshot |-> r.snapshot, status |-> status, decision |-> decision]

\* The engine answers and the answer keeps to the contract: it is ready to be recorded.
Answer(w) ==
    /\ Doing(w, "solve")
    /\ \E result \in EngineResults(request[w].engine, request[w].net, request[w].trade) :
         LET status == Resolve(request[w].net, result)
         IN  /\ result.valid
             /\ Go(w, [op |-> "record", run |-> RunOf(request[w], status, Decide(status, result.caused))])
    /\ UNCHANGED tables

\* _validate_result: a result that breaks the contract ends the request with an error.
\* What the adapter answers never does.
InvalidAnswer(w) ==
    /\ Doing(w, "solve") /\ request[w].engine = "other"
    /\ Go(w, Free)
    /\ UNCHANGED tables

\* The engine raises, or cannot solve the trade's network: the refusal is recorded.
EngineFails(w) ==
    /\ Doing(w, "solve")
    /\ Go(w, [op |-> "record", run |-> RunOf(request[w], "unknown", "reject")])
    /\ UNCHANGED tables

\* _record, the audit event and the commit; after a failure the caller gets the error.
Record(w) ==
    /\ Doing(w, "record") /\ Len(runs) < MaxRuns
    /\ runs' = Append(runs, request[w].run)
    /\ Go(w, Free)
    /\ UNCHANGED <<twin, edits, snapshots>>

\* The transaction is lost, for instance to another that claimed the audit chain's head.
Fails(w) ==
    /\ request[w] # Free
    /\ Go(w, Free)
    /\ UNCHANGED tables

\* record_snapshot: the network as it was observed at some time, perhaps long ago.
RecordSnapshot(f, c) ==
    /\ <<f, c>> \in Captures /\ c \notin Recorded(f)
    /\ snapshots' = [snapshots EXCEPT ![f] = Append(@, c)]
    /\ UNCHANGED <<twin, edits, runs, request>>

\* The twin is edited: nodes join or get another rating.
EditTwin ==
    /\ edits < MaxEdits
    /\ twin' \in Twins \ {twin}
    /\ edits' = edits + 1
    /\ UNCHANGED <<snapshots, runs, request>>

Next ==
    \/ \E w \in Workers : \/ \E t \in Trades, engine \in Engines : ValidateTrade(w, t, engine)
                          \/ Answer(w) \/ InvalidAnswer(w) \/ EngineFails(w)
                          \/ Record(w) \/ Fails(w)
    \/ \E capture \in Captures : RecordSnapshot(capture[1], capture[2])
    \/ EditTwin

Spec == Init /\ [][Next]_vars

-----------------------------------------------------------------------------
(***************************************************************************)
(* Properties.                                                             *)
(***************************************************************************)
\* The network that a run judged, with the trade on top of what flows there anyway, is
\* within every limit, and nothing it depends on was missing.
Cleared(r) ==
    LET power == [n \in Node |-> Baseline[n] + Proposed(r.trade)[n]]
    IN  /\ \A n \in DOMAIN r.net : Size(Shift(n, r.net, power)) <= VoltageBand
        /\ \A e \in Elements(r.net) :
              /\ r.net[e] > 0
              /\ 100 * Size(Flow(e, r.net, power)) <= Min({LoadingPct, 100}) * r.net[e]

\* With the adapter, an accepted trade's network was solved and cleared: a failure never
\* reads as a pass. Whatever another engine says, missing information is never one
\* (GridEngine.validate, resolve_status).
AcceptedIsCleared ==
    \A i \in DOMAIN runs : runs[i].decision = "accept" =>
        /\ Unrated(runs[i].net) = {}
        /\ runs[i].engine = "adapter" => Cleared(runs[i])

\* Each of two validations began before the other was recorded.
Overlapped(i, j) == i > runs[j].after /\ j > runs[i].after

\* What is read as the most recent judgement of a trade is of a twin at least as new as that
\* of every judgement it did not overlap with; and a snapshot that arrives late is never cited
\* as the current state once a newer one was (latest_for_trade, latest_for_feeder).
LatestJudgesNewest ==
    \A i \in DOMAIN runs :
        LET latest == LatestForTrade(runs[i].trade)
        IN  /\ runs[i].read <= runs[latest].read \/ Overlapped(i, latest)
            /\ \A j \in DOMAIN runs :
                  /\ runs[i].trade.feeder = runs[j].trade.feeder
                  /\ i < j /\ ~Overlapped(i, j)
                  => runs[i].snapshot <= runs[j].snapshot
=============================================================================
