------------------------ MODULE GridValidationProofs ------------------------
(***************************************************************************)
(* Proofs, for any twin, trades, baseline, limits, workers and bounds, of  *)
(* the two promises of a validation run: what was accepted is cleared, and *)
(* what is read as the latest judgement judges the newest twin.            *)
(*                                                                         *)
(* The first rests on VerdictInv: a run that is ready to be recorded has   *)
(* it already.  Where an element or a node breaks no limit, the number     *)
(* that was compared keeps it, because sums of integers are integers.      *)
(*                                                                         *)
(* The second rests on OrderInv: edits and snapshots only ever grow, so    *)
(* whoever reads them reads at least what every run recorded until then    *)
(* has read.                                                               *)
(***************************************************************************)
EXTENDS GridValidation, ArithmeticTheorems, SequenceTheorems

\* A part of the network, with its ratings.
Networks == UNION {[D -> Nat] : D \in SUBSET Node}

Run == [trade : Trades, engine : Engines, net : Networks, read : Nat, after : Nat,
        snapshot : Nat, status : Status, decision : {"accept", "reject"}]

Solving == [op : {"solve"}, trade : Trades, engine : Engines, net : Networks, read : Nat,
            after : Nat, snapshot : Nat]
Recording == [op : {"record"}, run : Run]

TypeOK ==
    /\ twin \in Networks
    /\ edits \in Nat
    /\ snapshots \in [Feeders -> Seq(Nat)]
    /\ runs \in Seq(Run)
    /\ request \in [Workers -> {Free} \cup Solving \cup Recording]

-----------------------------------------------------------------------------
(***************************************************************************)
(* Flows and limits.                                                       *)
(***************************************************************************)
LEMMA NetworkParts ==
    ASSUME NEW net \in Networks
    PROVE  /\ DOMAIN net \subseteq Node /\ IsFiniteSet(DOMAIN net)
           /\ \A n \in DOMAIN net : net[n] \in Nat
           /\ Elements(net) \subseteq DOMAIN net /\ IsFiniteSet(Elements(net))
  <1>1. PICK D \in SUBSET Node : net \in [D -> Nat]
    BY DEF Networks
  <1>2. DOMAIN net = D /\ \A n \in D : net[n] \in Nat
    BY <1>1
  <1>3. IsFiniteSet(D)
    BY GridAssumption, FS_Subset
  <1>4. Elements(net) \subseteq D
    BY <1>2 DEF Elements
  <1>5. IsFiniteSet(Elements(net))
    BY <1>3, <1>4, FS_Subset
  <1>6. QED
    BY <1>2, <1>3, <1>4, <1>5

\* What flows through an element, and how far a voltage moves, are integers.
LEMMA FlowType ==
    ASSUME NEW net \in Networks, NEW inj \in [Node -> Int], NEW e
    PROVE  Flow(e, net, inj) \in Int
  <1>1. PICK S : S = {n \in DOMAIN net : e \in Path(n, net)}
    OBVIOUS
  <1>2. S \subseteq DOMAIN net /\ DOMAIN net \subseteq Node /\ IsFiniteSet(DOMAIN net)
    BY <1>1, NetworkParts
  <1>3. IsFiniteSet(S)
    BY <1>2, FS_Subset
  <1>4. \A n \in S : inj[n] \in Int
    BY <1>2
  <1>5. SumFunctionOnSet(inj, S) \in Int
    BY <1>3, <1>4, SumType
  <1>6. QED
    BY <1>1, <1>5 DEF Flow

LEMMA ShiftType ==
    ASSUME NEW net \in Networks, NEW inj \in [Node -> Int], NEW n
    PROVE  Shift(n, net, inj) \in Int
  <1>1. PICK S : S = Path(n, net)
    OBVIOUS
  <1>2. S \subseteq Elements(net)
    BY <1>1 DEF Path
  <1>3. IsFiniteSet(S)
    BY <1>2, NetworkParts, FS_Subset
  <1>4. PICK f : f = [e \in Elements(net) |-> Flow(e, net, inj)]
    OBVIOUS
  <1>5. \A e \in S : f[e] \in Int
    BY <1>2, <1>4, FlowType
  <1>6. SumFunctionOnSet(f, S) \in Int
    BY <1>3, <1>5, SumType
  <1>7. QED
    BY <1>1, <1>4, <1>6 DEF Shift

LEMMA CombinedType ==
    ASSUME NEW t \in Trades
    PROVE  /\ Combined(t) \in [Node -> Int]
           /\ Combined(t) = [n \in Node |-> Baseline[n] + Proposed(t)[n]]
  <1>1. t.kw \in Int
    BY GridAssumption DEF Trade
  <1>2. \A n \in Node : Proposed(t)[n] \in Int
    BY <1>1 DEF Proposed
  <1>3. \A n \in Node : Baseline[n] + Proposed(t)[n] \in Int
    BY <1>2, GridAssumption
  <1>4. QED
    BY <1>3 DEF Combined

LEMMA SizeWithin ==
    ASSUME NEW x \in Int, NEW b \in Int, ~(x < -b), ~(x > b)
    PROVE  Size(x) <= b
  BY DEF Size

LEMMA SizeType == ASSUME NEW x \in Int PROVE Size(x) \in Nat
  BY DEF Size

LEMMA LeastOfTwo ==
    ASSUME NEW a \in Int, NEW b \in Int
    PROVE  Min({a, b}) = IF a <= b THEN a ELSE b
  BY DEF Min

\* A network in which nothing is violated, and no rating is missing, is within every limit.
LEMMA NoViolationClears ==
    ASSUME NEW net \in Networks, NEW inj \in [Node -> Int], Violations(net, inj) = {},
           Unrated(net) = {}
    PROVE  /\ \A n \in DOMAIN net : Size(Shift(n, net, inj)) <= VoltageBand
           /\ \A e \in Elements(net) :
                 /\ net[e] > 0
                 /\ 100 * Size(Flow(e, net, inj)) <= Min({LoadingPct, 100}) * net[e]
  <1>1. PerElement(net, inj) = {}
    BY DEF Violations
  <1>2. EvaluateMetrics(net, inj) = {}
    BY <1>1 DEF Violations
  <1>3. ASSUME NEW n \in DOMAIN net
        PROVE  Size(Shift(n, net, inj)) <= VoltageBand
    <2>1. Shift(n, net, inj) \in Int /\ VoltageBand \in Int
      BY ShiftType, GridAssumption
    <2>2. ~(Shift(n, net, inj) < -VoltageBand)
      BY <1>2 DEF EvaluateMetrics
    <2>3. ~(Shift(n, net, inj) > VoltageBand)
      BY <1>2 DEF EvaluateMetrics
    <2>4. QED
      BY <2>1, <2>2, <2>3, SizeWithin
  <1>4. ASSUME NEW e \in Elements(net)
        PROVE  /\ net[e] > 0
               /\ 100 * Size(Flow(e, net, inj)) <= Min({LoadingPct, 100}) * net[e]
    <2>1. PICK f : f = Size(Flow(e, net, inj))
      OBVIOUS
    <2>2. f \in Nat /\ net[e] \in Nat /\ LoadingPct \in Int
      BY <2>1, FlowType, SizeType, NetworkParts, GridAssumption
    <2>3. net[e] > 0
      BY <2>2 DEF Unrated
    <2>4. ~OverLoaded(e, net, inj, 100)
      BY <1>1 DEF PerElement
    <2>5. ~OverLoaded(e, net, inj, LoadingPct)
      BY <1>2 DEF EvaluateMetrics
    <2>6. ~(100 * f > 100 * net[e]) /\ ~(100 * f > LoadingPct * net[e])
      BY <2>1, <2>3, <2>4, <2>5 DEF OverLoaded
    <2>7. PICK m : m = Min({LoadingPct, 100})
      OBVIOUS
    <2>8. m = LoadingPct \/ m = 100
      BY <2>2, <2>7, LeastOfTwo
    <2>9. CASE m = 100
      <3>1. 100 * f <= m * net[e]
        BY <2>2, <2>6, <2>9
      <3>2. QED
        BY <2>1, <2>3, <2>7, <3>1
    <2>10. CASE m = LoadingPct
      <3>1. PICK p : p = LoadingPct * net[e]
        OBVIOUS
      <3>2. p \in Int /\ ~(100 * f > p)
        BY <2>2, <2>6, <3>1
      <3>3. 100 * f <= p
        BY <2>2, <3>2
      <3>4. QED
        BY <2>1, <2>3, <2>7, <2>10, <3>1, <3>3
    <2>11. QED
      BY <2>8, <2>9, <2>10
  <1>5. QED
    BY <1>3, <1>4

-----------------------------------------------------------------------------
(***************************************************************************)
(* Types.                                                                  *)
(***************************************************************************)
LEMMA BuiltType ==
    ASSUME twin \in Networks, NEW f
    PROVE  BuildNetwork(f) \in Networks
  <1>1. PICK D : D = {m \in DOMAIN twin : f \in {None, Feeder[m]}}
    OBVIOUS
  <1>2. D \in SUBSET Node /\ \A n \in D : twin[n] \in Nat
    BY <1>1, NetworkParts
  <1>3. BuildNetwork(f) = [n \in D |-> twin[n]]
    BY <1>1 DEF BuildNetwork
  <1>4. BuildNetwork(f) \in [D -> Nat]
    BY <1>2, <1>3
  <1>5. QED
    BY <1>2, <1>4 DEF Networks

\* The newest of some times, or zero.
LEMMA Newest ==
    ASSUME NEW S \in SUBSET Nat, IsFiniteSet(S)
    PROVE  /\ Max(S \cup {0}) \in S \cup {0}
           /\ \A x \in S \cup {0} : x <= Max(S \cup {0})
  <1>1. PICK T : T = S \cup {0}
    OBVIOUS
  <1>2. T \in SUBSET Nat /\ T # {} /\ IsFiniteSet(T)
    BY <1>1, FS_AddElement
  <1>3. PICK m \in T : \A x \in T : x <= m
    BY <1>2, MaxExists
  <1>4. \A x \in T : m >= x
    BY <1>2, <1>3
  <1>5. Max(T) \in T /\ \A x \in T : Max(T) >= x
    BY <1>3, <1>4 DEF Max
  <1>6. PICK top \in T : top = Max(T)
    BY <1>5
  <1>7. \A x \in T : x <= top
    BY <1>2, <1>5, <1>6
  <1>8. QED
    BY <1>1, <1>6, <1>7

LEMMA TimesFinite ==
    ASSUME NEW s \in Seq(Nat)
    PROVE  {s[i] : i \in DOMAIN s} \in SUBSET Nat /\ IsFiniteSet({s[i] : i \in DOMAIN s})
  <1>1. DOMAIN s = 1 .. Len(s) /\ \A i \in DOMAIN s : s[i] \in Nat
    OBVIOUS
  <1>2. IsFiniteSet(DOMAIN s)
    BY <1>1, FS_Interval
  <1>3. IsFiniteSet({s[i] : i \in DOMAIN s})
    BY <1>2, ImageFinite
  <1>4. QED
    BY <1>1, <1>3

LEMMA RecordedFinite ==
    ASSUME snapshots \in [Feeders -> Seq(Nat)], NEW f \in Feeders
    PROVE  Recorded(f) \in SUBSET Nat /\ IsFiniteSet(Recorded(f))
  <1>1. PICK s \in Seq(Nat) : s = snapshots[f]
    OBVIOUS
  <1>2. QED
    BY <1>1, TimesFinite DEF Recorded

LEMMA LatestType ==
    ASSUME snapshots \in [Feeders -> Seq(Nat)], NEW f \in Feeders \cup {None}
    PROVE  LatestForFeeder(f) \in Nat
  <1>1. CASE f = None
    BY <1>1 DEF LatestForFeeder
  <1>2. CASE f # None
    <2>1. PICK S : S = Recorded(f)
      OBVIOUS
    <2>2. S \in SUBSET Nat /\ IsFiniteSet(S)
      BY <1>2, <2>1, RecordedFinite
    <2>3. Max(S \cup {0}) \in S \cup {0}
      BY <2>2, Newest
    <2>4. LatestForFeeder(f) = Max(S \cup {0})
      BY <1>2, <2>1 DEF LatestForFeeder
    <2>5. S \cup {0} \subseteq Nat
      BY <2>2
    <2>6. QED
      BY <2>3, <2>4, <2>5
  <1>3. QED
    BY <1>1, <1>2

LEMMA TradeFeeder ==
    ASSUME NEW t \in Trades
    PROVE  t.feeder \in Feeders \cup {None}
  BY GridAssumption DEF Trade, Feeders

LEMMA TwinType == Twins \subseteq Networks
  BY GridAssumption DEF Networks

LEMMA ResolveType ==
    ASSUME NEW net, NEW result, result.status \in Status
    PROVE  Resolve(net, result) \in Status
  BY DEF Resolve, Status

LEMMA ResultStatus ==
    ASSUME NEW engine, NEW net, NEW t, NEW result \in EngineResults(engine, net, t)
    PROVE  result.status \in Status
  <1>1. CASE engine = "other"
    BY <1>1 DEF EngineResults, OtherResults
  <1>2. CASE engine # "other"
    BY <1>2 DEF EngineResults, AdapterResults, Status
  <1>3. QED
    BY <1>1, <1>2

LEMMA RunOfType ==
    ASSUME NEW r \in Solving, NEW status \in Status, NEW decision \in {"accept", "reject"}
    PROVE  RunOf(r, status, decision) \in Run
  BY DEF Solving, Run, RunOf

LEMMA FreeOp == Free.op = "free"
  BY DEF Free

\* What a thread is doing is told apart by its operation.
LEMMA SolvingRequest ==
    ASSUME TypeOK, NEW w \in Workers, Doing(w, "solve")
    PROVE  request[w] \in Solving
  BY FreeOp DEF TypeOK, Doing, Recording

LEMMA RecordingRequest ==
    ASSUME TypeOK, NEW w \in Workers, Doing(w, "record")
    PROVE  request[w] \in Recording /\ request[w].run \in Run
  <1>1. request[w] \in Recording
    BY FreeOp DEF TypeOK, Doing, Solving
  <1>2. QED
    BY <1>1 DEF Recording

LEMMA GoType ==
    ASSUME request \in [Workers -> {Free} \cup Solving \cup Recording], NEW w \in Workers,
           NEW r \in {Free} \cup Solving \cup Recording, Go(w, r)
    PROVE  request' \in [Workers -> {Free} \cup Solving \cup Recording]
  BY DEF Go

LEMMA TypeInit == ASSUME Init PROVE TypeOK
  <1>1. twin \in Networks
    BY TwinType DEF Init
  <1>2. snapshots \in [Feeders -> Seq(Nat)]
    BY DEF Init
  <1>3. runs \in Seq(Run) /\ edits \in Nat
    BY DEF Init
  <1>4. request \in [Workers -> {Free} \cup Solving \cup Recording]
    BY DEF Init
  <1>5. QED
    BY <1>1, <1>2, <1>3, <1>4 DEF TypeOK

LEMMA TypeKept == ASSUME TypeOK, [Next]_vars PROVE TypeOK'
  <1>. USE DEF TypeOK
  <1>1. ASSUME NEW w \in Workers, NEW t \in Trades, NEW engine \in Engines,
               ValidateTrade(w, t, engine)
        PROVE  TypeOK'
    <2>1. PICK r : r = [op |-> "solve", trade |-> t, engine |-> engine,
                        net |-> BuildNetwork(t.feeder), read |-> edits, after |-> Len(runs),
                        snapshot |-> LatestForFeeder(t.feeder)]
      OBVIOUS
    <2>2. BuildNetwork(t.feeder) \in Networks /\ LatestForFeeder(t.feeder) \in Nat
      BY BuiltType, LatestType, TradeFeeder
    <2>3. r \in Solving
      BY <2>1, <2>2 DEF Solving
    <2>4. Go(w, r)
      BY <1>1, <2>1 DEF ValidateTrade
    <2>5. UNCHANGED tables
      BY <1>1 DEF ValidateTrade
    <2>6. QED
      BY <2>3, <2>4, <2>5, GoType DEF tables
  <1>2. ASSUME NEW w \in Workers, Answer(w)
        PROVE  TypeOK'
    <2>1. request[w] \in Solving
      BY <1>2, SolvingRequest DEF Answer
    <2>2. PICK result \in EngineResults(request[w].engine, request[w].net, request[w].trade) :
            Go(w, [op |-> "record",
                   run |-> RunOf(request[w], Resolve(request[w].net, result),
                                 Decide(Resolve(request[w].net, result), result.caused))])
      BY <1>2 DEF Answer
    <2>3. Resolve(request[w].net, result) \in Status
      BY ResultStatus, ResolveType
    <2>4. Decide(Resolve(request[w].net, result), result.caused) \in {"accept", "reject"}
      BY DEF Decide
    <2>5. PICK run \in Run :
            run = RunOf(request[w], Resolve(request[w].net, result),
                        Decide(Resolve(request[w].net, result), result.caused))
      BY <2>1, <2>3, <2>4, RunOfType
    <2>6. [op |-> "record", run |-> run] \in Recording
      BY DEF Recording
    <2>7. UNCHANGED tables
      BY <1>2 DEF Answer
    <2>8. QED
      BY <2>2, <2>5, <2>6, <2>7, GoType DEF tables
  <1>3. ASSUME NEW w \in Workers, EngineFails(w)
        PROVE  TypeOK'
    <2>1. request[w] \in Solving
      BY <1>3, SolvingRequest DEF EngineFails
    <2>2. RunOf(request[w], "unknown", "reject") \in Run
      BY <2>1, RunOfType DEF Status
    <2>3. [op |-> "record", run |-> RunOf(request[w], "unknown", "reject")] \in Recording
      BY <2>2 DEF Recording
    <2>4. Go(w, [op |-> "record", run |-> RunOf(request[w], "unknown", "reject")])
          /\ UNCHANGED tables
      BY <1>3 DEF EngineFails
    <2>5. QED
      BY <2>3, <2>4, GoType DEF tables
  <1>4. ASSUME NEW w \in Workers, Record(w)
        PROVE  TypeOK'
    <2>1. request[w].run \in Run
      BY <1>4, RecordingRequest DEF Record
    <2>2. runs' = Append(runs, request[w].run)
      BY <1>4 DEF Record
    <2>3. runs' \in Seq(Run)
      BY <2>1, <2>2, AppendProperties
    <2>4. Go(w, Free) /\ UNCHANGED <<twin, edits, snapshots>>
      BY <1>4 DEF Record
    <2>5. QED
      BY <2>3, <2>4, GoType
  <1>5. ASSUME NEW w \in Workers, InvalidAnswer(w) \/ Fails(w)
        PROVE  TypeOK'
    <2>1. Go(w, Free) /\ UNCHANGED tables
      BY <1>5 DEF InvalidAnswer, Fails
    <2>2. QED
      BY <2>1, GoType DEF tables
  <1>6. ASSUME NEW capture \in Captures, RecordSnapshot(capture[1], capture[2])
        PROVE  TypeOK'
    <2>1. capture[1] \in Feeders /\ capture[2] \in Nat
      BY GridAssumption DEF Feeders
    <2>2. snapshots' = [snapshots EXCEPT ![capture[1]] = Append(@, capture[2])]
      BY <1>6 DEF RecordSnapshot
    <2>3. Append(snapshots[capture[1]], capture[2]) \in Seq(Nat)
      BY <2>1, AppendProperties
    <2>4. snapshots' \in [Feeders -> Seq(Nat)]
      BY <2>2, <2>3
    <2>5. UNCHANGED <<twin, edits, runs, request>>
      BY <1>6 DEF RecordSnapshot
    <2>6. QED
      BY <2>4, <2>5
  <1>7. ASSUME EditTwin
        PROVE  TypeOK'
    <2>1. twin' \in Networks /\ edits' \in Nat
      BY <1>7, TwinType DEF EditTwin
    <2>2. UNCHANGED <<snapshots, runs, request>>
      BY <1>7 DEF EditTwin
    <2>3. QED
      BY <2>1, <2>2
  <1>8. CASE UNCHANGED vars
    BY <1>8 DEF vars, tables
  <1>9. QED
    BY <1>1, <1>2, <1>3, <1>4, <1>5, <1>6, <1>7, <1>8 DEF Next

\* Networks, runs and requests keep their types: what the other theorems start from.
THEOREM TypeCorrect == Spec => []TypeOK
  <1>1. Init => TypeOK
    BY TypeInit
  <1>2. TypeOK /\ [Next]_vars => TypeOK'
    BY TypeKept
  <1>3. QED
    BY <1>1, <1>2, PTL DEF Spec

-----------------------------------------------------------------------------
(***************************************************************************)
(* What is accepted is cleared.                                            *)
(***************************************************************************)
\* What AcceptedIsCleared asks of one run.
Verdict(r) ==
    r.decision = "accept" =>
        /\ Unrated(r.net) = {}
        /\ r.engine = "adapter" => Cleared(r)

VerdictInv ==
    /\ \A i \in DOMAIN runs : Verdict(runs[i])
    /\ \A w \in Workers : Doing(w, "record") => Verdict(request[w].run)

\* Only what is safe is accepted, and only with every rating known and nothing caused.
LEMMA AcceptNeeds ==
    ASSUME NEW net, NEW result, Decide(Resolve(net, result), result.caused) = "accept"
    PROVE  result.status = "safe" /\ result.caused = {} /\ Unrated(net) = {}
  BY DEF Decide, Resolve

\* The adapter calls a network safe only if it found nothing.
LEMMA SafeIsClean ==
    ASSUME NEW net, NEW t, NEW result \in AdapterResults(net, t), result.status = "safe"
    PROVE  Violations(net, Combined(t)) = {}
  BY DEF AdapterResults

LEMMA RunOfParts ==
    ASSUME NEW r, NEW status, NEW decision
    PROVE  /\ RunOf(r, status, decision).trade = r.trade
           /\ RunOf(r, status, decision).engine = r.engine
           /\ RunOf(r, status, decision).net = r.net
           /\ RunOf(r, status, decision).decision = decision
           /\ RunOf(r, status, decision).read = r.read
           /\ RunOf(r, status, decision).after = r.after
           /\ RunOf(r, status, decision).snapshot = r.snapshot
  BY DEF RunOf

\* A run of the adapter on a network without violations and with every rating is cleared.
LEMMA CleanIsCleared ==
    ASSUME NEW r, r.net \in Networks, r.trade \in Trades,
           Violations(r.net, Combined(r.trade)) = {}, Unrated(r.net) = {}
    PROVE  Cleared(r)
  <1>1. PICK power : power = Combined(r.trade)
    OBVIOUS
  <1>2. power \in [Node -> Int] /\ power = [n \in Node |-> Baseline[n] + Proposed(r.trade)[n]]
    BY <1>1, CombinedType
  <1>3. /\ \A n \in DOMAIN r.net : Size(Shift(n, r.net, power)) <= VoltageBand
        /\ \A e \in Elements(r.net) :
              /\ r.net[e] > 0
              /\ 100 * Size(Flow(e, r.net, power)) <= Min({LoadingPct, 100}) * r.net[e]
    BY <1>1, <1>2, NoViolationClears
  <1>4. QED
    BY <1>2, <1>3 DEF Cleared

LEMMA AnswerVerdict ==
    ASSUME NEW r \in Solving, NEW result \in EngineResults(r.engine, r.net, r.trade)
    PROVE  Verdict(RunOf(r, Resolve(r.net, result),
                         Decide(Resolve(r.net, result), result.caused)))
  <1>1. PICK run : run = RunOf(r, Resolve(r.net, result),
                               Decide(Resolve(r.net, result), result.caused))
    OBVIOUS
  <1>2. /\ run.trade = r.trade /\ run.engine = r.engine /\ run.net = r.net
        /\ run.decision = Decide(Resolve(r.net, result), result.caused)
    BY <1>1, RunOfParts
  <1>3. r.net \in Networks /\ r.trade \in Trades
    BY DEF Solving
  <1>4. ASSUME run.decision = "accept"
        PROVE  Unrated(run.net) = {} /\ (run.engine = "adapter" => Cleared(run))
    <2>1. result.status = "safe" /\ Unrated(r.net) = {}
      BY <1>2, <1>4, AcceptNeeds
    <2>2. ASSUME run.engine = "adapter"
          PROVE  Cleared(run)
      <3>1. r.engine = "adapter"
        BY <1>2, <2>2
      <3>2. result \in AdapterResults(r.net, r.trade)
        BY <3>1 DEF EngineResults
      <3>3. Violations(r.net, Combined(r.trade)) = {}
        BY <2>1, <3>2, SafeIsClean
      <3>4. run.net \in Networks /\ run.trade \in Trades
            /\ Violations(run.net, Combined(run.trade)) = {} /\ Unrated(run.net) = {}
        BY <1>2, <1>3, <2>1, <3>3
      <3>5. QED
        BY <3>4, CleanIsCleared
    <2>3. QED
      BY <1>2, <2>1, <2>2
  <1>5. Verdict(run)
    BY <1>4 DEF Verdict
  <1>6. QED
    BY <1>1, <1>5

\* A thread that turns to something else leaves what the others have to record.
LEMMA VerdictsElsewhere ==
    ASSUME TypeOK, VerdictInv, NEW w \in Workers, NEW r, Go(w, r),
           r.op = "record" => Verdict(r.run)
    PROVE  \A v \in Workers : request'[v].op = "record" => Verdict(request'[v].run)
  <1>1. ASSUME NEW v \in Workers, request'[v].op = "record"
        PROVE  Verdict(request'[v].run)
    <2>1. CASE v = w
      <3>1. request'[v] = r
        BY <2>1 DEF Go, TypeOK
      <3>2. QED
        BY <1>1, <3>1
    <2>2. CASE v # w
      <3>1. request'[v] = request[v]
        BY <2>2 DEF Go, TypeOK
      <3>2. Doing(v, "record")
        BY <1>1, <3>1 DEF Doing
      <3>3. Verdict(request[v].run)
        BY <3>2 DEF VerdictInv
      <3>4. QED
        BY <3>1, <3>3
    <2>3. QED
      BY <2>1, <2>2
  <1>2. QED
    BY <1>1

LEMMA VerdictKept ==
    ASSUME TypeOK, VerdictInv, [Next]_vars
    PROVE  VerdictInv'
  <1>1. ASSUME NEW w \in Workers, NEW r, Go(w, r), r.op = "record" => Verdict(r.run),
               UNCHANGED runs
        PROVE  VerdictInv'
    <2>1. \A v \in Workers : request'[v].op = "record" => Verdict(request'[v].run)
      BY <1>1, VerdictsElsewhere
    <2>2. \A i \in DOMAIN runs' : Verdict(runs'[i])
      BY <1>1 DEF VerdictInv
    <2>3. QED
      BY <2>1, <2>2 DEF VerdictInv, Doing, Verdict
  <1>2. ASSUME NEW w \in Workers, NEW t \in Trades, NEW engine \in Engines,
               ValidateTrade(w, t, engine)
        PROVE  VerdictInv'
    <2>1. PICK r : /\ r = [op |-> "solve", trade |-> t, engine |-> engine,
                           net |-> BuildNetwork(t.feeder), read |-> edits, after |-> Len(runs),
                           snapshot |-> LatestForFeeder(t.feeder)]
                   /\ Go(w, r) /\ UNCHANGED tables
      BY <1>2 DEF ValidateTrade
    <2>2. r.op # "record" /\ UNCHANGED runs
      BY <2>1 DEF tables
    <2>3. QED
      BY <1>1, <2>1, <2>2
  <1>3. ASSUME NEW w \in Workers, Answer(w)
        PROVE  VerdictInv'
    <2>1. request[w] \in Solving
      BY <1>3, SolvingRequest DEF Answer
    <2>2. PICK result \in EngineResults(request[w].engine, request[w].net, request[w].trade) :
            Go(w, [op |-> "record",
                   run |-> RunOf(request[w], Resolve(request[w].net, result),
                                 Decide(Resolve(request[w].net, result), result.caused))])
      BY <1>3 DEF Answer
    <2>3. PICK run : run = RunOf(request[w], Resolve(request[w].net, result),
                                 Decide(Resolve(request[w].net, result), result.caused))
      OBVIOUS
    <2>4. Verdict(run)
      BY <2>1, <2>3, AnswerVerdict
    <2>5. PICK r : r = [op |-> "record", run |-> run]
      OBVIOUS
    <2>6. Go(w, r) /\ Verdict(r.run)
      BY <2>2, <2>3, <2>4, <2>5
    <2>7. UNCHANGED runs
      BY <1>3 DEF Answer, tables
    <2>8. QED
      BY <1>1, <2>6, <2>7
  <1>4. ASSUME NEW w \in Workers, EngineFails(w)
        PROVE  VerdictInv'
    <2>1. PICK r : r = [op |-> "record", run |-> RunOf(request[w], "unknown", "reject")]
      OBVIOUS
    <2>2. r.run.decision = "reject"
      BY <2>1, RunOfParts
    <2>3. Verdict(r.run)
      BY <2>2 DEF Verdict
    <2>4. Go(w, r) /\ UNCHANGED runs
      BY <1>4, <2>1 DEF EngineFails, tables
    <2>5. QED
      BY <1>1, <2>3, <2>4
  <1>5. ASSUME NEW w \in Workers, InvalidAnswer(w) \/ Fails(w)
        PROVE  VerdictInv'
    <2>1. Go(w, Free) /\ UNCHANGED runs
      BY <1>5 DEF InvalidAnswer, Fails, tables
    <2>2. QED
      BY <1>1, <2>1, FreeOp
  <1>6. ASSUME NEW w \in Workers, Record(w)
        PROVE  VerdictInv'
    <2>1. request[w].run \in Run /\ Doing(w, "record")
      BY <1>6, RecordingRequest DEF Record
    <2>2. PICK run \in Run : run = request[w].run
      BY <2>1
    <2>3. Verdict(run)
      BY <2>1, <2>2 DEF VerdictInv
    <2>4. runs \in Seq(Run) /\ runs' = Append(runs, run)
      BY <1>6, <2>2 DEF Record, TypeOK
    <2>5. ASSUME NEW i \in DOMAIN runs'
          PROVE  Verdict(runs'[i])
      <3>1. runs'[i] = run \/ (i \in DOMAIN runs /\ runs'[i] = runs[i])
        BY <2>4
      <3>2. QED
        BY <2>3, <3>1 DEF VerdictInv
    <2>6. Go(w, Free)
      BY <1>6 DEF Record
    <2>7. \A v \in Workers : request'[v].op = "record" => Verdict(request'[v].run)
      BY <2>6, FreeOp, VerdictsElsewhere
    <2>8. QED
      BY <2>5, <2>7 DEF VerdictInv, Doing, Verdict
  <1>7. ASSUME UNCHANGED <<runs, request>>
        PROVE  VerdictInv'
    BY <1>7 DEF VerdictInv, Doing
  <1>8. ASSUME NEW capture \in Captures, RecordSnapshot(capture[1], capture[2])
        PROVE  VerdictInv'
    BY <1>7, <1>8 DEF RecordSnapshot
  <1>9. CASE EditTwin
    BY <1>7, <1>9 DEF EditTwin
  <1>10. CASE UNCHANGED vars
    BY <1>7, <1>10 DEF vars, tables
  <1>11. QED
    BY <1>2, <1>3, <1>4, <1>5, <1>6, <1>8, <1>9, <1>10 DEF Next

\* With the adapter, an accepted trade's network was solved and is within every limit, with
\* the trade on top of what flows there anyway; and whatever engine judged it, no rating was
\* missing (GridEngine.validate, resolve_status, decide).
THEOREM AcceptedAreCleared == Spec => []AcceptedIsCleared
  <1>1. Init => TypeOK /\ VerdictInv
    <2>1. ASSUME Init PROVE TypeOK
      BY <2>1, TypeInit
    <2>2. ASSUME Init PROVE VerdictInv
      BY <2>2, FreeOp DEF Init, VerdictInv, Doing
    <2>3. QED
      BY <2>1, <2>2
  <1>2. TypeOK /\ VerdictInv /\ [Next]_vars => TypeOK' /\ VerdictInv'
    BY TypeKept, VerdictKept
  <1>3. VerdictInv => AcceptedIsCleared
    BY DEF VerdictInv, Verdict, AcceptedIsCleared
  <1>4. QED
    BY <1>1, <1>2, <1>3, PTL DEF Spec

-----------------------------------------------------------------------------
(***************************************************************************)
(* The latest verdict judges the newest twin.                              *)
(***************************************************************************)
\* What x has read is no older than what the runs recorded before it had read.
Reads(x) ==
    /\ x.read <= edits /\ x.after <= Len(runs)
    /\ x.snapshot <= LatestForFeeder(x.trade.feeder)
    /\ \A i \in 1 .. x.after :
          /\ runs[i].read <= x.read
          /\ runs[i].trade.feeder = x.trade.feeder => runs[i].snapshot <= x.snapshot

OrderInv ==
    /\ \A i \in 1 .. Len(runs) : Reads(runs[i]) /\ runs[i].after < i
    /\ \A w \in Workers : Doing(w, "solve") => Reads(request[w])
    /\ \A w \in Workers : Doing(w, "record") => Reads(request[w].run)

\* Edits, snapshots and runs only ever grow.
Grows ==
    /\ edits <= edits' /\ Len(runs) <= Len(runs')
    /\ \A i \in 1 .. Len(runs) : runs'[i] = runs[i]
    /\ \A f \in Feeders \cup {None} : LatestForFeeder(f) <= LatestForFeeder(f)'

\* The part of a run, or of a request, that Reads is about.
Reader(x) == x.read \in Nat /\ x.after \in Nat /\ x.snapshot \in Nat /\ x.trade \in Trades

LEMMA Readers ==
    ASSUME NEW x \in Solving \cup Run
    PROVE  Reader(x)
  BY DEF Solving, Run, Reader

LEMMA RecordedNext ==
    ASSUME snapshots' \in [Feeders -> Seq(Nat)], NEW f \in Feeders
    PROVE  Recorded(f)' \in SUBSET Nat /\ IsFiniteSet(Recorded(f)')
  <1>1. PICK s \in Seq(Nat) : s = snapshots'[f]
    OBVIOUS
  <1>2. QED
    BY <1>1, TimesFinite DEF Recorded

LEMMA ReadsKept ==
    ASSUME TypeOK, TypeOK', Grows, NEW x, Reader(x), Reads(x)
    PROVE  Reads(x)'
  <1>1. x.read \in Nat /\ x.after \in Nat /\ x.snapshot \in Nat
        /\ x.trade.feeder \in Feeders \cup {None}
    BY TradeFeeder DEF Reader
  <1>2. edits \in Nat /\ edits' \in Nat /\ Len(runs) \in Nat /\ Len(runs') \in Nat
    BY DEF TypeOK
  <1>3. x.read <= edits' /\ x.after <= Len(runs')
    BY <1>1, <1>2 DEF Reads, Grows
  <1>4. PICK now, then : now = LatestForFeeder(x.trade.feeder)
                         /\ then = LatestForFeeder(x.trade.feeder)'
    OBVIOUS
  <1>5. now \in Nat
    BY <1>1, <1>4, LatestType DEF TypeOK
  <1>6. \A f \in Feeders \cup {None} : LatestForFeeder(f)' \in Nat
    <2>1. ASSUME NEW f \in Feeders, f # None
          PROVE  LatestForFeeder(f)' \in Nat
      <3>1. PICK S : S = Recorded(f)'
        OBVIOUS
      <3>2. S \in SUBSET Nat /\ IsFiniteSet(S)
        BY <3>1, RecordedNext DEF TypeOK
      <3>3. Max(S \cup {0}) \in S \cup {0}
        BY <3>2, Newest
      <3>4. LatestForFeeder(f)' = Max(S \cup {0}) /\ S \cup {0} \subseteq Nat
        BY <2>1, <3>1, <3>2 DEF LatestForFeeder
      <3>5. QED
        BY <3>3, <3>4
    <2>2. LatestForFeeder(None)' \in Nat
      BY DEF LatestForFeeder
    <2>3. QED
      BY <2>1, <2>2
  <1>7. then \in Nat /\ now <= then /\ x.snapshot <= now
    BY <1>1, <1>4, <1>6 DEF Reads, Grows
  <1>8. x.snapshot <= LatestForFeeder(x.trade.feeder)'
    BY <1>1, <1>4, <1>5, <1>7
  <1>9. \A i \in 1 .. x.after :
          /\ runs'[i].read <= x.read
          /\ runs'[i].trade.feeder = x.trade.feeder => runs'[i].snapshot <= x.snapshot
    <2>1. ASSUME NEW i \in 1 .. x.after
          PROVE  /\ runs'[i].read <= x.read
                 /\ runs'[i].trade.feeder = x.trade.feeder => runs'[i].snapshot <= x.snapshot
      <3>1. i \in 1 .. Len(runs)
        BY <1>1, <1>2 DEF Reads
      <3>2. runs'[i] = runs[i]
        BY <3>1 DEF Grows
      <3>3. QED
        BY <3>2 DEF Reads
    <2>2. QED
      BY <2>1
  <1>10. QED
    BY <1>3, <1>8, <1>9 DEF Reads

\* A feeder's latest snapshot is never replaced by an older one.
LEMMA LatestGrows ==
    ASSUME TypeOK, TypeOK', NEW f \in Feeders \cup {None},
           f # None => Recorded(f) \subseteq Recorded(f)'
    PROVE  LatestForFeeder(f) <= LatestForFeeder(f)'
  <1>1. CASE f = None
    BY <1>1 DEF LatestForFeeder
  <1>2. CASE f # None
    <2>1. PICK S, T : S = Recorded(f) /\ T = Recorded(f)'
      OBVIOUS
    <2>2. S \in SUBSET Nat /\ IsFiniteSet(S)
      BY <1>2, <2>1, RecordedFinite DEF TypeOK
    <2>3. T \in SUBSET Nat /\ IsFiniteSet(T)
      BY <1>2, <2>1, RecordedNext DEF TypeOK
    <2>4. S \subseteq T
      BY <1>2, <2>1
    <2>5. PICK now, then : now = Max(S \cup {0}) /\ then = Max(T \cup {0})
      OBVIOUS
    <2>6. now \in S \cup {0}
      BY <2>2, <2>5, Newest
    <2>7. \A x \in T \cup {0} : x <= then
      BY <2>3, <2>5, Newest
    <2>8. now <= then
      BY <2>4, <2>6, <2>7
    <2>9. LatestForFeeder(f) = now
      BY <1>2, <2>1, <2>5 DEF LatestForFeeder
    <2>10. LatestForFeeder(f)' = then
      BY <1>2, <2>1, <2>5 DEF LatestForFeeder
    <2>11. QED
      BY <2>8, <2>9, <2>10
  <1>3. QED
    BY <1>1, <1>2

LEMMA StepGrows ==
    ASSUME TypeOK, TypeOK', [Next]_vars
    PROVE  Grows
  <1>1. \A x \in Int : x <= x
    OBVIOUS
  <1>2. edits \in Int /\ Len(runs) \in Int
    BY DEF TypeOK
  <1>3. ASSUME UNCHANGED snapshots
        PROVE  \A f \in Feeders \cup {None} : LatestForFeeder(f) <= LatestForFeeder(f)'
    <2>1. \A f \in Feeders : Recorded(f)' = Recorded(f)
      BY <1>3 DEF Recorded
    <2>2. QED
      BY <2>1, LatestGrows
  <1>4. ASSUME UNCHANGED <<edits, runs, snapshots>>
        PROVE  Grows
    <2>1. edits <= edits' /\ Len(runs) <= Len(runs')
      BY <1>1, <1>2, <1>4
    <2>2. \A i \in 1 .. Len(runs) : runs'[i] = runs[i]
      BY <1>4
    <2>3. QED
      BY <1>3, <1>4, <2>1, <2>2 DEF Grows
  <1>5. ASSUME NEW w \in Workers, NEW t \in Trades, NEW engine \in Engines,
               ValidateTrade(w, t, engine)
        PROVE  Grows
    BY <1>4, <1>5 DEF ValidateTrade, tables
  <1>6. ASSUME NEW w \in Workers, Answer(w) \/ InvalidAnswer(w) \/ EngineFails(w) \/ Fails(w)
        PROVE  Grows
    <2>1. UNCHANGED tables
      BY <1>6 DEF Answer, InvalidAnswer, EngineFails, Fails
    <2>2. QED
      BY <1>4, <2>1 DEF tables
  <1>7. ASSUME NEW w \in Workers, Record(w)
        PROVE  Grows
    <2>1. PICK run : runs' = Append(runs, run)
      BY <1>7 DEF Record
    <2>2. Len(runs') = Len(runs) + 1 /\ \A i \in 1 .. Len(runs) : runs'[i] = runs[i]
      BY <2>1 DEF TypeOK
    <2>3. UNCHANGED <<edits, snapshots>>
      BY <1>7 DEF Record
    <2>4. Len(runs) <= Len(runs') /\ edits <= edits'
      BY <1>1, <1>2, <2>2, <2>3
    <2>5. QED
      BY <1>3, <2>2, <2>3, <2>4 DEF Grows
  <1>8. ASSUME NEW capture \in Captures, RecordSnapshot(capture[1], capture[2])
        PROVE  Grows
    <2>1. /\ capture[1] \in Feeders
          /\ snapshots' = [snapshots EXCEPT ![capture[1]] = Append(@, capture[2])]
          /\ UNCHANGED <<edits, runs>>
      BY <1>8, GridAssumption DEF RecordSnapshot, Feeders
    <2>2. ASSUME NEW f \in Feeders
          PROVE  Recorded(f) \subseteq Recorded(f)'
      <3>1. PICK s : s = snapshots[f]
        OBVIOUS
      <3>2. s \in Seq(Nat)
        BY <3>1 DEF TypeOK
      <3>3. snapshots'[f] = s \/ snapshots'[f] = Append(s, capture[2])
        BY <2>1, <3>1 DEF TypeOK
      <3>4. \A i \in DOMAIN s : i \in DOMAIN snapshots'[f] /\ snapshots'[f][i] = s[i]
        BY <3>2, <3>3
      <3>5. QED
        BY <3>1, <3>4 DEF Recorded
    <2>3. \A f \in Feeders \cup {None} : LatestForFeeder(f) <= LatestForFeeder(f)'
      BY <2>2, LatestGrows
    <2>4. edits <= edits' /\ Len(runs) <= Len(runs') /\ \A i \in 1 .. Len(runs) : runs'[i] = runs[i]
      BY <1>1, <1>2, <2>1
    <2>5. QED
      BY <2>3, <2>4 DEF Grows
  <1>9. CASE EditTwin
    <2>1. edits' = edits + 1 /\ UNCHANGED <<snapshots, runs>>
      BY <1>9 DEF EditTwin
    <2>2. edits <= edits' /\ Len(runs) <= Len(runs') /\ \A i \in 1 .. Len(runs) : runs'[i] = runs[i]
      BY <1>1, <1>2, <2>1
    <2>3. QED
      BY <1>3, <2>1, <2>2 DEF Grows
  <1>10. CASE UNCHANGED vars
    BY <1>4, <1>10 DEF vars, tables
  <1>11. QED
    BY <1>5, <1>6, <1>7, <1>8, <1>9, <1>10 DEF Next

\* What a thread reads now is as new as what every run had read.
LEMMA FreshRead ==
    ASSUME TypeOK, OrderInv, NEW x, x.read = edits, x.after = Len(runs), x.trade \in Trades,
           x.snapshot = LatestForFeeder(x.trade.feeder)
    PROVE  Reads(x)
  <1>1. edits \in Nat /\ Len(runs) \in Nat
    BY DEF TypeOK
  <1>2. PICK now \in Nat : now = LatestForFeeder(x.trade.feeder)
    BY TradeFeeder, LatestType DEF TypeOK
  <1>3. ASSUME NEW i \in 1 .. Len(runs)
        PROVE  /\ runs[i].read <= x.read
               /\ runs[i].trade.feeder = x.trade.feeder => runs[i].snapshot <= x.snapshot
    BY <1>3 DEF OrderInv, Reads
  <1>4. x.read <= edits /\ x.after <= Len(runs) /\ x.snapshot <= LatestForFeeder(x.trade.feeder)
    BY <1>1, <1>2
  <1>5. QED
    BY <1>3, <1>4 DEF Reads

\* Recording, solving or neither: what the threads have read stays in order when one of them
\* turns to r.
LEMMA RequestsKept ==
    ASSUME TypeOK, TypeOK', OrderInv, Grows, NEW w \in Workers, NEW r, Go(w, r),
           r.op = "solve" => Reads(r)', r.op = "record" => Reads(r.run)'
    PROVE  /\ \A v \in Workers : Doing(v, "solve")' => Reads(request[v])'
           /\ \A v \in Workers : Doing(v, "record")' => Reads(request[v].run)'
  <1>1. ASSUME NEW v \in Workers
        PROVE  /\ Doing(v, "solve")' => Reads(request[v])'
               /\ Doing(v, "record")' => Reads(request[v].run)'
    <2>1. PICK x : x = request'[v]
      OBVIOUS
    <2>2. CASE v = w
      <3>1. x = r
        BY <2>1, <2>2 DEF Go, TypeOK
      <3>2. (x.op = "solve" => Reads(x)') /\ (x.op = "record" => Reads(x.run)')
        BY <3>1
      <3>3. QED
        BY <2>1, <3>2 DEF Doing, Reads
    <2>3. CASE v # w
      <3>1. x = request[v]
        BY <2>1, <2>3 DEF Go, TypeOK
      <3>2. ASSUME x.op = "solve" PROVE Reads(x)'
        <4>1. Doing(v, "solve")
          BY <3>1, <3>2 DEF Doing
        <4>2. Reader(x)
          BY <3>1, <4>1, SolvingRequest, Readers
        <4>3. Reads(x)
          BY <3>1, <4>1 DEF OrderInv
        <4>4. QED
          BY <4>2, <4>3, ReadsKept
      <3>3. ASSUME x.op = "record" PROVE Reads(x.run)'
        <4>1. Doing(v, "record")
          BY <3>1, <3>3 DEF Doing
        <4>2. PICK y : y = x.run
          OBVIOUS
        <4>3. Reader(y)
          BY <3>1, <4>1, <4>2, RecordingRequest, Readers
        <4>4. Reads(y)
          BY <3>1, <4>1, <4>2 DEF OrderInv
        <4>5. Reads(y)'
          BY <4>3, <4>4, ReadsKept
        <4>6. QED
          BY <4>2, <4>5
      <3>4. QED
        BY <2>1, <3>2, <3>3 DEF Doing, Reads
    <2>4. QED
      BY <2>2, <2>3
  <1>2. QED
    BY <1>1

\* The runs recorded so far stay in order.
LEMMA RunsKept ==
    ASSUME TypeOK, TypeOK', OrderInv, Grows
    PROVE  \A i \in 1 .. Len(runs) : Reads(runs[i])' /\ runs'[i].after < i
  <1>1. ASSUME NEW i \in 1 .. Len(runs)
        PROVE  Reads(runs[i])' /\ runs'[i].after < i
    <2>1. PICK x : x = runs[i]
      OBVIOUS
    <2>2. x \in Run /\ runs'[i] = x
      BY <2>1 DEF TypeOK, Grows
    <2>3. Reads(x) /\ x.after < i
      BY <2>1 DEF OrderInv
    <2>4. Reads(x)'
      BY <2>2, <2>3, Readers, ReadsKept
    <2>5. Reads(runs[i])'
      BY <2>2, <2>4 DEF Reads
    <2>6. QED
      BY <2>2, <2>3, <2>5
  <1>2. QED
    BY <1>1

LEMMA OrderInit == ASSUME Init PROVE OrderInv
  BY FreeOp DEF Init, OrderInv, Doing

LEMMA OrderKept ==
    ASSUME TypeOK, TypeOK', OrderInv, [Next]_vars
    PROVE  OrderInv'
  <1>1. Grows
    BY StepGrows
  <1>2. \A i \in 1 .. Len(runs) : Reads(runs[i])' /\ runs'[i].after < i
    BY <1>1, RunsKept
  <1>3. ASSUME NEW w \in Workers, NEW r, Go(w, r), UNCHANGED runs,
               r.op = "solve" => Reads(r)', r.op = "record" => Reads(r.run)'
        PROVE  OrderInv'
    <2>1. /\ \A v \in Workers : Doing(v, "solve")' => Reads(request[v])'
          /\ \A v \in Workers : Doing(v, "record")' => Reads(request[v].run)'
      BY <1>1, <1>3, RequestsKept
    <2>2. \A i \in 1 .. Len(runs') : Reads(runs[i])' /\ runs'[i].after < i
      BY <1>2, <1>3
    <2>3. QED
      BY <2>1, <2>2 DEF OrderInv
  <1>4. ASSUME NEW w \in Workers, NEW t \in Trades, NEW engine \in Engines,
               ValidateTrade(w, t, engine)
        PROVE  OrderInv'
    <2>1. PICK r : r = [op |-> "solve", trade |-> t, engine |-> engine,
                        net |-> BuildNetwork(t.feeder), read |-> edits, after |-> Len(runs),
                        snapshot |-> LatestForFeeder(t.feeder)]
      OBVIOUS
    <2>2. Go(w, r) /\ UNCHANGED tables
      BY <1>4, <2>1 DEF ValidateTrade
    <2>3. /\ r.op = "solve" /\ r.read = edits /\ r.after = Len(runs) /\ r.trade \in Trades
          /\ r.snapshot = LatestForFeeder(r.trade.feeder)
      BY <2>1
    <2>4. Reads(r)
      BY <2>3, FreshRead
    <2>5. Reader(r)
      <3>1. edits \in Nat /\ Len(runs) \in Nat /\ LatestForFeeder(r.trade.feeder) \in Nat
        BY <2>3, TradeFeeder, LatestType DEF TypeOK
      <3>2. QED
        BY <2>3, <3>1 DEF Reader
    <2>6. Reads(r)'
      BY <1>1, <2>4, <2>5, ReadsKept
    <2>7. QED
      BY <1>3, <2>2, <2>3, <2>6 DEF tables
  <1>5. ASSUME NEW w \in Workers, NEW run, Doing(w, "solve"), UNCHANGED tables,
               NEW status, NEW decision, run = RunOf(request[w], status, decision),
               Go(w, [op |-> "record", run |-> run])
        PROVE  OrderInv'
    <2>1. PICK x : x = request[w]
      OBVIOUS
    <2>2. Reader(x) /\ Reads(x)
      BY <1>5, <2>1, SolvingRequest, Readers DEF OrderInv
    <2>3. /\ run.trade = x.trade /\ run.read = x.read /\ run.after = x.after
          /\ run.snapshot = x.snapshot
      BY <1>5, <2>1, RunOfParts
    <2>4. Reader(run) /\ Reads(run)
      BY <2>2, <2>3 DEF Reader, Reads
    <2>5. Reads(run)'
      BY <1>1, <2>4, ReadsKept
    <2>6. PICK r : r = [op |-> "record", run |-> run]
      OBVIOUS
    <2>7. r.op = "record" /\ r.run = run
      BY <2>6
    <2>8. QED
      BY <1>3, <1>5, <2>5, <2>6, <2>7 DEF tables
  <1>6. ASSUME NEW w \in Workers, Answer(w)
        PROVE  OrderInv'
    <2>1. PICK result \in EngineResults(request[w].engine, request[w].net, request[w].trade) :
            Go(w, [op |-> "record",
                   run |-> RunOf(request[w], Resolve(request[w].net, result),
                                 Decide(Resolve(request[w].net, result), result.caused))])
      BY <1>6 DEF Answer
    <2>2. QED
      BY <1>5, <1>6, <2>1 DEF Answer
  <1>7. ASSUME NEW w \in Workers, EngineFails(w)
        PROVE  OrderInv'
    BY <1>5, <1>7 DEF EngineFails
  <1>8. ASSUME NEW w \in Workers, InvalidAnswer(w) \/ Fails(w)
        PROVE  OrderInv'
    <2>1. Go(w, Free) /\ UNCHANGED runs
      BY <1>8 DEF InvalidAnswer, Fails, tables
    <2>2. QED
      BY <1>3, <2>1, FreeOp
  <1>9. ASSUME NEW w \in Workers, Record(w)
        PROVE  OrderInv'
    <2>1. Doing(w, "record") /\ Go(w, Free)
      BY <1>9 DEF Record
    <2>2. PICK run : run = request[w].run
      OBVIOUS
    <2>3. Reader(run) /\ Reads(run)
      BY <2>1, <2>2, RecordingRequest, Readers DEF OrderInv
    <2>4. Reads(run)'
      BY <1>1, <2>3, ReadsKept
    <2>5. runs' = Append(runs, run)
      BY <1>9, <2>2 DEF Record
    <2>6. Len(runs') = Len(runs) + 1 /\ runs'[Len(runs) + 1] = run /\ Len(runs) \in Nat
      BY <2>5 DEF TypeOK
    <2>7. run.after < Len(runs) + 1
      BY <2>3, <2>6 DEF Reader, Reads
    <2>8. ASSUME NEW i \in 1 .. Len(runs')
          PROVE  Reads(runs[i])' /\ runs'[i].after < i
      <3>1. CASE i \in 1 .. Len(runs)
        BY <1>2, <3>1
      <3>2. CASE i = Len(runs) + 1
        <4>1. runs'[i] = run
          BY <2>6, <3>2
        <4>2. Reads(runs[i])'
          BY <2>4, <4>1 DEF Reads
        <4>3. QED
          BY <2>7, <3>2, <4>1, <4>2
      <3>3. QED
        BY <2>6, <3>1, <3>2
    <2>9. /\ \A v \in Workers : Doing(v, "solve")' => Reads(request[v])'
          /\ \A v \in Workers : Doing(v, "record")' => Reads(request[v].run)'
      BY <1>1, <2>1, FreeOp, RequestsKept
    <2>10. QED
      BY <2>8, <2>9 DEF OrderInv
  <1>10. ASSUME UNCHANGED <<runs, request>>
         PROVE  OrderInv'
    <2>1. ASSUME NEW v \in Workers
          PROVE  /\ Doing(v, "solve")' => Reads(request[v])'
                 /\ Doing(v, "record")' => Reads(request[v].run)'
      <3>1. PICK x : x = request[v]
        OBVIOUS
      <3>2. x = request'[v]
        BY <1>10, <3>1
      <3>3. ASSUME Doing(v, "solve")' PROVE Reads(request[v])'
        <4>1. Doing(v, "solve")
          BY <1>10, <3>3 DEF Doing
        <4>2. Reader(x) /\ Reads(x)
          BY <3>1, <4>1, SolvingRequest, Readers DEF OrderInv
        <4>3. Reads(x)'
          BY <1>1, <4>2, ReadsKept
        <4>4. QED
          BY <3>2, <4>3 DEF Reads
      <3>4. ASSUME Doing(v, "record")' PROVE Reads(request[v].run)'
        <4>1. Doing(v, "record")
          BY <1>10, <3>4 DEF Doing
        <4>2. PICK y : y = x.run
          OBVIOUS
        <4>3. Reader(y) /\ Reads(y)
          BY <3>1, <4>1, <4>2, RecordingRequest, Readers DEF OrderInv
        <4>4. Reads(y)'
          BY <1>1, <4>3, ReadsKept
        <4>5. y = request'[v].run
          BY <3>2, <4>2
        <4>6. QED
          BY <4>4, <4>5 DEF Reads
      <3>5. QED
        BY <3>3, <3>4
    <2>2. \A i \in 1 .. Len(runs') : Reads(runs[i])' /\ runs'[i].after < i
      BY <1>2, <1>10
    <2>3. QED
      BY <2>1, <2>2 DEF OrderInv
  <1>11. ASSUME NEW capture \in Captures, RecordSnapshot(capture[1], capture[2])
         PROVE  OrderInv'
    BY <1>10, <1>11 DEF RecordSnapshot
  <1>12. CASE EditTwin
    BY <1>10, <1>12 DEF EditTwin
  <1>13. CASE UNCHANGED vars
    BY <1>10, <1>13 DEF vars, tables
  <1>14. QED
    BY <1>4, <1>6, <1>7, <1>8, <1>9, <1>11, <1>12, <1>13 DEF Next

\* The last run of a trade is the newest of them.
LEMMA LastRun ==
    ASSUME TypeOK, NEW i \in 1 .. Len(runs)
    PROVE  /\ LatestForTrade(runs[i].trade) \in i .. Len(runs)
           /\ runs[LatestForTrade(runs[i].trade)].trade = runs[i].trade
  <1>1. PICK S : S = RunsFor(runs[i].trade)
    OBVIOUS
  <1>2. S = {k \in 1 .. Len(runs) : runs[k].trade = runs[i].trade} /\ Len(runs) \in Nat
    BY <1>1 DEF RunsFor, TypeOK
  <1>3. IsFiniteSet(S)
    <2>1. IsFiniteSet(1 .. Len(runs)) /\ S \in SUBSET (1 .. Len(runs))
      BY <1>2, FS_Interval
    <2>2. QED
      BY <2>1, FS_Subset
  <1>4. S \in SUBSET Nat /\ i \in S /\ S # {}
    BY <1>2
  <1>5. PICK m \in S : \A k \in S : k <= m
    BY <1>3, <1>4, MaxExists
  <1>6. \A k \in S : m >= k
    BY <1>4, <1>5
  <1>7. Max(S) \in S /\ \A k \in S : Max(S) >= k
    BY <1>5, <1>6 DEF Max
  <1>8. PICK last \in S : last = Max(S) /\ last >= i
    BY <1>4, <1>7
  <1>9. last \in i .. Len(runs) /\ runs[last].trade = runs[i].trade
    BY <1>2, <1>8
  <1>10. QED
    BY <1>1, <1>8, <1>9 DEF LatestForTrade

\* Of two runs that did not overlap, the later one began when the earlier was recorded.
LEMMA InTurn ==
    ASSUME TypeOK, OrderInv, NEW i \in 1 .. Len(runs), NEW j \in 1 .. Len(runs), i < j,
           ~Overlapped(i, j)
    PROVE  i \in 1 .. runs[j].after
  <1>1. runs[i].after \in Nat /\ runs[j].after \in Nat
    <2>1. runs[i] \in Run /\ runs[j] \in Run
      BY DEF TypeOK
    <2>2. QED
      BY <2>1 DEF Run
  <1>2. runs[i].after < i
    BY DEF OrderInv
  <1>3. j > runs[i].after
    BY <1>1, <1>2
  <1>4. ~(i > runs[j].after)
    BY <1>3 DEF Overlapped
  <1>5. QED
    BY <1>1, <1>4

\* What is read as the most recent judgement of a trade is of a twin at least as new as that
\* of every judgement it did not overlap with, and no run cites a snapshot older than one
\* that a run before it cited of the same feeder (latest_for_trade, latest_for_feeder).
THEOREM LatestIsNewest == Spec => []LatestJudgesNewest
  <1>1. Init => TypeOK /\ OrderInv
    BY TypeInit, OrderInit
  <1>2. TypeOK /\ OrderInv /\ [Next]_vars => TypeOK' /\ OrderInv'
    BY TypeKept, OrderKept
  <1>3. ASSUME TypeOK, OrderInv
        PROVE  LatestJudgesNewest
    <2>1. DOMAIN runs = 1 .. Len(runs) /\ Len(runs) \in Nat
      BY <1>3 DEF TypeOK
    <2>2. \A k \in 1 .. Len(runs) : runs[k].read \in Int
      <3>1. \A k \in 1 .. Len(runs) : runs[k] \in Run
        BY <1>3 DEF TypeOK
      <3>2. QED
        BY <3>1 DEF Run
    <2>3. ASSUME NEW i \in 1 .. Len(runs)
          PROVE  \/ runs[i].read <= runs[LatestForTrade(runs[i].trade)].read
                 \/ Overlapped(i, LatestForTrade(runs[i].trade))
      <3>1. PICK last : last = LatestForTrade(runs[i].trade)
        OBVIOUS
      <3>2. last \in 1 .. Len(runs) /\ (last = i \/ i < last)
        BY <1>3, <2>1, <3>1, LastRun
      <3>3. CASE last = i
        <4>1. runs[i].read <= runs[last].read
          BY <2>2, <3>3
        <4>2. QED
          BY <3>1, <4>1
      <3>4. CASE i < last /\ ~Overlapped(i, last)
        <4>1. i \in 1 .. runs[last].after /\ Reads(runs[last])
          BY <1>3, <3>2, <3>4, InTurn DEF OrderInv
        <4>2. runs[i].read <= runs[last].read
          BY <4>1 DEF Reads
        <4>3. QED
          BY <3>1, <4>2
      <3>5. QED
        BY <3>1, <3>2, <3>3, <3>4
    <2>4. ASSUME NEW i \in 1 .. Len(runs), NEW j \in 1 .. Len(runs),
                 runs[i].trade.feeder = runs[j].trade.feeder, i < j, ~Overlapped(i, j)
          PROVE  runs[i].snapshot <= runs[j].snapshot
      <3>1. i \in 1 .. runs[j].after /\ Reads(runs[j])
        BY <1>3, <2>4, InTurn DEF OrderInv
      <3>2. QED
        BY <2>4, <3>1 DEF Reads
    <2>5. QED
      BY <2>1, <2>3, <2>4 DEF LatestJudgesNewest
  <1>4. QED
    BY <1>1, <1>2, <1>3, PTL DEF Spec
=============================================================================
