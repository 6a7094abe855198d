--------------------------- MODULE WorkspaceProofs ---------------------------
(***************************************************************************)
(* Proofs, for every community, clock and bound, that the connected        *)
(* marketplace keeps the terms of its trades, settles each once, keeps its *)
(* journal balanced and answers a repeated request with the same trade.    *)
(* They rest on the inductive invariant IInv of Workspace.                 *)
(*                                                                         *)
(* On top of it, that energy and money add up: an order is filled by       *)
(* exactly its trades, a household never offers more than its surplus, a   *)
(* meter's reading is delivered once, and nobody pays more, or gets less,  *)
(* than an order's limit allows.  Those rest on EnergyInv, whose sums are  *)
(* followed with the lemmas of ArithmeticTheorems.                         *)
(***************************************************************************)
EXTENDS Workspace, ArithmeticTheorems, SequenceTheorems

-----------------------------------------------------------------------------
(***************************************************************************)
(* Arithmetic of the helpers.                                              *)
(***************************************************************************)
LEMMA DayType ==
    ASSUME NEW t \in Nat
    PROVE  Day(t) \in Nat
  BY TimeAssumption DEF Day

\* A quotient of naturals, as in the pro-rata and the rounding, is a natural.
LEMMA QuotientType ==
    ASSUME NEW x \in Nat, NEW d \in Nat \ {0}
    PROVE  x \div d \in Nat
  OBVIOUS

\* Money rounded to the paisa is a natural.
LEMMA RoundedType ==
    ASSUME NEW x \in Nat
    PROVE  Rounded(x) \in Nat
  <1>1. Paisa \in Nat \ {0}
    BY DataAssumption
  <1>2. x \div Paisa \in Nat
    BY <1>1, QuotientType
  <1>3. Rounded(x) \in {x \div Paisa, x \div Paisa + 1}
    BY Zenon DEF Rounded
  <1>4. QED
    BY <1>2, <1>3

\* The lesser of two quantities is one of them, and below both.
LEMMA LeastType ==
    ASSUME NEW a \in Nat, NEW b \in Nat
    PROVE  /\ Least(a, b) \in Nat
           /\ Least(a, b) <= a
           /\ Least(a, b) <= b
  BY DEF Least

\* Energy times price is a natural amount.
LEMMA ProductType ==
    ASSUME NEW a \in Nat, NEW b \in Nat
    PROVE  a * b \in Nat
  OBVIOUS

-----------------------------------------------------------------------------
(***************************************************************************)
(* Readings and forecasts.                                                 *)
(***************************************************************************)
ReadingsOK(r) ==
    /\ DOMAIN r \subseteq Sites \X Slots
    /\ r \in [DOMAIN r -> Reading]

\* A reading that exists is never replaced.
ReadingsKept == \A k \in DOMAIN readings : k \in DOMAIN readings' /\ readings'[k] = readings[k]

\* add_readings writes readings of the right shape and keeps those that exist.
LEMMA MeasureType ==
    ASSUME ReadingsOK(readings),
           NEW keys \in SUBSET (Sites \X Slots),
           NEW sc \in Scenarios
    PROVE  /\ ReadingsOK(Measure(keys, sc))
           /\ \A k \in DOMAIN readings : /\ k \in DOMAIN Measure(keys, sc)
                                         /\ Measure(keys, sc)[k] = readings[k]
  <1> DEFINE added == IF sc = "missing" THEN {} ELSE keys
  <1>1. DOMAIN Measure(keys, sc) = DOMAIN readings \cup added
    BY DEF Measure
  <1>2. added \subseteq Sites \X Slots
    OBVIOUS
  <1>3. ASSUME NEW k \in DOMAIN readings \cup added
        PROVE  Measure(keys, sc)[k] \in Reading
    <2>1. CASE k \in DOMAIN readings
      BY <2>1 DEF Measure, ReadingsOK
    <2>2. CASE k \notin DOMAIN readings
      <3>1. sc # "missing" /\ k \in keys
        BY <1>3, <2>2
      <3>2. Profile[sc] \in [Sites \X Slots -> Reading]
        BY <3>1, DataAssumption
      <3>3. QED
        BY <3>1, <3>2, <2>2 DEF Measure
    <2>3. QED
      BY <2>1, <2>2
  <1>4. ASSUME NEW k \in DOMAIN readings
        PROVE  Measure(keys, sc)[k] = readings[k]
    BY <1>4 DEF Measure
  <1>5. Measure(keys, sc) \in [DOMAIN readings \cup added -> Reading]
    BY <1>3 DEF Measure
  <1>6. QED
    BY <1>1, <1>2, <1>4, <1>5 DEF ReadingsOK

\* A forecast is written for a household and a moment.
LEMMA ForecastedType ==
    ASSUME forecasts \subseteq Sites \X Nat,
           NEW who \in SUBSET Sites,
           NEW now \in Nat
    PROVE  Forecasted(who, now) \subseteq Sites \X Nat
  <1>1. Day(now) + 1 \in Nat
    BY DayType
  <1>2. QED
    BY <1>1 DEF Forecasted

-----------------------------------------------------------------------------
(***************************************************************************)
(* Steps that leave the market and the books alone: the clock, the meters, *)
(* the members and the worker's flags.                                     *)
(***************************************************************************)
LoadedRow == [clock : 0 .. Horizon, scenario : Scenarios, live : BOOLEAN]

\* Trades that reconcile_due can settle.
ToSettle(measured) == {i \in TradeIds : trades[i].status = "committed" /\ Measured(i, measured)}

SimulationStep ==
    /\ clock' \in 0 .. Horizon /\ wall' \in 0 .. Horizon
    /\ scenario' \in Scenarios
    /\ running' \in BOOLEAN /\ liveMode' \in BOOLEAN
    /\ seen' \subseteq LoadedRow
    /\ members' \subseteq Sites
    /\ forecasts' \subseteq Sites \X Nat
    /\ ReadingsOK(readings') /\ ReadingsKept
    /\ due' \subseteq ToSettle(readings')
    /\ UNCHANGED <<market, books, matching>>

\* Rows of the two tables have the type of a row.
LEMMA RowTypes ==
    ASSUME IInv
    PROVE  /\ orders \in Seq(Order) /\ trades \in Seq(Trade)
           /\ Len(orders) \in Nat /\ Len(trades) \in Nat
           /\ \A o \in OrderIds : orders[o] \in Order
           /\ \A i \in TradeIds : trades[i] \in Trade
  <1>1. orders \in Seq(Order) /\ trades \in Seq(Trade)
    BY DEF IInv, TypeOK
  <1>2. QED
    BY <1>1, ElementOfSeq, LenProperties DEF OrderIds, TradeIds

\* Rewriting a trade's status with itself changes nothing.
LEMMA SameTrade ==
    ASSUME NEW t \in Trade
    PROVE  [t EXCEPT !.status = t.status] = t
  BY DEF Trade

\* A step of the simulation, which leaves the market alone, keeps the invariant.
LEMMA SimulationStepInv ==
    ASSUME IInv, SimulationStep
    PROVE  IInv' /\ EvidenceKept
  <1>1. TypeOK'
    BY DEF IInv, TypeOK, SimulationStep, ReadingsOK, market, books, matching,
           TradeIds, OrderIds, LoadedRow, ToSettle
  <1>2. BookSound' /\ RoundSound'
    BY DEF IInv, BookSound, RoundSound, SimulationStep, market, matching, OrderIds,
           Remaining, Matchable
  <1>3. DueSound' /\ SettlementSound'
    BY DEF IInv, DueSound, SettlementSound, SimulationStep, market, books, TradeIds, ToSettle,
           Measured, MeterOf
  <1>4. TradeTerms'
    BY DEF IInv, TradeTerms, SimulationStep, market, TradeIds, OrderIds, Stands,
           Matchable, WithinLimits
  <1>5. SettledOnce' /\ JournalBalances'
    BY DEF IInv, SettledOnce, JournalBalances, SimulationStep, market, books, TradeIds
  <1>6. RequestBuysOnce'
    BY DEF IInv, RequestBuysOnce, SimulationStep, market, TradeIds, OrderIds, Stands
  <1>7. EvidenceKept
    <2>1. \A i \in TradeIds : [trades[i] EXCEPT !.status = trades[i].status] = trades[i]
      BY RowTypes, SameTrade
    <2>2. TradeIds = DOMAIN trades /\ OrderIds = DOMAIN orders
      BY RowTypes, LenProperties DEF TradeIds, OrderIds
    <2>3. \A o \in OrderIds : orders[o].matched \in Nat
      BY RowTypes DEF Order
    <2>4. QED
      BY <2>1, <2>2, <2>3 DEF SimulationStep, ReadingsKept, EvidenceKept, market, books
  <1>8. QED
    BY <1>1, <1>2, <1>3, <1>4, <1>5, <1>6, <1>7 DEF IInv

\* What advance and tick share: the clock, the meters and what falls due.
LEMMA DeliverType ==
    ASSUME IInv,
           NEW from, NEW now \in 0 .. Horizon, NEW ts \in SUBSET Slots, NEW sc \in Scenarios,
           Deliver(from, now, ts, sc)
    PROVE  /\ clock' \in 0 .. Horizon
           /\ ReadingsOK(readings') /\ ReadingsKept
           /\ due' \subseteq ToSettle(readings')
  <1>1. members \X ts \in SUBSET (Sites \X Slots) /\ ReadingsOK(readings)
    BY DEF IInv, TypeOK, ReadingsOK
  <1>2. ReadingsOK(readings') /\ ReadingsKept
    BY <1>1, MeasureType DEF Deliver, ReadingsKept
  <1>3. due' \subseteq ToSettle(readings')
    BY DEF Deliver, Due, Ended, ToSettle
  <1>4. clock' \in 0 .. Horizon
    BY DEF Deliver, IInv, TypeOK
  <1>5. QED
    BY <1>2, <1>3, <1>4

\* The slots that have ended are slots.
LEMMA PastType ==
    ASSUME NEW now \in Nat
    PROVE  Past(now) \in SUBSET Slots
  BY DEF Past

\* Moving the clock to a target is a step of the simulation.
LEMMA AdvanceStep ==
    ASSUME IInv, NEW from \in 0 .. Horizon, NEW target \in Int, NEW sc \in Scenarios,
           Advance(from, target, sc),
           running' \in BOOLEAN, liveMode' \in BOOLEAN, seen' \subseteq LoadedRow
    PROVE  SimulationStep
  <1> DEFINE now == IF target > from THEN target ELSE from
             ts  == from .. now - 1
  <1>1. /\ wall \in 0 .. Horizon /\ scenario \in Scenarios /\ members \subseteq Sites
        /\ forecasts \subseteq Sites \X Nat
    BY DEF IInv, TypeOK
  <1>2. target <= Horizon /\ Horizon \in Nat
    BY TimeAssumption DEF Advance
  <1>3. now \in 0 .. Horizon
    BY <1>2
  <1>4. ts \in SUBSET Slots
    BY <1>3, TimeAssumption DEF Slots
  <1>5. Deliver(from, now, ts, sc) /\ forecasts' = Forecasted(members, now)
    BY DEF Advance
  <1>6. forecasts' \subseteq Sites \X Nat
    BY <1>1, <1>3, <1>5, ForecastedType, TimeAssumption
  <1>7. /\ clock' \in 0 .. Horizon /\ ReadingsOK(readings') /\ ReadingsKept
        /\ due' \subseteq ToSettle(readings')
    BY <1>3, <1>4, <1>5, DeliverType
  <1>8. UNCHANGED <<wall, scenario, members, market, books, matching>>
    BY DEF Advance
  <1>9. QED
    BY <1>1, <1>6, <1>7, <1>8 DEF SimulationStep

\* A tick of the worker is a step of the simulation.
LEMMA WorkerStep ==
    ASSUME IInv, Worker
    PROVE  SimulationStep
  <1>1. /\ clock \in 0 .. Horizon /\ wall \in 0 .. Horizon
        /\ scenario \in Scenarios /\ members \subseteq Sites
        /\ running \in BOOLEAN /\ liveMode \in BOOLEAN
        /\ seen \subseteq LoadedRow
        /\ forecasts \subseteq Sites \X Nat /\ "normal" \in Scenarios
    BY DataAssumption DEF IInv, TypeOK, LoadedRow
  <1>2. CASE WorkerRead
    <2>1. [clock |-> clock, scenario |-> scenario, live |-> liveMode] \in LoadedRow
      BY <1>1 DEF LoadedRow
    <2>2. seen' \subseteq LoadedRow
      BY <1>2, <2>1 DEF WorkerRead
    <2>3. due' = {} /\ ReadingsOK(readings') /\ ReadingsKept
      BY <1>2 DEF WorkerRead, Idle, community, IInv, TypeOK, ReadingsOK, ReadingsKept
    <2>4. QED
      BY <1>1, <1>2, <2>2, <2>3 DEF WorkerRead, SimulationStep, sim, community
  <1>3. CASE WorkerAdvance
    <2>1. PICK row \in seen : Advance(row.clock, row.clock + 1, row.scenario)
      BY <1>3 DEF WorkerAdvance
    <2>2. running' \in BOOLEAN /\ liveMode' \in BOOLEAN /\ seen' \subseteq LoadedRow
      BY <1>1, <1>3 DEF WorkerAdvance
    <2>3. row.clock \in 0 .. Horizon /\ row.clock + 1 \in Int /\ row.scenario \in Scenarios
      BY <1>1, TimeAssumption DEF LoadedRow
    <2>4. QED
      BY <2>1, <2>2, <2>3, AdvanceStep
  <1>4. CASE WorkerTick
    <2>1. PICK row \in seen :
            LET from == Least(wall, IF row.clock >= wall - Backfill THEN row.clock
                                                                    ELSE wall - Backfill)
                ts   == from .. wall - 1
            IN  /\ Deliver(row.clock, wall, ts, "normal")
                /\ forecasts' = IF ts = {} THEN forecasts ELSE Forecasted(members, wall)
                /\ seen' = {}
                /\ UNCHANGED <<wall, scenario, running, liveMode, members, market, books, matching>>
      BY <1>4 DEF WorkerTick
    <2> DEFINE from == Least(wall, IF row.clock >= wall - Backfill THEN row.clock
                                                                   ELSE wall - Backfill)
               ts   == from .. wall - 1
    <2>2. row.clock \in 0 .. Horizon
      BY <1>1 DEF LoadedRow
    <2>3. ts \in SUBSET Slots
      BY <1>1, <2>2, TimeAssumption DEF Slots, Least
    <2>4. /\ clock' \in 0 .. Horizon /\ ReadingsOK(readings') /\ ReadingsKept
          /\ due' \subseteq ToSettle(readings')
      BY <1>1, <2>1, <2>3, DeliverType
    <2>5. forecasts' \subseteq Sites \X Nat
      <3>1. forecasts' \in {forecasts, Forecasted(members, wall)}
        BY <2>1
      <3>2. QED
        BY <1>1, <3>1, ForecastedType, TimeAssumption
    <2>6. seen' \subseteq LoadedRow
          /\ UNCHANGED <<wall, scenario, running, liveMode, members, market, books, matching>>
      BY <2>1
    <2>7. QED
      BY <1>1, <2>4, <2>5, <2>6 DEF SimulationStep
  <1>5. QED
    BY <1>2, <1>3, <1>4 DEF Worker

\* A household that registers, with its first readings, is a step of the simulation.
LEMMA RegisterStep ==
    ASSUME IInv, NEW u \in Sites, Register(u)
    PROVE  SimulationStep
  <1>1. /\ clock \in Nat /\ members \subseteq Sites /\ ReadingsOK(readings)
        /\ forecasts \subseteq Sites \X Nat /\ "normal" \in Scenarios
    BY TimeAssumption, DataAssumption DEF IInv, TypeOK, ReadingsOK
  <1>2. {u} \X Past(clock) \in SUBSET (Sites \X Slots)
    BY <1>1, PastType
  <1>3. ReadingsOK(readings') /\ ReadingsKept
    BY <1>1, <1>2, MeasureType DEF Register, ReadingsKept
  <1>4. forecasts' \subseteq Sites \X Nat
    BY <1>1, ForecastedType DEF Register
  <1>5. due' = {}
    BY DEF Register, Idle
  <1>6. QED
    BY <1>1, <1>3, <1>4, <1>5 DEF Register, SimulationStep, IInv, TypeOK, sim, LoadedRow

\* Switching to live mode is a step of the simulation.
LEMMA EnableLiveStep ==
    ASSUME IInv, EnableLive
    PROVE  SimulationStep
  <1>1. /\ wall \in 0 .. Horizon /\ wall \in Nat /\ members \subseteq Sites
        /\ ReadingsOK(readings)
        /\ forecasts \subseteq Sites \X Nat /\ "normal" \in Scenarios
    BY TimeAssumption, DataAssumption DEF IInv, TypeOK, ReadingsOK
  <1>2. members \X Past(wall) \in SUBSET (Sites \X Slots)
    BY <1>1, PastType
  <1>3. ReadingsOK(readings') /\ ReadingsKept
    BY <1>1, <1>2, MeasureType DEF EnableLive, ReadingsKept
  <1>4. forecasts' \subseteq Sites \X Nat
    BY <1>1, ForecastedType DEF EnableLive
  <1>5. due' = {}
    BY DEF EnableLive, Idle
  <1>6. QED
    BY <1>1, <1>3, <1>4, <1>5 DEF EnableLive, SimulationStep, IInv, TypeOK, LoadedRow

\* The recovery of missing readings is a step of the simulation.
LEMMA RecoverStep ==
    ASSUME IInv, RecoverMissing
    PROVE  SimulationStep
  <1> DEFINE keys == UNION {{MeterOf(trades[i].buy, trades[i].start),
                             MeterOf(trades[i].sell, trades[i].start)} : i \in Ended(clock)}
  <1>1. ASSUME NEW i \in Ended(clock)
        PROVE  /\ MeterOf(trades[i].buy, trades[i].start) \in Sites \X Slots
               /\ MeterOf(trades[i].sell, trades[i].start) \in Sites \X Slots
    <2>1. i \in TradeIds /\ Stands(trades[i])
      BY <1>1 DEF Ended, Stands
    <2>2. trades[i].buy \in OrderIds /\ trades[i].sell \in OrderIds
      BY <2>1 DEF IInv, TradeTerms
    <2>3. trades[i] \in Trade /\ orders[trades[i].buy] \in Order /\ orders[trades[i].sell] \in Order
      BY <2>1, <2>2, RowTypes
    <2>4. QED
      BY <2>3 DEF MeterOf, Order, Trade
  <1>2. keys \in SUBSET (Sites \X Slots)
    BY <1>1
  <1>3. ReadingsOK(readings) /\ "normal" \in Scenarios
    BY DataAssumption DEF IInv, TypeOK, ReadingsOK
  <1>4. ReadingsOK(readings') /\ ReadingsKept
    BY <1>2, <1>3, MeasureType DEF RecoverMissing, ReadingsKept
  <1>5. due' \subseteq ToSettle(readings')
    BY DEF RecoverMissing, Due, Ended, ToSettle
  <1>6. QED
    BY <1>4, <1>5 DEF RecoverMissing, SimulationStep, IInv, TypeOK, sim, LoadedRow

\* The other controls of the simulation are steps of it.
LEMMA ControlStep ==
    ASSUME IInv,
           \/ Step \/ DeliverTrades \/ WallPasses
           \/ \E sc \in Scenarios : SetScenario(sc)
           \/ \E on \in BOOLEAN : Play(on)
    PROVE  SimulationStep
  <1>1. /\ clock \in 0 .. Horizon /\ wall \in 0 .. Horizon /\ Horizon \in Nat
        /\ scenario \in Scenarios /\ running \in BOOLEAN /\ liveMode \in BOOLEAN
        /\ members \subseteq Sites /\ forecasts \subseteq Sites \X Nat
        /\ ReadingsOK(readings) /\ seen \subseteq LoadedRow
    BY TimeAssumption DEF IInv, TypeOK, ReadingsOK, LoadedRow
  <1>2. CASE Step
    <2>1. Advance(clock, clock + 1, scenario)
          /\ running' \in BOOLEAN /\ liveMode' \in BOOLEAN /\ seen' \subseteq LoadedRow
      BY <1>1, <1>2 DEF Step
    <2>2. QED
      BY <1>1, <2>1, AdvanceStep
  <1>3. CASE DeliverTrades
    <2>1. PICK i \in TradeIds : Advance(clock, trades[i].start + 1, scenario)
      BY <1>3 DEF DeliverTrades
    <2>2. trades[i] \in Trade
      BY RowTypes
    <2>3. trades[i].start + 1 \in Int
      BY <2>2 DEF Trade, Slots
    <2>4. running' \in BOOLEAN /\ liveMode' \in BOOLEAN /\ seen' \subseteq LoadedRow
      BY <1>1, <1>3 DEF DeliverTrades
    <2>5. QED
      BY <1>1, <2>1, <2>3, <2>4, AdvanceStep
  <1>4. ASSUME \/ WallPasses
               \/ \E sc \in Scenarios : SetScenario(sc)
               \/ \E on \in BOOLEAN : Play(on)
        PROVE  SimulationStep
    <2>1. UNCHANGED <<clock, seen, members, forecasts, readings, market, books, matching, due>>
      BY <1>4 DEF WallPasses, SetScenario, Play, sim, community
    <2>2. /\ wall' \in 0 .. Horizon /\ scenario' \in Scenarios
          /\ running' \in BOOLEAN /\ liveMode' \in BOOLEAN
      <3>1. CASE WallPasses
        BY <1>1, <3>1 DEF WallPasses, sim
      <3>2. ASSUME NEW sc \in Scenarios, SetScenario(sc)
            PROVE  /\ wall' \in 0 .. Horizon /\ scenario' \in Scenarios
                   /\ running' \in BOOLEAN /\ liveMode' \in BOOLEAN
        BY <1>1, <3>2 DEF SetScenario
      <3>3. ASSUME NEW on \in BOOLEAN, Play(on)
            PROVE  /\ wall' \in 0 .. Horizon /\ scenario' \in Scenarios
                   /\ running' \in BOOLEAN /\ liveMode' \in BOOLEAN
        BY <1>1, <3>3 DEF Play
      <3>4. QED
        BY <1>4, <3>1, <3>2, <3>3
    <2>3. due' \subseteq ToSettle(readings')
      BY <2>1 DEF IInv, TypeOK, DueSound, ToSettle
    <2>4. QED
      BY <1>1, <2>1, <2>2, <2>3 DEF SimulationStep, ReadingsKept
  <1>5. QED
    BY <1>2, <1>3, <1>4

-----------------------------------------------------------------------------
(***************************************************************************)
(* Steps that extend the market: orders are added or updated, trades are   *)
(* added, and neither loses its terms.                                     *)
(***************************************************************************)
SameTerms(a, b) ==
    /\ a.site = b.site /\ a.side = b.side /\ a.start = b.start
    /\ a.energy = b.energy /\ a.limit = b.limit

\* Orders keep their terms and what they matched; only an order that has matched
\* nothing is ever cancelled.
OrdersKept ==
    /\ orders' \in Seq(Order)
    /\ Len(orders) <= Len(orders')
    /\ \A o \in OrderIds :
        /\ SameTerms(orders'[o], orders[o])
        /\ orders'[o].matched >= orders[o].matched
        /\ orders'[o].status = "cancelled" => orders[o].matched = 0
        /\ ~Active(orders[o]) => orders'[o] = orders[o]

\* What TradeTerms says of one trade.
TermsOf(t, os) ==
    /\ t.buy \in DOMAIN os /\ t.sell \in DOMAIN os
    /\ Matchable(os[t.buy], os[t.sell])
    /\ t.start = os[t.buy].start
    /\ WithinLimits(os[t.buy], os[t.sell], t.price)
    /\ \A o \in {t.buy, t.sell} :
        /\ os[o].status # "cancelled"
        /\ t.energy <= os[o].matched

\* Trades are only added, and a trade that is added has sound terms if it stands.
TradesKept ==
    /\ trades' \in Seq(Trade)
    /\ Len(trades) <= Len(trades')
    /\ \A i \in TradeIds : trades'[i] = trades[i]
    /\ \A i \in (1 .. Len(trades')) \ TradeIds :
        /\ trades'[i].status # "settled"
        /\ Stands(trades'[i]) => TermsOf(trades'[i], orders')

\* What an order had matched before the step.
Before(o) == IF o \in OrderIds THEN orders[o].matched ELSE 0

\* What the trade that the step adds, if any, matches of an order.
Added(o) ==
    LET n == Len(trades) + 1
    IN  IF n <= Len(trades') /\ Stands(trades'[n]) /\ o \in {trades'[n].buy, trades'[n].sell}
        THEN trades'[n].energy ELSE 0

\* The energy that a step of the market moves: it adds at most one order and one trade,
\* the trade's energy is matched with both its orders, and a sell order that is added
\* offers surplus that no other holds.
EnergyMoves ==
    /\ OrdersKept /\ TradesKept
    /\ Len(orders') <= Len(orders) + 1
    /\ Len(trades') <= Len(trades) + 1
    /\ \A o \in 1 .. Len(orders') :
        /\ orders'[o].matched = Before(o) + Added(o)
        /\ o \notin OrderIds /\ orders'[o].side = "sell" =>
              orders'[o].energy <= Available(orders'[o].site, orders'[o].start)
                                     - Reserved(orders'[o].site, orders'[o].start)
    /\ UNCHANGED <<readings, settlements>>

\* The indices of a book and the type of its rows.
LEMMA SeqDomain ==
    ASSUME NEW S, NEW s \in Seq(S)
    PROVE  /\ Len(s) \in Nat
           /\ DOMAIN s = 1 .. Len(s)
           /\ \A k \in 1 .. Len(s) : s[k] \in S
  BY ElementOfSeq, LenProperties

\* A trade that stands keeps its terms while orders only fill.
LEMMA TermsKept ==
    ASSUME IInv, OrdersKept, NEW i \in TradeIds, Stands(trades[i])
    PROVE  TermsOf(trades[i], orders')
  <1> DEFINE t == trades[i]
  <1>1. TermsOf(t, orders)
    <2>1. DOMAIN orders = OrderIds
      BY RowTypes, SeqDomain DEF OrderIds
    <2>2. QED
      BY <2>1 DEF IInv, TradeTerms, TermsOf
  <1>2. /\ t \in Trade /\ DOMAIN orders = OrderIds
        /\ \A o \in OrderIds : orders[o] \in Order
        /\ Len(orders) \in Nat
    BY RowTypes, SeqDomain DEF OrderIds
  <1>3. Len(orders') \in Nat /\ DOMAIN orders' = 1 .. Len(orders')
        /\ \A o \in 1 .. Len(orders') : orders'[o] \in Order
    BY SeqDomain DEF OrdersKept
  <1>4. OrderIds \subseteq 1 .. Len(orders')
    BY <1>2, <1>3 DEF OrdersKept, OrderIds
  <1>5. t.buy \in OrderIds /\ t.sell \in OrderIds
    BY <1>1, <1>2 DEF TermsOf
  <1>6. SameTerms(orders'[t.buy], orders[t.buy]) /\ SameTerms(orders'[t.sell], orders[t.sell])
    BY <1>5 DEF OrdersKept
  <1>7. ASSUME NEW o \in {t.buy, t.sell}
        PROVE  /\ orders'[o].status # "cancelled"
               /\ t.energy <= orders'[o].matched
    <2>1. t.energy <= orders[o].matched /\ t.energy \in Nat \ {0}
      BY <1>1, <1>2 DEF TermsOf, Trade
    <2>2. orders[o].matched \in Nat /\ orders'[o].matched \in Nat /\ o \in OrderIds
      BY <1>2, <1>3, <1>4, <1>5 DEF Order
    <2>3. orders'[o].matched >= orders[o].matched
          /\ (orders'[o].status = "cancelled" => orders[o].matched = 0)
      BY <2>2 DEF OrdersKept
    <2>4. QED
      BY <2>1, <2>2, <2>3
  <1>8. QED
    BY <1>1, <1>3, <1>4, <1>5, <1>6, <1>7 DEF TermsOf, SameTerms, Matchable, WithinLimits

\* What is settled and journalled stays sound when orders and trades are only kept or added.
LEMMA MarketStep ==
    ASSUME IInv, OrdersKept, TradesKept, UNCHANGED <<readings, books, due>>
    PROVE  /\ TradeTerms' /\ SettledOnce' /\ JournalBalances'
           /\ SettlementSound' /\ DueSound'
           /\ due' \subseteq TradeIds' /\ receipts' \subseteq TradeIds'
  <1>1. /\ Len(trades) \in Nat /\ Len(trades') \in Nat /\ Len(trades) <= Len(trades')
        /\ TradeIds \subseteq 1 .. Len(trades')
    BY RowTypes, SeqDomain DEF TradesKept, TradeIds
  <1>2. DOMAIN orders' = 1 .. Len(orders')
    BY SeqDomain DEF OrdersKept
  <1>3. TradeTerms'
    <2>1. ASSUME NEW i \in 1 .. Len(trades'), Stands(trades'[i])
          PROVE  TermsOf(trades'[i], orders')
      <3>1. CASE i \in TradeIds
        BY <2>1, <3>1, TermsKept DEF TradesKept
      <3>2. CASE i \notin TradeIds
        BY <2>1, <3>2 DEF TradesKept
      <3>3. QED
        BY <3>1, <3>2
    <2>2. QED
      BY <1>2, <2>1 DEF TradeTerms, TermsOf, TradeIds, OrderIds, Stands
  <1>4. SettledOnce'
    <2>1. settlements' = settlements /\ receipts' = receipts
      BY DEF books
    <2>2. ASSUME NEW i \in 1 .. Len(trades')
          PROVE  trades'[i].status = "settled"
                   <=> \E n \in DOMAIN settlements : settlements[n].trade = i
      <3>1. CASE i \in TradeIds
        BY <3>1 DEF TradesKept, IInv, SettledOnce
      <3>2. CASE i \notin TradeIds
        BY <2>2, <3>2 DEF TradesKept, IInv, SettlementSound
      <3>3. QED
        BY <3>1, <3>2
    <2>3. {i \in 1 .. Len(trades') : trades'[i].status = "settled"}
            = {i \in TradeIds : trades[i].status = "settled"}
      BY <1>1 DEF TradesKept
    <2>4. receipts' = {i \in 1 .. Len(trades') : trades'[i].status = "settled"}
      BY <2>1, <2>3 DEF IInv, SettledOnce
    <2>5. \A m, n \in DOMAIN settlements' :
            settlements'[m].trade = settlements'[n].trade => m = n
      BY <2>1 DEF IInv, SettledOnce
    <2>6. QED
      BY <2>1, <2>2, <2>4, <2>5 DEF SettledOnce, TradeIds
  <1>5. JournalBalances'
    BY DEF IInv, JournalBalances, books
  <1>6. SettlementSound'
    BY <1>1 DEF IInv, SettlementSound, books, TradeIds
  <1>7. DueSound'
    <2>1. SUFFICES ASSUME NEW i \in due
                   PROVE  trades'[i].status = "committed" /\ Measured(i, readings)'
      BY DEF DueSound
    <2>2. /\ i \in TradeIds /\ trades[i].status = "committed" /\ Measured(i, readings)
          /\ trades'[i] = trades[i]
      BY DEF IInv, DueSound, TypeOK, TradesKept
    <2>3. trades[i].buy \in OrderIds /\ trades[i].sell \in OrderIds
      BY <2>2 DEF IInv, TradeTerms, Stands
    <2>4. /\ orders'[trades[i].buy].site = orders[trades[i].buy].site
          /\ orders'[trades[i].sell].site = orders[trades[i].sell].site
      BY <2>3 DEF OrdersKept, SameTerms
    <2>5. QED
      BY <2>2, <2>4 DEF Measured, MeterOf
  <1>8. due' \subseteq TradeIds' /\ receipts' \subseteq TradeIds'
    BY <1>1 DEF IInv, TypeOK, books, TradeIds
  <1>9. QED
    BY <1>3, <1>4, <1>5, <1>6, <1>7, <1>8

\* A request's trade is a row that is never changed by the market.
LEMMA RequestsKept ==
    ASSUME IInv, OrdersKept, TradesKept, UNCHANGED actions
    PROVE  RequestBuysOnce'
  <1>1. TradeIds \subseteq TradeIds'
    BY RowTypes, SeqDomain DEF TradesKept, TradeIds
  <1>2. ASSUME NEW a \in actions
        PROVE  /\ a.trade \in TradeIds /\ trades'[a.trade] = trades[a.trade]
               /\ orders'[trades[a.trade].buy].site = orders[trades[a.trade].buy].site
               /\ orders'[trades[a.trade].sell].site = orders[trades[a.trade].sell].site
    <2>1. a.trade \in TradeIds /\ Stands(trades[a.trade])
      BY DEF IInv, RequestBuysOnce
    <2>2. trades[a.trade].buy \in OrderIds /\ trades[a.trade].sell \in OrderIds
      BY <2>1 DEF IInv, TradeTerms
    <2>3. QED
      BY <2>1, <2>2 DEF OrdersKept, TradesKept, SameTerms
  <1>3. QED
    BY <1>1, <1>2 DEF IInv, RequestBuysOnce, Stands

-----------------------------------------------------------------------------
(***************************************************************************)
(* The book after a fill, a rejection and a new order.                     *)
(***************************************************************************)
\* BookSound of a book os.
SoundBook(os) ==
    \A o \in DOMAIN os :
        /\ os[o].matched <= os[o].energy
        /\ os[o].status \in {"open", "cancelled"} => os[o].matched = 0
        /\ os[o].status = "filled" <=> os[o].matched = os[o].energy

\* A book whose rows are rewritten in place is a book of the same length.
LEMMA SameLength ==
    ASSUME NEW os \in Seq(Order), NEW f \in [DOMAIN os -> Order]
    PROVE  f \in Seq(Order) /\ Len(f) = Len(os) /\ DOMAIN f = DOMAIN os
  <1>1. Len(os) \in Nat /\ DOMAIN os = 1 .. Len(os)
    BY SeqDomain
  <1>2. QED
    BY <1>1

\* A fill within what remains of both orders keeps the book sound.
LEMMA FillSound ==
    ASSUME NEW os \in Seq(Order), SoundBook(os),
           NEW b \in DOMAIN os, NEW s \in DOMAIN os,
           NEW q \in Nat \ {0}, q <= Remaining(os[b]), q <= Remaining(os[s])
    PROVE  LET fs == AfterFill(os, b, s, q)
           IN  /\ fs \in Seq(Order) /\ Len(fs) = Len(os) /\ DOMAIN fs = DOMAIN os
               /\ SoundBook(fs)
               /\ \A o \in DOMAIN os :
                    /\ SameTerms(fs[o], os[o])
                    /\ fs[o].matched >= os[o].matched
                    /\ fs[o].status = "cancelled" => os[o].matched = 0
               /\ \A o \in {b, s} :
                    /\ fs[o].matched = os[o].matched + q
                    /\ fs[o].status # "cancelled"
               /\ \A o \in DOMAIN os \ {b, s} : fs[o] = os[o]
  <1> DEFINE fs == AfterFill(os, b, s, q)
  <1>1. \A o \in DOMAIN os : os[o] \in Order
    BY SeqDomain
  <1>2. ASSUME NEW o \in {b, s}
        PROVE  /\ fs[o] \in Order
               /\ SameTerms(fs[o], os[o])
               /\ fs[o].matched = os[o].matched + q
               /\ fs[o].matched <= fs[o].energy
               /\ fs[o].status \in {"filled", "partially_filled"}
               /\ fs[o].status = "filled" <=> fs[o].matched = fs[o].energy
    <2>1. fs[o] = Filled(os[o], q)
      BY DEF AfterFill
    <2>2. os[o] \in Order /\ q <= os[o].energy - os[o].matched
      BY <1>1 DEF Remaining
    <2> DEFINE w == os[o]
    <2>3. w \in [site : Sites, side : {"buy", "sell"}, start : Slots, energy : Nat \ {0},
                 limit : Nat \ {0}, matched : Nat, status : OrderStatus]
      BY <2>2 DEF Order
    <2>4. w.matched + q \in Nat /\ w.matched + q <= w.energy
      BY <2>2, <2>3
    <2>5. fs[o] = [w EXCEPT !.matched = w.matched + q,
                            !.status = IF w.matched + q = w.energy THEN "filled"
                                                                   ELSE "partially_filled"]
      BY <2>1 DEF Filled
    <2>6. QED
      <3> DEFINE st == IF w.matched + q = w.energy THEN "filled" ELSE "partially_filled"
      <3>1. /\ st \in {"filled", "partially_filled"}
            /\ st = "filled" <=> w.matched + q = w.energy
        OBVIOUS
      <3>2. fs[o] = [w EXCEPT !.matched = w.matched + q, !.status = st]
        BY <2>5
      <3> HIDE DEF w, fs, st
      <3>3. QED
        BY <2>3, <2>4, <3>1, <3>2 DEF Order, OrderStatus, SameTerms, w
  <1>3. ASSUME NEW o \in DOMAIN os \ {b, s}
        PROVE  fs[o] = os[o]
    BY DEF AfterFill
  <1>4. fs \in [DOMAIN os -> Order]
    BY <1>1, <1>2, <1>3 DEF AfterFill
  <1>5. fs \in Seq(Order) /\ Len(fs) = Len(os) /\ DOMAIN fs = DOMAIN os
    BY <1>4, SameLength
  <1>6. SoundBook(fs)
    BY <1>1, <1>2, <1>3, <1>5 DEF SoundBook
  <1>7. \A o \in DOMAIN os :
          /\ SameTerms(fs[o], os[o])
          /\ fs[o].matched >= os[o].matched
          /\ fs[o].status = "cancelled" => os[o].matched = 0
    <2>1. TAKE o \in DOMAIN os
    <2>2. CASE o \in {b, s}
      <3>1. os[o].matched \in Nat
        BY <1>1 DEF Order
      <3>2. QED
        BY <1>2, <2>2, <3>1
    <2>3. CASE o \notin {b, s}
      BY <1>1, <1>3, <2>3 DEF Order, SameTerms, SoundBook
    <2>4. QED
      BY <2>2, <2>3
  <1>8. QED
    BY <1>2, <1>3, <1>5, <1>6, <1>7

\* A pair refused by the feeder keeps the book sound.
LEMMA RejectSound ==
    ASSUME NEW os \in Seq(Order), SoundBook(os), NEW b, NEW s,
           \A o \in DOMAIN os \cap {b, s} : Active(os[o])
    PROVE  LET rs == AfterReject(os, b, s)
           IN  /\ rs \in Seq(Order) /\ Len(rs) = Len(os) /\ DOMAIN rs = DOMAIN os
               /\ SoundBook(rs)
               /\ \A o \in DOMAIN os :
                    /\ SameTerms(rs[o], os[o])
                    /\ rs[o].matched = os[o].matched
                    /\ rs[o].status \in {"rejected", os[o].status}
  <1> DEFINE rs == AfterReject(os, b, s)
  <1>1. ASSUME NEW o \in DOMAIN os
        PROVE  /\ os[o] \in Order /\ rs[o] \in Order
               /\ SameTerms(rs[o], os[o])
               /\ rs[o].matched = os[o].matched
               /\ rs[o].status \in {"rejected", os[o].status}
               /\ rs[o].status # os[o].status => os[o].status # "filled"
    <2>1. os[o] \in Order
      BY SeqDomain
    <2>2. \/ rs[o] = os[o]
          \/ rs[o] = [os[o] EXCEPT !.status = "rejected"] /\ Active(os[o])
      BY DEF AfterReject
    <2>3. QED
      BY <2>1, <2>2 DEF Order, OrderStatus, SameTerms, Active
  <1>2. rs \in [DOMAIN os -> Order]
    BY <1>1 DEF AfterReject
  <1>3. rs \in Seq(Order) /\ Len(rs) = Len(os) /\ DOMAIN rs = DOMAIN os
    BY <1>2, SameLength
  <1>4. SoundBook(rs)
    BY <1>1, <1>3 DEF SoundBook, SameTerms
  <1>5. QED
    BY <1>1, <1>3, <1>4

\* A new order keeps the book sound and the earlier orders as they were.
LEMMA AppendOrder ==
    ASSUME NEW os \in Seq(Order), SoundBook(os),
           NEW u \in Sites, NEW t \in Slots, NEW side \in {"buy", "sell"},
           NEW q \in Quantities, NEW p \in Prices
    PROVE  LET as == Append(os, NewOrder(u, t, side, q, p))
           IN  /\ as \in Seq(Order) /\ Len(as) = Len(os) + 1
               /\ DOMAIN as = 1 .. Len(os) + 1
               /\ SoundBook(as)
               /\ \A o \in DOMAIN os : as[o] = os[o]
               /\ as[Len(os) + 1] = NewOrder(u, t, side, q, p)
  <1> DEFINE new == NewOrder(u, t, side, q, p)
             as  == Append(os, new)
  <1>1. new \in Order
    BY DataAssumption DEF NewOrder, Order, OrderStatus
  <1>2. Len(os) \in Nat /\ DOMAIN os = 1 .. Len(os)
    BY SeqDomain
  <1>3. as \in Seq(Order) /\ Len(as) = Len(os) + 1 /\ DOMAIN as = 1 .. Len(os) + 1
        /\ (\A o \in 1 .. Len(os) : as[o] = os[o])
        /\ as[Len(os) + 1] = new
    BY <1>1, <1>2, AppendProperties
  <1>4. SoundBook(as)
    <2>1. SUFFICES ASSUME NEW o \in DOMAIN as
                   PROVE  /\ as[o].matched <= as[o].energy
                          /\ as[o].status \in {"open", "cancelled"} => as[o].matched = 0
                          /\ as[o].status = "filled" <=> as[o].matched = as[o].energy
      BY DEF SoundBook
    <2>2. CASE o \in DOMAIN os
      BY <1>2, <1>3, <2>2 DEF SoundBook
    <2>3. CASE o = Len(os) + 1
      BY <1>1, <1>3, <2>3 DEF NewOrder, Order
    <2>4. QED
      BY <1>2, <1>3, <2>2, <2>3
  <1>5. QED
    BY <1>2, <1>3, <1>4

\* One trade is recorded at the end of the table.
LEMMA AppendTrade ==
    ASSUME NEW ts \in Seq(Trade), NEW t \in Trade
    PROVE  /\ Append(ts, t) \in Seq(Trade) /\ Len(Append(ts, t)) = Len(ts) + 1
           /\ Len(ts) \in Nat
           /\ \A i \in 1 .. Len(ts) : Append(ts, t)[i] = ts[i]
           /\ Append(ts, t)[Len(ts) + 1] = t
  BY SeqDomain, AppendProperties

-----------------------------------------------------------------------------
(***************************************************************************)
(* The market's actions.                                                   *)
(***************************************************************************)
LEMMA BookTypes ==
    ASSUME IInv
    PROVE  orders \in Seq(Order) /\ SoundBook(orders) /\ DOMAIN orders = OrderIds
           /\ Len(orders) \in Nat /\ Len(trades) \in Nat
  <1>1. DOMAIN orders = OrderIds
    BY RowTypes, SeqDomain DEF OrderIds
  <1>2. QED
    BY <1>1, RowTypes DEF IInv, BookSound, SoundBook

\* A step of the market that keeps orders, trades and books sound keeps the invariant.
LEMMA MarketStepInv ==
    ASSUME IInv, OrdersKept, TradesKept,
           UNCHANGED <<sim, wall, seen, community, books, due>>,
           SoundBook(orders'),
           actions' \subseteq Action,
           RequestBuysOnce',
           pairs' \subseteq OrderIds' \X OrderIds',
           pairs' # {} => left' \in [OrderIds' -> Nat],
           RoundSound'
    PROVE  IInv' /\ EvidenceKept
  <1>1. /\ TradeTerms' /\ SettledOnce' /\ JournalBalances'
        /\ SettlementSound' /\ DueSound'
        /\ due' \subseteq TradeIds' /\ receipts' \subseteq TradeIds'
    BY MarketStep DEF community
  <1>2. TypeOK'
    BY <1>1 DEF IInv, TypeOK, OrdersKept, TradesKept, sim, community, books
  <1>3. BookSound'
    <2>1. DOMAIN orders' = OrderIds'
      BY SeqDomain DEF OrdersKept, OrderIds
    <2>2. QED
      BY <2>1 DEF BookSound, SoundBook
  <1>4. EvidenceKept
    <2>1. \A i \in TradeIds : [trades[i] EXCEPT !.status = trades[i].status] = trades[i]
      BY RowTypes, SameTrade
    <2>2. TradeIds \subseteq DOMAIN trades'
      BY RowTypes, SeqDomain DEF TradesKept, TradeIds
    <2>3. OrderIds \subseteq DOMAIN orders'
      BY RowTypes, SeqDomain DEF OrdersKept, OrderIds
    <2>4. QED
      BY <2>1, <2>2, <2>3 DEF OrdersKept, TradesKept, EvidenceKept, community, books
  <1>5. QED
    BY <1>1, <1>2, <1>3, <1>4 DEF IInv

\* No trade is added.
LEMMA SameTrades ==
    ASSUME IInv, UNCHANGED trades
    PROVE  TradesKept
  BY RowTypes DEF TradesKept, TradeIds

\* Without a trade only an order that is added may change what is matched.
LEMMA NoTradeMoves ==
    ASSUME IInv, UNCHANGED <<trades, settlements, readings>>,
           OrdersKept, Len(orders') = Len(orders),
           \A o \in OrderIds : orders'[o].matched = orders[o].matched
    PROVE  EnergyMoves
  <1>1. \A o : Added(o) = 0
    BY RowTypes DEF Added
  <1>2. \A o \in OrderIds : orders[o].matched \in Nat
    BY RowTypes DEF Order
  <1>3. OrderIds = 1 .. Len(orders)
    BY DEF OrderIds
  <1>4. QED
    BY <1>1, <1>2, <1>3, SameTrades, RowTypes DEF EnergyMoves, Before

\* The book does not change.
LEMMA SameOrders ==
    ASSUME IInv, UNCHANGED orders
    PROVE  OrdersKept
  <1>1. \A o \in OrderIds : orders[o].matched \in Nat
    BY RowTypes DEF Order
  <1>2. \A o \in OrderIds : orders[o].status = "cancelled" => orders[o].matched = 0
    BY DEF IInv, BookSound
  <1>3. QED
    BY <1>1, <1>2, RowTypes DEF OrdersKept, SameTerms

\* Placing an order keeps the invariant.
LEMMA PlaceOrderInv ==
    ASSUME IInv, NEW u \in Sites, NEW t \in Slots, NEW side \in {"buy", "sell"},
           NEW q \in Quantities, NEW p \in Prices, PlaceOrder(u, t, side, q, p)
    PROVE  IInv' /\ EvidenceKept /\ EnergyMoves
  <1>1. orders' = Append(orders, NewOrder(u, t, side, q, p))
    BY DEF PlaceOrder
  <1>2. /\ orders' \in Seq(Order) /\ Len(orders') = Len(orders) + 1
        /\ SoundBook(orders')
        /\ \A o \in OrderIds : orders'[o] = orders[o]
    BY <1>1, AppendOrder, BookTypes
  <1>3. OrdersKept
    <2>1. \A o \in OrderIds : /\ orders[o].matched \in Nat
                              /\ orders[o].status = "cancelled" => orders[o].matched = 0
      BY RowTypes DEF Order, IInv, BookSound
    <2>2. QED
      BY <1>2, <2>1, RowTypes DEF OrdersKept, SameTerms
  <1>4. TradesKept
    BY SameTrades DEF PlaceOrder
  <1>5. RequestBuysOnce' /\ actions' \subseteq Action
    BY <1>3, <1>4, RequestsKept DEF PlaceOrder, IInv, TypeOK
  <1>6. pairs' = {} /\ UNCHANGED <<sim, wall, seen, community, books, due>>
    BY DEF PlaceOrder, Idle, matching
  <1>7. RoundSound'
    BY <1>6 DEF RoundSound
  <1>8. EnergyMoves
    <2> DEFINE n == Len(orders) + 1
               new == NewOrder(u, t, side, q, p)
    <2>1. \A o : Added(o) = 0
      BY RowTypes DEF Added, PlaceOrder
    <2>2. OrderIds = 1 .. Len(orders) /\ Len(orders) \in Nat /\ orders'[n] = new
      BY <1>1, BookTypes, AppendOrder DEF OrderIds
    <2>3. ASSUME NEW o \in OrderIds
          PROVE  orders'[o].matched = Before(o) + 0
      <3>1. orders[o].matched \in Nat
        BY RowTypes DEF Order
      <3>2. QED
        BY <1>2, <3>1 DEF Before
    <2>4. /\ orders'[n].matched = 0 /\ orders'[n].side = side /\ orders'[n].energy = q
          /\ orders'[n].site = u /\ orders'[n].start = t
      BY <2>2 DEF NewOrder
    <2>5. side = "sell" => q <= Available(u, t) - Reserved(u, t)
      BY DEF PlaceOrder, MayPlace
    <2>6. n \notin OrderIds /\ 1 .. Len(orders') = OrderIds \cup {n}
      BY <1>2, <2>2
    <2>7. ASSUME NEW o \in 1 .. Len(orders')
          PROVE  /\ orders'[o].matched = Before(o) + Added(o)
                 /\ o \notin OrderIds /\ orders'[o].side = "sell" =>
                       orders'[o].energy <= Available(orders'[o].site, orders'[o].start)
                                              - Reserved(orders'[o].site, orders'[o].start)
      <3>1. CASE o \in OrderIds
        BY <2>1, <2>3, <3>1
      <3>2. CASE o = n
        BY <2>1, <2>4, <2>5, <2>6, <3>2 DEF Before
      <3>3. QED
        BY <2>6, <3>1, <3>2
    <2>8. UNCHANGED <<readings, settlements>> /\ trades' = trades
      BY DEF PlaceOrder, community, books
    <2>9. QED
      BY <1>2, <1>3, <1>4, <2>2, <2>7, <2>8, RowTypes DEF EnergyMoves
  <1>9. QED
    BY <1>2, <1>3, <1>4, <1>5, <1>6, <1>7, <1>8, MarketStepInv

\* Cancelling an order keeps the invariant.
LEMMA CancelOrderInv ==
    ASSUME IInv, NEW o \in OrderIds, CancelOrder(o)
    PROVE  IInv' /\ EvidenceKept /\ EnergyMoves
  <1>1. /\ orders' = [orders EXCEPT ![o].status = "cancelled"]
        /\ orders[o].matched = 0 /\ orders[o].status = "open"
    BY DEF CancelOrder
  <1>2. orders \in Seq(Order) /\ SoundBook(orders) /\ DOMAIN orders = OrderIds
    BY BookTypes
  <1>3. ASSUME NEW x \in OrderIds
        PROVE  /\ orders[x] \in Order /\ orders'[x] \in Order
               /\ SameTerms(orders'[x], orders[x])
               /\ orders'[x].matched = orders[x].matched
               /\ orders'[x].status = "cancelled" => orders[x].matched = 0
               /\ orders'[x].status \in {"cancelled", orders[x].status}
               /\ orders'[x].status # orders[x].status => orders[x].status = "open"
               /\ ~Active(orders[x]) => orders'[x] = orders[x]
    <2>1. orders[x] \in Order
      BY RowTypes
    <2>2. CASE x = o
      <3>1. orders'[x] = [orders[x] EXCEPT !.status = "cancelled"]
        BY <1>1, <1>2, <2>2
      <3>2. QED
        BY <1>1, <2>1, <2>2, <3>1 DEF Order, OrderStatus, SameTerms, Active
    <2>3. CASE x # o
      BY <1>1, <1>2, <2>1, <2>3 DEF SameTerms, SoundBook
    <2>4. QED
      BY <2>2, <2>3
  <1>4. orders' \in [OrderIds -> Order]
    BY <1>1, <1>2, <1>3
  <1>5. orders' \in Seq(Order) /\ Len(orders') = Len(orders) /\ DOMAIN orders' = OrderIds
    BY <1>2, <1>4, SameLength
  <1>6. SoundBook(orders')
    <2>1. \A x \in OrderIds : orders[x].energy # 0
      BY <1>3 DEF Order
    <2>2. QED
      BY <1>2, <1>3, <1>5, <2>1 DEF SoundBook, SameTerms
  <1>7. OrdersKept
    <2>1. \A x \in OrderIds : orders[x].matched \in Nat
      BY <1>3 DEF Order
    <2>2. Len(orders) \in Nat
      BY BookTypes
    <2>3. QED
      BY <1>3, <1>5, <2>1, <2>2 DEF OrdersKept
  <1>8. TradesKept
    BY SameTrades DEF CancelOrder
  <1>9. RequestBuysOnce' /\ actions' \subseteq Action
    BY <1>7, <1>8, RequestsKept DEF CancelOrder, IInv, TypeOK
  <1>10. pairs' = {} /\ UNCHANGED <<sim, wall, seen, community, books, due>>
    BY DEF CancelOrder, Idle, matching
  <1>11. RoundSound'
    BY <1>10 DEF RoundSound
  <1>12. EnergyMoves
    BY <1>3, <1>5, <1>7, <1>10, NoTradeMoves DEF CancelOrder, community, books
  <1>13. QED
    BY <1>6, <1>7, <1>8, <1>9, <1>10, <1>11, <1>12, MarketStepInv

\* Starting a clearing, which proposes pairs, keeps the invariant.
LEMMA ClearMarketInv ==
    ASSUME IInv, ClearMarket
    PROVE  IInv' /\ EvidenceKept /\ EnergyMoves
  <1>1. UNCHANGED <<sim, wall, seen, community, market, books, due>>
    BY DEF ClearMarket
  <1>2. OrdersKept /\ TradesKept
    BY <1>1, SameOrders, SameTrades DEF market
  <1>3. RequestBuysOnce' /\ actions' \subseteq Action
    BY <1>1, <1>2, RequestsKept DEF market, IInv, TypeOK
  <1>4. orders' = orders /\ OrderIds' = OrderIds
    BY <1>1 DEF market, OrderIds
  <1>5. Candidates \subseteq OrderIds \X OrderIds
    BY DEF Candidates, OpenBook
  <1>6. \A o \in OrderIds : Remaining(orders[o]) \in Nat
    BY RowTypes DEF IInv, BookSound, Order, Remaining
  <1>7. pairs' \subseteq OrderIds' \X OrderIds' /\ left' \in [OrderIds' -> Nat]
    BY <1>4, <1>5, <1>6 DEF ClearMarket
  <1>8. RoundSound'
    <2>1. \A o \in OrderIds : left'[o] = Remaining(orders[o])
      BY DEF ClearMarket
    <2>2. \A p \in Candidates : /\ Matchable(orders[p[1]], orders[p[2]])
                                /\ orders[p[1]].status # "cancelled"
                                /\ orders[p[2]].status # "cancelled"
      BY DEF Candidates, OpenBook, Active
    <2>3. \A o \in OrderIds : left'[o] <= Remaining(orders[o])
      BY <1>6, <2>1
    <2>4. QED
      BY <1>4, <2>2, <2>3 DEF RoundSound, ClearMarket
  <1>9. SoundBook(orders')
    BY <1>4, BookTypes
  <1>10. EnergyMoves
    BY <1>1, <1>2, <1>4, NoTradeMoves DEF market, community, books
  <1>11. QED
    BY <1>1, <1>2, <1>3, <1>7, <1>8, <1>9, <1>10, MarketStepInv

\* The pair that clear_market visits, and the energy the engine would propose.
LEMMA PairTypes ==
    ASSUME IInv, NEW p \in pairs
    PROVE  /\ p[1] \in OrderIds /\ p[2] \in OrderIds /\ p[1] # p[2]
           /\ Matchable(orders[p[1]], orders[p[2]])
           /\ orders[p[1]].status # "cancelled" /\ orders[p[2]].status # "cancelled"
           /\ left \in [OrderIds -> Nat]
           /\ Least(left[p[1]], left[p[2]]) \in Nat
           /\ Least(left[p[1]], left[p[2]]) <= left[p[1]]
           /\ Least(left[p[1]], left[p[2]]) <= left[p[2]]
           /\ left[p[1]] <= Remaining(orders[p[1]])
           /\ left[p[2]] <= Remaining(orders[p[2]])
  <1>1. p[1] \in OrderIds /\ p[2] \in OrderIds /\ left \in [OrderIds -> Nat]
    BY DEF IInv, TypeOK
  <1>2. /\ Matchable(orders[p[1]], orders[p[2]])
        /\ orders[p[1]].status # "cancelled" /\ orders[p[2]].status # "cancelled"
        /\ left[p[1]] <= Remaining(orders[p[1]])
        /\ left[p[2]] <= Remaining(orders[p[2]])
    BY <1>1 DEF IInv, RoundSound
  <1>3. p[1] # p[2]
    BY <1>2 DEF Matchable
  <1>4. QED
    BY <1>1, <1>2, <1>3, LeastType

\* An order the engine proposes energy for is active.
LEMMA ProposedActive ==
    ASSUME IInv, NEW p \in pairs, Proposed(p)
    PROVE  Active(orders[p[1]]) /\ Active(orders[p[2]])
  <1> DEFINE q == Least(left[p[1]], left[p[2]])
  <1>1. ASSUME NEW o \in {p[1], p[2]}
        PROVE  Active(orders[o])
    <2>1. orders[o] \in Order /\ o \in OrderIds
      BY PairTypes, RowTypes
    <2>2. left[o] \in Nat /\ left[o] > 0
      <3>1. q > 0 /\ q \in Nat /\ q <= left[p[1]] /\ q <= left[p[2]]
        BY PairTypes DEF Proposed
      <3>2. left[p[1]] \in Nat /\ left[p[2]] \in Nat
        BY PairTypes
      <3> HIDE DEF q
      <3>3. QED
        BY <3>1, <3>2
    <2>3. left[o] <= orders[o].energy - orders[o].matched
      BY PairTypes DEF Remaining
    <2>4. orders[o].energy \in Nat /\ orders[o].matched \in Nat
      BY <2>1 DEF Order
    <2>5. orders[o].status # "filled"
      BY <2>1, <2>2, <2>3, <2>4 DEF IInv, BookSound
    <2>6. orders[o].status \notin {"rejected", "cancelled"}
      BY PairTypes DEF Proposed
    <2>7. QED
      BY <2>1, <2>5, <2>6 DEF Order, OrderStatus, Active
  <1>2. QED
    BY <1>1

\* What a visit takes from both sides leaves the engine no more than the order has.
LEMMA LeftBelow ==
    ASSUME NEW l \in Nat, NEW e \in Nat, NEW m \in Nat, NEW q \in Nat, NEW m2 \in {m, m + q},
           l <= e - m
    PROVE  l - q <= e - m2
  <1>1. CASE m2 = m
    BY <1>1
  <1>2. CASE m2 = m + q
    BY <1>2
  <1>3. QED
    BY <1>1, <1>2

\* The loop's variables after a visit, whatever became of the pair.
LEMMA VisitedSound ==
    ASSUME IInv, NEW p \in pairs, Visited(p),
           Len(orders') = Len(orders),
           \A o \in OrderIds :
               /\ SameTerms(orders'[o], orders[o])
               /\ orders'[o].matched \in
                      {orders[o].matched,
                       IF o \in {p[1], p[2]} THEN orders[o].matched + Least(left[p[1]], left[p[2]])
                                             ELSE orders[o].matched}
               /\ orders'[o].status = "cancelled" => orders[o].status = "cancelled"
    PROVE  /\ pairs' \subseteq OrderIds' \X OrderIds'
           /\ pairs' # {} => left' \in [OrderIds' -> Nat]
           /\ RoundSound'
  <1> DEFINE q == Least(left[p[1]], left[p[2]])
  <1>1. OrderIds' = OrderIds
    BY DEF OrderIds
  <1>2. pairs' \subseteq pairs /\ pairs' \subseteq OrderIds \X OrderIds
    BY DEF Visited, IInv, TypeOK
  <1>3. ASSUME pairs' # {}, NEW o \in OrderIds
        PROVE  /\ left'[o] \in Nat
               /\ left'[o] = IF o \in {p[1], p[2]} THEN left[o] - q ELSE left[o]
    <2>1. left' = [left EXCEPT ![p[1]] = @ - q, ![p[2]] = @ - q]
      BY <1>3 DEF Visited
    <2>2. left'[o] = IF o \in {p[1], p[2]} THEN left[o] - q ELSE left[o]
      BY <2>1, PairTypes
    <2>3. QED
      BY <2>2, PairTypes
  <1>4. ASSUME pairs' # {}
        PROVE  left' \in [OrderIds -> Nat]
    <2>1. left' = [left EXCEPT ![p[1]] = @ - q, ![p[2]] = @ - q]
      BY <1>4 DEF Visited
    <2>2. DOMAIN left' = OrderIds /\ left' = [o \in OrderIds |-> left'[o]]
      BY <2>1, PairTypes
    <2>3. QED
      BY <1>3, <1>4, <2>2
  <1>5. ASSUME pairs' # {}, NEW o \in OrderIds
        PROVE  left'[o] <= Remaining(orders'[o])
    <2>1. left[o] <= Remaining(orders[o]) /\ left[o] \in Nat /\ q \in Nat
      BY PairTypes DEF IInv, RoundSound
    <2>2. orders[o].energy \in Nat /\ orders[o].matched \in Nat
      BY RowTypes DEF Order
    <2>3. orders'[o].energy = orders[o].energy
      BY DEF SameTerms
    <2>4. CASE o \in {p[1], p[2]}
      <3>1. left'[o] = left[o] - q
        BY <1>3, <1>5, <2>4
      <3>2. orders'[o].matched \in {orders[o].matched, orders[o].matched + q}
        BY <2>4
      <3>3. Remaining(orders'[o]) = orders[o].energy - orders'[o].matched
        BY <2>3 DEF Remaining
      <3>4. left[o] <= orders[o].energy - orders[o].matched
        BY <2>1 DEF Remaining
      <3> DEFINE l  == left[o]
                 e  == orders[o].energy
                 m  == orders[o].matched
                 m2 == orders'[o].matched
      <3>5. /\ l \in Nat /\ e \in Nat /\ m \in Nat /\ q \in Nat /\ m2 \in {m, m + q}
            /\ l <= e - m
        BY <2>1, <2>2, <3>2, <3>4
      <3>6. l - q <= e - m2
        <4> HIDE DEF l, e, m, m2, q
        <4>1. QED
          BY <3>5, LeftBelow
      <3>7. QED
        BY <3>1, <3>3, <3>6
    <2>5. CASE o \notin {p[1], p[2]}
      <3>1. left'[o] = left[o] /\ orders'[o].matched = orders[o].matched
        BY <1>3, <1>5, <2>5
      <3>2. QED
        BY <2>1, <2>2, <2>3, <3>1 DEF Remaining
    <2>6. QED
      BY <2>4, <2>5
  <1>6. ASSUME NEW x \in pairs'
        PROVE  /\ Matchable(orders'[x[1]], orders'[x[2]])
               /\ orders'[x[1]].status # "cancelled" /\ orders'[x[2]].status # "cancelled"
    <2>1. x \in pairs /\ x[1] \in OrderIds /\ x[2] \in OrderIds
      BY <1>2
    <2>2. SameTerms(orders'[x[1]], orders[x[1]]) /\ SameTerms(orders'[x[2]], orders[x[2]])
      BY <2>1
    <2>3. QED
      BY <2>1, <2>2, PairTypes DEF Matchable, SameTerms
  <1>7. QED
    BY <1>1, <1>2, <1>4, <1>5, <1>6 DEF RoundSound

\* Visiting the next proposed pair keeps the invariant.
LEMMA MatchNextInv ==
    ASSUME IInv, MatchNext
    PROVE  IInv' /\ EvidenceKept /\ EnergyMoves
  <1>1. PICK p \in pairs : /\ SkipPair(p) \/ CommitFill(p) \/ RejectFill(p)
                           /\ Visited(p)
                           /\ UNCHANGED <<sim, wall, seen, community, actions, books, due>>
    BY DEF MatchNext
  <1> DEFINE b == p[1]
             s == p[2]
             q == Least(left[b], left[s])
  <1>2. /\ orders \in Seq(Order) /\ SoundBook(orders) /\ DOMAIN orders = OrderIds
        /\ Len(orders) \in Nat
        /\ \A o \in OrderIds : orders[o] \in Order
    BY BookTypes, RowTypes
  <1>3. /\ b \in OrderIds /\ s \in OrderIds /\ b # s /\ q \in Nat
        /\ q <= Remaining(orders[b]) /\ q <= Remaining(orders[s])
        /\ Matchable(orders[b], orders[s])
    <2>1. orders[b] \in Order /\ orders[s] \in Order
      BY <1>2, PairTypes
    <2>2. Remaining(orders[b]) \in Int /\ Remaining(orders[s]) \in Int
      BY <2>1 DEF Remaining, Order
    <2>3. left[b] \in Nat /\ left[s] \in Nat
      BY PairTypes
    <2>4. QED
      BY <2>2, <2>3, PairTypes
  <1>4. trades \in Seq(Trade) /\ Len(trades) \in Nat /\ TradeIds = 1 .. Len(trades)
    BY RowTypes DEF TradeIds
  <1>5. CASE SkipPair(p)
    <2>1. orders' = orders /\ trades' = trades
      BY <1>5 DEF SkipPair
    <2>2. OrdersKept /\ TradesKept
      BY <2>1, SameOrders, SameTrades
    <2>3. /\ pairs' \subseteq OrderIds' \X OrderIds'
          /\ pairs' # {} => left' \in [OrderIds' -> Nat]
          /\ RoundSound'
      BY <1>1, <2>1, VisitedSound DEF SameTerms
    <2>4. RequestBuysOnce' /\ actions' \subseteq Action
      BY <1>1, <2>2, RequestsKept DEF IInv, TypeOK
    <2>5. EnergyMoves
      BY <1>1, <2>1, <2>2, NoTradeMoves DEF community, books
    <2>6. QED
      BY <1>1, <1>2, <2>1, <2>2, <2>3, <2>4, <2>5, MarketStepInv
  <1>6. CASE CommitFill(p)
    <2>1. PICK price \in Prices :
            /\ Suits(p, price)
            /\ trades' = Append(trades, NewTrade(orders, b, s, q, price, "committed"))
      BY <1>6 DEF CommitFill
    <2>2. orders' = AfterFill(orders, b, s, q)
      BY <1>6 DEF CommitFill
    <2>3. q \in Nat \ {0}
      BY <1>3, <1>6 DEF CommitFill, Proposed
    <2>4. /\ orders' \in Seq(Order) /\ Len(orders') = Len(orders) /\ DOMAIN orders' = OrderIds
          /\ SoundBook(orders')
          /\ \A o \in OrderIds :
               /\ SameTerms(orders'[o], orders[o])
               /\ orders'[o].matched >= orders[o].matched
               /\ orders'[o].status = "cancelled" => orders[o].matched = 0
          /\ \A o \in {b, s} :
               /\ orders'[o].matched = orders[o].matched + q
               /\ orders'[o].status # "cancelled"
          /\ \A o \in OrderIds \ {b, s} : orders'[o] = orders[o]
      <3> HIDE DEF q
      <3>1. QED
        BY <1>2, <1>3, <2>2, <2>3, FillSound
    <2>5. OrdersKept
      <3>1. Active(orders[b]) /\ Active(orders[s])
        BY <1>6, ProposedActive DEF CommitFill
      <3>2. \A o \in OrderIds : ~Active(orders[o]) => orders'[o] = orders[o]
        BY <2>4, <3>1
      <3>3. QED
        BY <1>2, <2>4, <3>2 DEF OrdersKept
    <2> DEFINE t == NewTrade(orders, b, s, q, price, "committed")
    <2>6. t \in Trade
      <3>1. orders[b].start \in Slots /\ price \in Nat
        BY <1>2, <1>3, <2>1, DataAssumption DEF Order
      <3>2. b \in Nat /\ s \in Nat
        BY <1>3 DEF OrderIds
      <3> HIDE DEF q
      <3>3. QED
        BY <2>3, <3>1, <3>2 DEF NewTrade, Trade, TradeStatus
    <2>7. /\ trades' \in Seq(Trade) /\ Len(trades') = Len(trades) + 1
          /\ \A i \in TradeIds : trades'[i] = trades[i]
          /\ trades'[Len(trades) + 1] = t
      <3> HIDE DEF t
      <3>1. trades' = Append(trades, t)
        BY <2>1 DEF t
      <3>2. QED
        BY <1>4, <2>6, <3>1, AppendTrade
    <2>8. TermsOf(t, orders')
      <3>1. SameTerms(orders'[b], orders[b]) /\ SameTerms(orders'[s], orders[s])
        BY <1>3, <2>4
      <3>2. \A o \in {b, s} : orders[o].matched \in Nat
        BY <1>2, <1>3 DEF Order
      <3>3. \A o \in {b, s} : q <= orders'[o].matched
        BY <1>3, <2>4, <3>2
      <3>4. t.buy = b /\ t.sell = s /\ t.start = orders[b].start /\ t.energy = q
            /\ t.price = price
        BY DEF NewTrade
      <3>5. WithinLimits(orders[b], orders[s], price)
        BY <2>1 DEF Suits
      <3> HIDE DEF t, q
      <3>6. QED
        BY <1>3, <2>4, <3>1, <3>3, <3>4, <3>5 DEF TermsOf, Matchable, WithinLimits, SameTerms
    <2>9. TradesKept
      <3>1. \A i \in (1 .. Len(trades')) \ TradeIds : i = Len(trades) + 1
        BY <1>4, <2>7
      <3>2. t.status = "committed"
        BY DEF NewTrade
      <3> HIDE DEF t
      <3>3. QED
        BY <1>4, <2>7, <2>8, <3>1, <3>2 DEF TradesKept
    <2>10. /\ pairs' \subseteq OrderIds' \X OrderIds'
           /\ pairs' # {} => left' \in [OrderIds' -> Nat]
           /\ RoundSound'
      <3>1. ASSUME NEW o \in OrderIds
            PROVE  /\ SameTerms(orders'[o], orders[o])
                   /\ orders'[o].matched \in
                        {orders[o].matched,
                         IF o \in {b, s} THEN orders[o].matched + q ELSE orders[o].matched}
                   /\ orders'[o].status = "cancelled" => orders[o].status = "cancelled"
        <4>1. CASE o \in {b, s}
          BY <2>4, <4>1
        <4>2. CASE o \notin {b, s}
          BY <2>4, <4>2
        <4>3. QED
          BY <4>1, <4>2
      <3>2. QED
        BY <1>1, <2>4, <3>1, VisitedSound
    <2>11. RequestBuysOnce' /\ actions' \subseteq Action
      BY <1>1, <2>5, <2>9, RequestsKept DEF IInv, TypeOK
    <2>12. EnergyMoves
      <3>1. t.buy = b /\ t.sell = s /\ t.energy = q /\ Stands(t)
        BY DEF NewTrade, Stands
      <3>2. Stands(trades'[Len(trades) + 1])
            /\ trades'[Len(trades) + 1].buy = b /\ trades'[Len(trades) + 1].sell = s
            /\ trades'[Len(trades) + 1].energy = q
        <4> HIDE DEF t, q
        <4>1. QED
          BY <2>7, <3>1
      <3> HIDE DEF q, b, s, t
      <3>3. ASSUME NEW o \in OrderIds
            PROVE  orders'[o].matched = Before(o) + Added(o)
        <4>1. orders[o].matched \in Nat /\ Before(o) = orders[o].matched
          BY <1>2 DEF Order, Before
        <4>2. Added(o) = IF o \in {b, s} THEN q ELSE 0
          BY <1>4, <2>7, <3>2 DEF Added
        <4>3. QED
          BY <2>4, <4>1, <4>2
      <3>4. 1 .. Len(orders') = OrderIds
        BY <2>4 DEF OrderIds
      <3>5. QED
        BY <1>1, <1>2, <1>4, <2>4, <2>5, <2>7, <2>9, <3>3, <3>4 DEF EnergyMoves, community, books
    <2>13. QED
      BY <1>1, <2>4, <2>5, <2>9, <2>10, <2>11, <2>12, MarketStepInv
  <1>7. CASE RejectFill(p)
    <2> DEFINE t == NewTrade(orders, b, s, q, 0, "rejected")
    <2>1. trades' = Append(trades, t) /\ orders' = AfterReject(orders, b, s)
      BY <1>7 DEF RejectFill
    <2>2. q \in Nat \ {0}
      BY <1>3, <1>7 DEF RejectFill, Proposed
    <2>3. /\ orders' \in Seq(Order) /\ Len(orders') = Len(orders) /\ DOMAIN orders' = OrderIds
          /\ SoundBook(orders')
          /\ \A o \in OrderIds :
               /\ SameTerms(orders'[o], orders[o])
               /\ orders'[o].matched = orders[o].matched
               /\ orders'[o].status \in {"rejected", orders[o].status}
      <3>1. Active(orders[b]) /\ Active(orders[s])
        BY <1>7, ProposedActive DEF RejectFill
      <3>2. QED
        BY <1>2, <2>1, <3>1, RejectSound
    <2>4. OrdersKept
      <3>1. \A o \in OrderIds : /\ orders[o].matched \in Nat
                                /\ orders[o].status = "cancelled" => orders[o].matched = 0
        BY <1>2 DEF Order, SoundBook
      <3>2. Active(orders[b]) /\ Active(orders[s])
        BY <1>7, ProposedActive DEF RejectFill
      <3>3. \A o \in OrderIds : ~Active(orders[o]) => orders'[o] = orders[o]
        BY <1>2, <2>1, <3>2 DEF AfterReject
      <3>4. QED
        BY <1>2, <2>3, <3>1, <3>3 DEF OrdersKept
    <2>5. t \in Trade
      <3>1. orders[b].start \in Slots
        BY <1>2, <1>3 DEF Order
      <3>2. b \in Nat /\ s \in Nat
        BY <1>3 DEF OrderIds
      <3> HIDE DEF q
      <3>3. QED
        BY <2>2, <3>1, <3>2 DEF NewTrade, Trade, TradeStatus
    <2>6. /\ trades' \in Seq(Trade) /\ Len(trades') = Len(trades) + 1
          /\ \A i \in TradeIds : trades'[i] = trades[i]
          /\ trades'[Len(trades) + 1] = t
      <3> HIDE DEF t
      <3>1. QED
        BY <1>4, <2>1, <2>5, AppendTrade
    <2>7. TradesKept
      <3>1. \A i \in (1 .. Len(trades')) \ TradeIds : i = Len(trades) + 1
        BY <1>4, <2>6
      <3>2. t.status = "rejected"
        BY DEF NewTrade
      <3> HIDE DEF t
      <3>3. QED
        BY <1>4, <2>6, <3>1, <3>2 DEF TradesKept, Stands
    <2>8. /\ pairs' \subseteq OrderIds' \X OrderIds'
          /\ pairs' # {} => left' \in [OrderIds' -> Nat]
          /\ RoundSound'
      BY <1>1, <2>3, VisitedSound
    <2>9. RequestBuysOnce' /\ actions' \subseteq Action
      BY <1>1, <2>4, <2>7, RequestsKept DEF IInv, TypeOK
    <2>10. EnergyMoves
      <3>1. ~Stands(trades'[Len(trades) + 1])
        <4>1. ~Stands(t)
          BY DEF NewTrade, Stands
        <4> HIDE DEF t
        <4>2. QED
          BY <2>6, <4>1
      <3>2. \A o : Added(o) = 0
        BY <3>1 DEF Added
      <3>3. \A o \in OrderIds : orders'[o].matched = Before(o) + 0
        BY <1>2, <2>3 DEF Order, Before
      <3>4. 1 .. Len(orders') = OrderIds
        BY <2>3 DEF OrderIds
      <3>5. QED
        BY <1>1, <1>2, <1>4, <2>3, <2>4, <2>6, <2>7, <3>2, <3>3, <3>4
           DEF EnergyMoves, community, books
    <2>11. QED
      BY <1>1, <2>3, <2>4, <2>7, <2>8, <2>9, <2>10, MarketStepInv
  <1>8. QED
    BY <1>1, <1>5, <1>6, <1>7

\* Accepting an offer, new or repeated, keeps the invariant.
LEMMA AcceptOfferInv ==
    ASSUME IInv,
           NEW u \in members, NEW r \in Requests, NEW offer \in OrderIds,
           NEW q \in Quantities, NEW p \in Prices, NEW own \in 0 .. Len(orders),
           AcceptOffer(u, r, offer, q, p, own)
    PROVE  IInv' /\ EvidenceKept /\ EnergyMoves
  <1> DEFINE side == Opposite(orders[offer].side)
             new  == NewOrder(u, orders[offer].start, side, q, p)
             os   == IF own = 0 THEN Append(orders, new) ELSE orders
             mine == IF own = 0 THEN Len(os) ELSE own
             b    == IF side = "buy" THEN mine ELSE offer
             s    == IF side = "buy" THEN offer ELSE mine
             act  == [user |-> u, request |-> r, offer |-> offer, energy |-> q,
                      limit |-> p, own |-> own, trade |-> Len(trades) + 1]
  <1>1. /\ Idle /\ FirstUse(u, r) /\ OfferFits(u, offer, q)
        /\ own # 0 => OwnOrderFits(u, own, offer, q)
        /\ Matchable(os[b], os[s])
        /\ orders' = AfterFill(os, b, s, q)
        /\ actions' = actions \cup {act}
        /\ UNCHANGED <<sim, wall, seen, community, books, matching, due>>
    BY DEF AcceptOffer
  <1>2. PICK price \in Prices :
          /\ WithinLimits(os[b], os[s], price)
          /\ trades' = Append(trades, NewTrade(os, b, s, q, price, "committed"))
    BY DEF AcceptOffer
  <1>3. /\ orders \in Seq(Order) /\ SoundBook(orders) /\ DOMAIN orders = OrderIds
        /\ OrderIds = 1 .. Len(orders) /\ Len(orders) \in Nat
        /\ \A o \in OrderIds : orders[o] \in Order
    BY BookTypes, RowTypes DEF OrderIds
  <1>4. /\ trades \in Seq(Trade) /\ Len(trades) \in Nat /\ TradeIds = 1 .. Len(trades)
        /\ u \in Sites /\ q \in Nat \ {0} /\ p \in Nat \ {0} /\ price \in Nat
    BY RowTypes, DataAssumption DEF TradeIds, IInv, TypeOK
  <1>5. orders[offer].start \in Slots /\ side \in {"buy", "sell"}
    BY <1>3 DEF Order, Opposite
  <1>6. /\ os \in Seq(Order) /\ SoundBook(os)
        /\ Len(orders) <= Len(os)
        /\ OrderIds \subseteq DOMAIN os
        /\ \A o \in OrderIds : os[o] = orders[o]
        /\ mine \in DOMAIN os
        /\ q <= Remaining(os[mine])
        /\ os[mine].site = u
    <2>1. CASE own = 0
      <3>1. /\ os \in Seq(Order) /\ Len(os) = Len(orders) + 1
            /\ DOMAIN os = 1 .. Len(orders) + 1
            /\ SoundBook(os)
            /\ \A o \in OrderIds : os[o] = orders[o]
            /\ os[Len(orders) + 1] = new
        BY <1>3, <1>4, <1>5, <2>1, AppendOrder
      <3>2. new.site = u /\ Remaining(new) = q - 0
        BY DEF NewOrder, Remaining
      <3>3. mine = Len(orders) + 1
        BY <2>1, <3>1
      <3> HIDE DEF os, new, mine
      <3>4. QED
        BY <1>3, <1>4, <3>1, <3>2, <3>3
    <2>2. CASE own # 0
      <3>1. os = orders /\ mine = own
        BY <2>2
      <3>2. own \in OrderIds /\ orders[own].site = u /\ q <= Remaining(orders[own])
        BY <1>1, <2>2 DEF OwnOrderFits
      <3> HIDE DEF os, mine
      <3>3. QED
        BY <1>3, <3>1, <3>2
    <2>3. QED
      BY <2>1, <2>2
  <1>7. /\ offer \in OrderIds /\ q <= Remaining(os[offer])
    <2>1. q <= Remaining(orders[offer])
      BY <1>1 DEF OfferFits
    <2> HIDE DEF os
    <2>2. QED
      BY <1>6, <2>1
  <1>8. b \in DOMAIN os /\ s \in DOMAIN os
        /\ q <= Remaining(os[b]) /\ q <= Remaining(os[s])
        /\ {b, s} = {offer, mine}
    <2> HIDE DEF os, mine, side
    <2>1. QED
      BY <1>6, <1>7
  <1>9. /\ orders' \in Seq(Order) /\ Len(orders') = Len(os) /\ DOMAIN orders' = DOMAIN os
        /\ SoundBook(orders')
        /\ \A o \in DOMAIN os :
             /\ SameTerms(orders'[o], os[o])
             /\ orders'[o].matched >= os[o].matched
             /\ orders'[o].status = "cancelled" => os[o].matched = 0
        /\ \A o \in {b, s} :
             /\ orders'[o].matched = os[o].matched + q
             /\ orders'[o].status # "cancelled"
        /\ \A o \in DOMAIN os \ {b, s} : orders'[o] = os[o]
    <2>1. orders' = AfterFill(os, b, s, q)
      BY <1>1
    <2> HIDE DEF os, b, s
    <2>2. QED
      BY <1>4, <1>6, <1>8, <2>1, FillSound
  <1>10. OrdersKept
    <2>1. Active(orders[offer]) /\ (own # 0 => Active(orders[own]))
      BY <1>1 DEF OfferFits, OpenBook, OwnOrderFits
    <2>2. own = 0 => mine \notin OrderIds
      <3>1. ASSUME own = 0
            PROVE  mine = Len(orders) + 1
        BY <1>3, <1>4, <1>5, <3>1, AppendOrder
      <3> HIDE DEF mine
      <3>2. QED
        BY <1>3, <3>1
    <2>3. own # 0 => mine = own
      OBVIOUS
    <2> HIDE DEF os, mine, b, s
    <2>4. \A o \in OrderIds : ~Active(orders[o]) => orders'[o] = orders[o]
      BY <1>6, <1>8, <1>9, <2>1, <2>2, <2>3
    <2>5. QED
      BY <1>6, <1>9, <2>4 DEF OrdersKept
  <1> DEFINE t == NewTrade(os, b, s, q, price, "committed")
  <1>11. /\ t.buy = b /\ t.sell = s /\ t.start = os[b].start /\ t.energy = q
         /\ t.price = price /\ t.status = "committed"
         /\ b \in Nat /\ s \in Nat /\ os[b] \in Order /\ os[s] \in Order
    <2>1. DOMAIN os = 1 .. Len(os) /\ os[b] \in Order /\ os[s] \in Order
      <3> HIDE DEF os, b, s
      <3>1. QED
        BY <1>6, <1>8, SeqDomain
    <2>2. b \in Nat /\ s \in Nat
      <3> HIDE DEF os, b, s
      <3>1. QED
        BY <1>8, <2>1
    <2> HIDE DEF os, b, s
    <2>3. QED
      BY <2>1, <2>2 DEF NewTrade
  <1>12. t \in Trade
    <2>1. t = [buy |-> b, sell |-> s, start |-> os[b].start, energy |-> q,
               price |-> price, status |-> "committed"]
      BY DEF NewTrade
    <2>2. os[b].start \in Slots
      <3> HIDE DEF os, b
      <3>1. QED
        BY <1>11 DEF Order
    <2> HIDE DEF os, b, s, t
    <2>3. QED
      BY <1>4, <1>11, <2>1, <2>2 DEF Trade, TradeStatus
  <1>13. /\ trades' \in Seq(Trade) /\ Len(trades') = Len(trades) + 1
         /\ \A i \in TradeIds : trades'[i] = trades[i]
         /\ trades'[Len(trades) + 1] = t
    <2>1. trades' = Append(trades, t)
      BY <1>2
    <2> HIDE DEF t
    <2>2. QED
      BY <1>4, <1>12, <2>1, AppendTrade
  <1>14. TermsOf(t, orders')
    <2> HIDE DEF os, b, s, t
    <2>1. SameTerms(orders'[b], os[b]) /\ SameTerms(orders'[s], os[s])
      BY <1>8, <1>9
    <2>2. \A o \in {b, s} : q <= orders'[o].matched
      <3>1. os[b].matched \in Nat /\ os[s].matched \in Nat
        BY <1>11 DEF Order
      <3>2. QED
        BY <1>4, <1>9, <3>1
    <2>3. Matchable(os[b], os[s]) /\ WithinLimits(os[b], os[s], price)
      BY <1>1, <1>2 DEF os, b, s
    <2>4. QED
      BY <1>8, <1>9, <1>11, <2>1, <2>2, <2>3 DEF TermsOf, Matchable, WithinLimits, SameTerms
  <1>15. TradesKept
    <2> HIDE DEF t
    <2>1. \A i \in (1 .. Len(trades')) \ TradeIds : i = Len(trades) + 1
      BY <1>4, <1>13
    <2>2. QED
      BY <1>4, <1>11, <1>13, <1>14, <2>1 DEF TradesKept
  <1>16. actions' \subseteq Action
    <2>1. act \in Action
      BY <1>3, <1>4, <1>7 DEF Action
    <2> HIDE DEF act
    <2>2. QED
      BY <1>1, <2>1 DEF IInv, TypeOK
  <1>17. RequestBuysOnce'
    <2> DEFINE Sound(a) == /\ a.trade \in TradeIds'
                           /\ Stands(trades'[a.trade])
                           /\ trades'[a.trade].energy = a.energy
                           /\ a.offer \in {trades'[a.trade].buy, trades'[a.trade].sell}
                           /\ a.user \in {orders'[trades'[a.trade].buy].site,
                                          orders'[trades'[a.trade].sell].site}
    <2>1. TradeIds' = 1 .. Len(trades) + 1
      BY <1>13 DEF TradeIds
    <2>2. ASSUME NEW a \in actions
          PROVE  Sound(a) /\ a.trade \in TradeIds
      <3>1. /\ a.trade \in TradeIds /\ Stands(trades[a.trade])
            /\ trades[a.trade].energy = a.energy
            /\ a.offer \in {trades[a.trade].buy, trades[a.trade].sell}
            /\ a.user \in {orders[trades[a.trade].buy].site, orders[trades[a.trade].sell].site}
        BY DEF IInv, RequestBuysOnce
      <3>2. trades[a.trade].buy \in OrderIds /\ trades[a.trade].sell \in OrderIds
        BY <3>1 DEF IInv, TradeTerms
      <3>3. /\ orders'[trades[a.trade].buy].site = orders[trades[a.trade].buy].site
            /\ orders'[trades[a.trade].sell].site = orders[trades[a.trade].sell].site
        BY <1>10, <3>2 DEF OrdersKept, SameTerms
      <3>4. trades'[a.trade] = trades[a.trade]
        BY <1>13, <3>1
      <3>5. QED
        BY <1>4, <2>1, <3>1, <3>3, <3>4
    <2>3. Sound(act)
      <3>1. orders'[mine].site = u
        <4> HIDE DEF os, mine
        <4>1. QED
          BY <1>6, <1>9 DEF SameTerms
      <3>2. mine \in {b, s} /\ offer \in {b, s}
        BY <1>8
      <3> HIDE DEF t, os, mine, b, s
      <3>3. QED
        BY <1>4, <1>11, <1>13, <2>1, <3>1, <3>2 DEF Stands
    <2>4. ASSUME NEW a \in actions
          PROVE  ~(a.user = u /\ a.request = r) /\ a.trade # Len(trades) + 1
      <3>1. ~(a.user = u /\ a.request = r)
        BY <1>1 DEF FirstUse
      <3>2. a.trade \in 1 .. Len(trades)
        <4> HIDE DEF Sound
        <4>1. QED
          BY <1>4, <2>2
      <3>3. QED
        BY <1>4, <3>1, <3>2
    <2>5. act.user = u /\ act.request = r /\ act.trade = Len(trades) + 1
      OBVIOUS
    <2>6. ASSUME NEW a \in actions', NEW c \in actions',
                 (a.user = c.user /\ a.request = c.request) \/ a.trade = c.trade
          PROVE  a = c
      <3> HIDE DEF act
      <3>1. CASE a \in actions /\ c \in actions
        BY <2>6, <3>1 DEF IInv, RequestBuysOnce
      <3>2. CASE a = act \/ c = act
        BY <1>1, <2>4, <2>5, <2>6, <3>2
      <3>3. QED
        BY <1>1, <3>1, <3>2
    <2>7. \A a \in actions' : Sound(a)
      <3> HIDE DEF act, Sound
      <3>1. QED
        BY <1>1, <2>2, <2>3
    <2>8. QED
      BY <2>6, <2>7 DEF RequestBuysOnce, TradeIds, Stands
  <1>18. pairs' = {} /\ RoundSound'
    BY <1>1 DEF Idle, matching, RoundSound
  <1>19. EnergyMoves
    <2>1. ASSUME own = 0
          PROVE  /\ Len(os) = Len(orders) + 1 /\ os[Len(orders) + 1] = new
                 /\ Len(os) \in Nat /\ DOMAIN os = 1 .. Len(orders) + 1
                 /\ side = "sell" => q <= Available(u, orders[offer].start)
                                             - Reserved(u, orders[offer].start)
      <3>1. MayPlace(u, orders[offer].start, side, q)
        BY <2>1 DEF AcceptOffer
      <3>2. Len(os) = Len(orders) + 1 /\ os[Len(orders) + 1] = new
            /\ DOMAIN os = 1 .. Len(orders) + 1
        BY <1>3, <1>4, <1>5, <2>1, AppendOrder
      <3> HIDE DEF os, new
      <3>3. QED
        BY <1>3, <3>1, <3>2 DEF MayPlace
    <2>2. ASSUME own # 0
          PROVE  Len(os) = Len(orders) /\ DOMAIN os = OrderIds
      BY <1>3, <2>2
    <2>3. /\ new.matched = 0 /\ new.side = side /\ new.energy = q /\ new.site = u
          /\ new.start = orders[offer].start
      BY DEF NewOrder
    <2>4. Stands(t)
      BY DEF NewTrade, Stands
    <2> HIDE DEF os, new, b, s, t, side
    <2>5. \A o : Added(o) = IF o \in {b, s} THEN q ELSE 0
      BY <1>4, <1>11, <1>13, <2>4 DEF Added
    <2>6. ASSUME NEW o \in DOMAIN os
          PROVE  /\ os[o].matched = Before(o) /\ os[o].matched \in Nat
                 /\ orders'[o].matched = Before(o) + Added(o)
      <3>1. os[o].matched = Before(o) /\ os[o].matched \in Nat
        <4>1. CASE o \in OrderIds
          BY <1>3, <1>6, <4>1 DEF Before, Order
        <4>2. CASE o \notin OrderIds
          <5>1. own = 0 /\ o = Len(orders) + 1
            BY <1>3, <2>1, <2>2, <4>2
          <5>2. QED
            BY <2>1, <2>3, <4>2, <5>1 DEF Before
        <4>3. QED
          BY <4>1, <4>2
      <3>2. orders'[o].matched = os[o].matched + Added(o)
        <4>1. CASE o \in {b, s}
          BY <1>9, <2>5, <4>1
        <4>2. CASE o \notin {b, s}
          BY <1>9, <2>5, <3>1, <4>2
        <4>3. QED
          BY <4>1, <4>2
      <3>3. QED
        BY <3>1, <3>2
    <2>7. ASSUME NEW o \in DOMAIN os, o \notin OrderIds, orders'[o].side = "sell"
          PROVE  orders'[o].energy <= Available(orders'[o].site, orders'[o].start)
                                        - Reserved(orders'[o].site, orders'[o].start)
      <3>1. own = 0 /\ o = Len(orders) + 1
        BY <1>3, <2>1, <2>2, <2>7
      <3>2. SameTerms(orders'[o], new)
        BY <1>9, <2>1, <3>1
      <3>3. QED
        BY <2>1, <2>3, <2>7, <3>1, <3>2 DEF SameTerms
    <2>8. DOMAIN os = 1 .. Len(orders') /\ Len(orders') <= Len(orders) + 1
      <3>1. DOMAIN orders' = 1 .. Len(orders') /\ DOMAIN orders' = DOMAIN os
        BY <1>9, SeqDomain
      <3>2. Len(os) <= Len(orders) + 1
        <4>1. Len(os) = Len(orders) + 1 \/ Len(os) = Len(orders)
          BY <2>1, <2>2
        <4>2. QED
          BY <1>3, <4>1
      <3>3. Len(orders') = Len(os)
        BY <1>9
      <3>4. QED
        BY <3>1, <3>2, <3>3
    <2>9. UNCHANGED <<readings, settlements>> /\ Len(trades') <= Len(trades) + 1
      BY <1>1, <1>4, <1>13 DEF community, books
    <2>10. QED
      BY <1>10, <1>15, <2>6, <2>7, <2>8, <2>9 DEF EnergyMoves
  <1>20. QED
    BY <1>1, <1>9, <1>10, <1>15, <1>16, <1>17, <1>18, <1>19, MarketStepInv

-----------------------------------------------------------------------------
(***************************************************************************)
(* Settlement of one trade.                                                *)
(***************************************************************************)
LEMMA ReconcileNextInv ==
    ASSUME IInv, ReconcileNext
    PROVE  IInv' /\ EvidenceKept
  <1>1. PICK i \in due : \E kwh \in 0 .. trades[i].energy :
          /\ due' = due \ {i}
          /\ settlements' = Append(settlements,
                [trade |-> i, buyer |-> orders[trades[i].buy].site,
                 seller |-> orders[trades[i].sell].site, slot |-> trades[i].start,
                 kwh |-> kwh, gross |-> Rounded(kwh * trades[i].price)])
          /\ journal' = journal \o Postings(Len(settlements) + 1, trades[i],
                                            Rounded(kwh * trades[i].price))
          /\ trades' = [trades EXCEPT ![i].status = "settled"]
          /\ receipts' = receipts \cup {i}
          /\ UNCHANGED <<sim, wall, seen, community, orders, actions, matching>>
    BY DEF ReconcileNext
  <1> DEFINE t == trades[i]
             n == Len(settlements) + 1
  <1>2. PICK kwh \in 0 .. t.energy :
          /\ due' = due \ {i}
          /\ settlements' = Append(settlements,
                [trade |-> i, buyer |-> orders[t.buy].site,
                 seller |-> orders[t.sell].site, slot |-> t.start,
                 kwh |-> kwh, gross |-> Rounded(kwh * t.price)])
          /\ journal' = journal \o Postings(n, t, Rounded(kwh * t.price))
          /\ trades' = [trades EXCEPT ![i].status = "settled"]
          /\ receipts' = receipts \cup {i}
          /\ UNCHANGED <<sim, wall, seen, community, orders, actions, matching>>
    BY <1>1
  <1> DEFINE gross == Rounded(kwh * t.price)
             row == [trade |-> i, buyer |-> orders[t.buy].site,
                     seller |-> orders[t.sell].site, slot |-> t.start,
                     kwh |-> kwh, gross |-> gross]
             posted == Postings(n, t, gross)
  <1>3. /\ i \in TradeIds /\ t.status = "committed" /\ t \in Trade /\ Stands(t)
        /\ TradeIds = 1 .. Len(trades) /\ Len(trades) \in Nat /\ trades \in Seq(Trade)
        /\ DOMAIN trades = TradeIds
    <2>1. i \in TradeIds /\ t.status = "committed"
      BY DEF IInv, TypeOK, DueSound
    <2>2. QED
      BY <2>1, RowTypes, SeqDomain DEF TradeIds, Stands
  <1>4. /\ orders[t.buy].site \in Sites /\ orders[t.sell].site \in Sites
    <2>1. t.buy \in OrderIds /\ t.sell \in OrderIds
      BY <1>3 DEF IInv, TradeTerms
    <2>2. QED
      BY <2>1, RowTypes DEF Order
  <1>5. kwh \in Nat /\ gross \in Nat /\ i \in Nat /\ t.start \in Slots
    <2>1. t.energy \in Nat /\ t.price \in Nat /\ t.start \in Slots
      BY <1>3 DEF Trade
    <2>2. kwh \in Nat
      BY <2>1
    <2>3. kwh * t.price \in Nat
      <3> HIDE DEF t
      <3>1. QED
        BY <2>1, <2>2, ProductType
    <2>4. QED
      BY <1>3, <2>1, <2>2, <2>3, RoundedType
  <1>6. row \in Settlement
    BY <1>4, <1>5 DEF Settlement
  <1>7. settlements \in Seq(Settlement) /\ journal \in Seq(Posting)
        /\ Len(settlements) \in Nat /\ Len(journal) \in Nat
        /\ DOMAIN settlements = 1 .. Len(settlements)
        /\ n \in Nat
    BY SeqDomain DEF IInv, TypeOK
  <1>8. /\ settlements' \in Seq(Settlement) /\ Len(settlements') = Len(settlements) + 1
        /\ DOMAIN settlements' = 1 .. Len(settlements) + 1
        /\ \A m \in DOMAIN settlements : settlements'[m] = settlements[m]
        /\ settlements'[n] = row
    <2>1. settlements' = Append(settlements, row)
      BY <1>2
    <2> HIDE DEF row
    <2>2. QED
      BY <1>6, <1>7, <2>1, AppendProperties
  <1>9. /\ posted \in Seq(Posting) /\ Len(posted) = 2
        /\ posted[1] = [settlement |-> n, account |-> orders[t.buy].site, amount |-> -gross]
        /\ posted[2] = [settlement |-> n, account |-> orders[t.sell].site, amount |-> gross]
    <2>1. -gross \in Int /\ gross \in Int
      <3> HIDE DEF gross
      <3>1. QED
        BY <1>5
    <2>2. /\ [settlement |-> n, account |-> orders[t.buy].site, amount |-> -gross] \in Posting
          /\ [settlement |-> n, account |-> orders[t.sell].site, amount |-> gross] \in Posting
      <3> HIDE DEF gross, t, n
      <3>1. QED
        BY <1>4, <1>7, <2>1 DEF Posting
    <2>3. QED
      BY <2>2 DEF Postings
  <1>10. /\ journal' \in Seq(Posting) /\ Len(journal') = Len(journal) + 2
         /\ DOMAIN journal = 1 .. Len(journal)
         /\ \A k \in 1 .. Len(journal) : journal'[k] = journal[k]
         /\ journal'[Len(journal) + 1] = posted[1]
         /\ journal'[Len(journal) + 2] = posted[2]
    <2>1. journal' = journal \o posted
      BY <1>2
    <2> HIDE DEF posted
    <2>2. /\ journal' \in Seq(Posting) /\ Len(journal') = Len(journal) + Len(posted)
          /\ \A k \in 1 .. Len(journal) + Len(posted) :
               journal'[k] = IF k <= Len(journal) THEN journal[k] ELSE posted[k - Len(journal)]
      BY <1>7, <1>9, <2>1, ConcatProperties
    <2>3. /\ DOMAIN journal = 1 .. Len(journal)
          /\ Len(journal) + 1 \in 1 .. Len(journal) + Len(posted)
          /\ Len(journal) + 2 \in 1 .. Len(journal) + Len(posted)
      BY <1>7, <1>9, SeqDomain
    <2>4. journal'[Len(journal) + 1] = posted[1] /\ journal'[Len(journal) + 2] = posted[2]
      <3> DEFINE len == Len(journal)
      <3>1. len \in Nat
        BY <1>7
      <3>2. journal'[len + 1] = posted[len + 1 - len] /\ journal'[len + 2] = posted[len + 2 - len]
        <4>1. ~(len + 1 <= len) /\ ~(len + 2 <= len)
          BY <3>1
        <4>2. QED
          BY <2>2, <2>3, <4>1
      <3>3. len + 1 - len = 1 /\ len + 2 - len = 2
        BY <3>1
      <3>4. QED
        BY <3>2, <3>3
    <2>5. \A k \in 1 .. Len(journal) : journal'[k] = journal[k]
      BY <1>7, <1>9, <2>2
    <2>6. QED
      BY <1>9, <2>2, <2>3, <2>4, <2>5
  <1>11. /\ trades' \in Seq(Trade) /\ Len(trades') = Len(trades) /\ DOMAIN trades' = TradeIds
         /\ \A j \in TradeIds \ {i} : trades'[j] = trades[j]
         /\ trades'[i] = [t EXCEPT !.status = "settled"]
    <2>1. trades' = [trades EXCEPT ![i] = [t EXCEPT !.status = "settled"]]
      BY <1>2
    <2>2. [t EXCEPT !.status = "settled"] \in Trade
      BY <1>3 DEF Trade, TradeStatus
    <2>3. QED
      BY <1>3, <2>1, <2>2, ExceptSeq
  <1>12. /\ TradeIds' = TradeIds /\ OrderIds' = OrderIds
         /\ orders' = orders /\ actions' = actions
         /\ pairs' = pairs /\ left' = left
         /\ UNCHANGED <<sim, wall, seen, community>>
    BY <1>2, <1>11 DEF TradeIds, OrderIds, matching
  <1>13. ASSUME NEW j \in TradeIds
         PROVE  /\ trades'[j].buy = trades[j].buy /\ trades'[j].sell = trades[j].sell
                /\ trades'[j].start = trades[j].start /\ trades'[j].energy = trades[j].energy
                /\ trades'[j].price = trades[j].price
                /\ Stands(trades'[j]) <=> Stands(trades[j])
                /\ trades'[j].status = "settled" <=> (j = i \/ trades[j].status = "settled")
    <2>1. CASE j = i
      BY <1>3, <1>11, <2>1 DEF Trade, Stands
    <2>2. CASE j # i
      BY <1>11, <2>2
    <2>3. QED
      BY <2>1, <2>2
  <1>14. TypeOK'
    <2>1. receipts' \subseteq TradeIds' /\ due' \subseteq TradeIds'
      BY <1>2, <1>3, <1>12 DEF IInv, TypeOK
    <2>2. QED
      BY <1>8, <1>10, <1>11, <1>12, <2>1 DEF IInv, TypeOK, sim, community
  <1>15. BookSound' /\ RoundSound'
    BY <1>12 DEF IInv, BookSound, RoundSound, Remaining, Matchable
  <1>16. DueSound'
    <2>1. ASSUME NEW j \in due'
          PROVE  trades'[j].status = "committed" /\ Measured(j, readings)'
      <3>1. j \in due /\ j \in TradeIds /\ trades'[j] = trades[j]
        BY <1>2, <1>11 DEF IInv, TypeOK
      <3>2. QED
        BY <1>12, <3>1 DEF IInv, DueSound, Measured, MeterOf, community
    <2>2. QED
      BY <2>1 DEF DueSound
  <1>17. SettlementSound'
    <2>1. row.trade = i
      OBVIOUS
    <2> HIDE DEF row
    <2>2. QED
      BY <1>3, <1>7, <1>8, <1>12, <2>1 DEF IInv, SettlementSound
  <1>18. TradeTerms'
    BY <1>12, <1>13 DEF IInv, TradeTerms, Matchable, WithinLimits
  <1>19. SettledOnce'
    <2>1. row.trade = i
      OBVIOUS
    <2> HIDE DEF row
    <2>2. \A m \in DOMAIN settlements : settlements[m].trade # i
      BY <1>3 DEF IInv, SettledOnce
    <2>3. ASSUME NEW j \in TradeIds
          PROVE  trades'[j].status = "settled"
                   <=> \E m \in DOMAIN settlements' : settlements'[m].trade = j
      <3>1. CASE j = i
        BY <1>7, <1>8, <1>13, <2>1, <3>1
      <3>2. CASE j # i
        <4>1. trades[j].status = "settled" <=> trades'[j].status = "settled"
          BY <1>13, <3>2
        <4>2. trades[j].status = "settled"
                <=> \E m \in DOMAIN settlements : settlements[m].trade = j
          BY DEF IInv, SettledOnce
        <4>3. (\E m \in DOMAIN settlements : settlements[m].trade = j)
                <=> (\E m \in DOMAIN settlements' : settlements'[m].trade = j)
          BY <1>7, <1>8, <2>1, <3>2
        <4>4. QED
          BY <4>1, <4>2, <4>3
      <3>3. QED
        BY <3>1, <3>2
    <2>4. ASSUME NEW m \in DOMAIN settlements', NEW k \in DOMAIN settlements',
                 settlements'[m].trade = settlements'[k].trade
          PROVE  m = k
      <3>1. CASE m \in DOMAIN settlements /\ k \in DOMAIN settlements
        BY <1>8, <2>4, <3>1 DEF IInv, SettledOnce
      <3>2. CASE m = n \/ k = n
        BY <1>7, <1>8, <2>1, <2>2, <2>4, <3>2
      <3>3. QED
        BY <1>7, <1>8, <3>1, <3>2
    <2>5. receipts' = {j \in TradeIds : trades'[j].status = "settled"}
      <3>1. receipts = {j \in TradeIds : trades[j].status = "settled"}
        BY DEF IInv, SettledOnce
      <3>2. QED
        BY <1>2, <1>3, <1>13, <3>1
    <2>6. QED
      BY <1>12, <2>3, <2>4, <2>5 DEF SettledOnce
  <1>20. JournalBalances'
    <2>1. Len(journal) = 2 * Len(settlements)
      BY DEF IInv, JournalBalances
    <2>2. Len(journal') = 2 * Len(settlements')
      BY <1>7, <1>8, <1>10, <2>1
    <2> DEFINE Balanced(m) ==
                 LET debit  == journal'[2 * m - 1]
                     credit == journal'[2 * m]
                 IN  /\ debit.settlement = m /\ credit.settlement = m
                     /\ debit.account = settlements'[m].buyer
                     /\ credit.account = settlements'[m].seller
                     /\ debit.amount + credit.amount = 0
                     /\ credit.amount = settlements'[m].gross
    <2>3. ASSUME NEW m \in DOMAIN settlements
          PROVE  Balanced(m)
      <3>1. 2 * m - 1 \in 1 .. Len(journal) /\ 2 * m \in 1 .. Len(journal)
        BY <1>7, <2>1
      <3>2. journal'[2 * m - 1] = journal[2 * m - 1] /\ journal'[2 * m] = journal[2 * m]
        BY <1>10, <3>1
      <3>3. settlements'[m] = settlements[m]
        BY <1>8
      <3>4. QED
        BY <3>2, <3>3 DEF IInv, JournalBalances
    <2>4. Balanced(n)
      <3>1. 2 * n - 1 = Len(journal) + 1 /\ 2 * n = Len(journal) + 2
        BY <1>7, <2>1
      <3>2. journal'[2 * n - 1] = posted[1] /\ journal'[2 * n] = posted[2]
        <4> HIDE DEF n, posted
        <4>1. QED
          BY <1>10, <3>1
      <3>3. /\ settlements'[n].buyer = orders[t.buy].site
            /\ settlements'[n].seller = orders[t.sell].site
            /\ settlements'[n].gross = gross
        BY <1>8
      <3>4. -gross + gross = 0
        <4> HIDE DEF gross
        <4>1. QED
          BY <1>5
      <3> HIDE DEF n, gross, t, posted
      <3>5. QED
        BY <1>9, <3>2, <3>3, <3>4
    <2>5. \A m \in DOMAIN settlements' : Balanced(m)
      <3> HIDE DEF Balanced
      <3>1. QED
        BY <1>7, <1>8, <2>3, <2>4
    <2>6. QED
      BY <2>2, <2>5 DEF JournalBalances
  <1>21. RequestBuysOnce'
    BY <1>12, <1>13 DEF IInv, RequestBuysOnce
  <1>22. EvidenceKept
    <2>1. ASSUME NEW j \in TradeIds
          PROVE  /\ j \in DOMAIN trades'
                 /\ [trades'[j] EXCEPT !.status = trades[j].status] = trades[j]
                 /\ trades'[j].status # trades[j].status =>
                        trades[j].status = "committed" /\ trades'[j].status = "settled"
      <3>1. CASE j = i
        BY <1>3, <1>11, <3>1 DEF Trade
      <3>2. CASE j # i
        BY <1>11, <3>2, RowTypes, SameTrade
      <3>3. QED
        BY <3>1, <3>2
    <2>2. ASSUME NEW o \in OrderIds
          PROVE  /\ o \in DOMAIN orders'
                 /\ orders'[o].matched >= orders[o].matched
                 /\ ~Active(orders[o]) => orders'[o] = orders[o]
      <3>1. orders[o].matched \in Nat /\ OrderIds = DOMAIN orders
        BY RowTypes, SeqDomain DEF Order, OrderIds
      <3>2. QED
        BY <1>12, <3>1
    <2>3. \A m \in DOMAIN settlements :
            m \in DOMAIN settlements' /\ settlements'[m] = settlements[m]
      BY <1>7, <1>8
    <2>4. \A k \in DOMAIN journal : k \in DOMAIN journal' /\ journal'[k] = journal[k]
      <3>1. DOMAIN journal' = 1 .. Len(journal) + 2
        BY <1>10, SeqDomain
      <3>2. QED
        BY <1>7, <1>10, <3>1
    <2>5. readings' = readings
      BY <1>12 DEF community
    <2>6. QED
      BY <2>1, <2>2, <2>3, <2>4, <2>5 DEF EvidenceKept
  <1>23. QED
    BY <1>22, <1>14, <1>15, <1>16, <1>17, <1>18, <1>19, <1>20, <1>21 DEF IInv

-----------------------------------------------------------------------------
(***************************************************************************)
(* The inductive invariant.                                                *)
(***************************************************************************)
LEMMA InitInv ==
    ASSUME Init
    PROVE  IInv
  <1>1. /\ clock \in 0 .. Horizon /\ wall \in 0 .. Horizon
        /\ clock \in Nat /\ clock <= Horizon
    BY TimeAssumption DEF Init
  <1>2. Founders \subseteq Sites /\ "normal" \in Scenarios
    BY SitesAssumption, DataAssumption
  <1>3. readings \in [DOMAIN readings -> Reading] /\ DOMAIN readings \subseteq Sites \X Slots
    <2>1. readings = [k \in Founders \X (0 .. clock - 1) |-> Profile["normal"][k]]
      BY DEF Init
    <2>2. Founders \X (0 .. clock - 1) \subseteq Sites \X Slots
      BY <1>1, <1>2, TimeAssumption DEF Slots
    <2>3. Profile["normal"] \in [Sites \X Slots -> Reading]
      BY DataAssumption
    <2>4. QED
      BY <2>1, <2>2, <2>3
  <1>4. /\ orders = <<>> /\ trades = <<>> /\ actions = {} /\ settlements = <<>>
        /\ journal = <<>> /\ receipts = {} /\ pairs = {} /\ due = {}
    BY DEF Init
  <1>5. orders \in Seq(Order) /\ trades \in Seq(Trade) /\ settlements \in Seq(Settlement)
        /\ journal \in Seq(Posting) /\ OrderIds = {} /\ TradeIds = {}
        /\ DOMAIN settlements = {} /\ Len(journal) = 0 /\ Len(settlements) = 0
    BY <1>4, EmptySeq DEF OrderIds, TradeIds
  <1>6. TypeOK
    <2>1. /\ scenario \in Scenarios /\ running \in BOOLEAN /\ liveMode \in BOOLEAN
          /\ members \subseteq Sites
          /\ seen \subseteq [clock : 0 .. Horizon, scenario : Scenarios, live : BOOLEAN]
      BY <1>2 DEF Init
    <2>2. forecasts \subseteq Sites \X Nat
      <3>1. forecasts = Founders \X {1}
        BY DEF Init
      <3>2. QED
        BY <1>2, <3>1
    <2>3. /\ actions \subseteq Action /\ receipts \subseteq TradeIds /\ due \subseteq TradeIds
          /\ pairs \subseteq OrderIds \X OrderIds
      BY <1>4
    <2>4. QED
      BY <1>1, <1>3, <1>4, <1>5, <2>1, <2>2, <2>3 DEF TypeOK
  <1>7. QED
    BY <1>4, <1>5, <1>6
       DEF IInv, BookSound, RoundSound, DueSound, SettlementSound, TradeTerms, SettledOnce,
           JournalBalances, RequestBuysOnce

\* A stuttering step.
LEMMA StutterStep ==
    ASSUME IInv,
           UNCHANGED <<clock, wall, scenario, running, liveMode, seen, members, forecasts, readings,
                       market, books, matching, due>>
    PROVE  SimulationStep
  <1>1. due \subseteq ToSettle(readings)
    BY DEF IInv, TypeOK, DueSound, ToSettle
  <1>2. ReadingsOK(readings') /\ ReadingsKept
    BY DEF IInv, TypeOK, ReadingsOK, ReadingsKept
  <1>3. QED
    BY <1>1, <1>2 DEF IInv, TypeOK, SimulationStep, LoadedRow

\* Every step keeps the invariant and the evidence, and is one of the simulation, one of
\* the market or one of reconcile_due.
LEMMA NextInv ==
    ASSUME IInv, [Next]_vars
    PROVE  /\ IInv' /\ EvidenceKept
           /\ SimulationStep \/ EnergyMoves \/ ReconcileNext
  <1> DEFINE Kept == IInv' /\ EvidenceKept /\ (SimulationStep \/ EnergyMoves \/ ReconcileNext)
  <1>1. CASE Household
    <2>1. ASSUME NEW u \in Sites, Register(u)
          PROVE  Kept
      BY <2>1, RegisterStep, SimulationStepInv
    <2>2. ASSUME NEW u \in Sites, NEW t \in Slots, NEW side \in {"buy", "sell"},
                 NEW q \in Quantities, NEW p \in Prices, PlaceOrder(u, t, side, q, p)
          PROVE  Kept
      BY <2>2, PlaceOrderInv
    <2>3. ASSUME NEW o \in OrderIds, CancelOrder(o)
          PROVE  Kept
      BY <2>3, CancelOrderInv
    <2>4. ASSUME NEW u \in members, NEW r \in Requests, NEW offer \in OrderIds,
                 NEW q \in Quantities, NEW p \in Prices, NEW own \in 0 .. Len(orders),
                 AcceptOffer(u, r, offer, q, p, own)
          PROVE  Kept
      BY <2>4, AcceptOfferInv
    <2>5. QED
      BY <1>1, <2>1, <2>2, <2>3, <2>4 DEF Household
  <1>2. CASE Operator
    <2>1. CASE ClearMarket
      BY <2>1, ClearMarketInv
    <2>2. CASE EnableLive
      BY <2>2, EnableLiveStep, SimulationStepInv
    <2>3. CASE RecoverMissing
      BY <2>3, RecoverStep, SimulationStepInv
    <2>4. CASE Step \/ DeliverTrades
      BY <2>4, ControlStep, SimulationStepInv
    <2>5. CASE (\E sc \in Scenarios : SetScenario(sc)) \/ (\E on \in BOOLEAN : Play(on))
      BY <2>5, ControlStep, SimulationStepInv
    <2>6. QED
      BY <1>2, <2>1, <2>2, <2>3, <2>4, <2>5 DEF Operator
  <1>3. CASE Worker
    BY <1>3, WorkerStep, SimulationStepInv
  <1>4. CASE Transaction
    BY <1>4, MatchNextInv, ReconcileNextInv DEF Transaction
  <1>5. CASE WallPasses
    BY <1>5, ControlStep, SimulationStepInv
  <1>6. CASE UNCHANGED vars
    <2>1. SimulationStep
      BY <1>6, StutterStep DEF vars, market, books, matching
    <2>2. QED
      BY <2>1, SimulationStepInv
  <1>7. QED
    BY <1>1, <1>2, <1>3, <1>4, <1>5, <1>6 DEF Next

\* IInv holds in every reachable state.
THEOREM Inductive == Spec => []IInv
  <1>1. Init => IInv
    BY InitInv
  <1>2. IInv /\ [Next]_vars => IInv'
    BY NextInv
  <1>3. QED
    BY <1>1, <1>2, PTL DEF Spec

-----------------------------------------------------------------------------
(***************************************************************************)
(* What the marketplace guarantees, for every value of its constants.      *)
(***************************************************************************)
\* The rows of every table keep their shape and never refer to a row that does not
\* exist (the foreign keys of the market, clearing and settlement tables).
THEOREM TypeCorrect == Spec => []TypeOK
  <1>1. IInv => TypeOK
    BY DEF IInv
  <1>2. QED
    BY <1>1, Inductive, PTL

\* A trade that stands keeps the terms clear_market or accept_offer gave it: two
\* households, one slot, a price within both limits, and neither order cancelled.
THEOREM TermsHold == Spec => []TradeTerms
  <1>1. IInv => TradeTerms
    BY DEF IInv
  <1>2. QED
    BY <1>1, Inductive, PTL

\* reconcile_due settles a trade at most once, and posts its settlement and receipt
\* with the change of its status.
THEOREM SettlementHappensOnce == Spec => []SettledOnce
  <1>1. IInv => SettledOnce
    BY DEF IInv
  <1>2. QED
    BY <1>1, Inductive, PTL

\* reconcile_due's postings sum to zero for each settlement, buyer against seller.
THEOREM JournalStaysBalanced == Spec => []JournalBalances
  <1>1. IInv => JournalBalances
    BY DEF IInv
  <1>2. QED
    BY <1>1, Inductive, PTL

\* accept_offer spends a request id once, and the trade it made stays the one that a
\* repeated request is answered with.
THEOREM RequestsBuyOnce == Spec => []RequestBuysOnce
  <1>1. IInv => RequestBuysOnce
    BY DEF IInv
  <1>2. QED
    BY <1>1, Inductive, PTL

\* No transaction replaces a reading, a settlement, a posting or a trade's terms,
\* releases energy that was matched, or changes an order that is over.
THEOREM EvidenceIsPermanent == Spec => EvidencePermanent
  <1>1. IInv /\ [Next]_vars => [EvidenceKept]_vars
    BY NextInv
  <1>2. QED
    BY <1>1, Inductive, PTL DEF Spec, EvidencePermanent

-----------------------------------------------------------------------------
(***************************************************************************)
(* Sums over the rows of a table.                                          *)
(***************************************************************************)
\* The rows of a table are finitely many.
LEMMA RowsFinite ==
    ASSUME NEW n \in Nat, NEW S \in SUBSET (1 .. n)
    PROVE  IsFiniteSet(S)
  <1>1. IsFiniteSet(1 .. n)
    BY FS_Interval
  <1>2. QED
    BY <1>1, FS_Subset

\* The trades that stand on an order, and the energy they agreed on.
StandOn(o) == {i \in TradeIds : Stands(trades[i]) /\ o \in {trades[i].buy, trades[i].sell}}
Energies == [i \in TradeIds |-> trades[i].energy]
AgreedOn(o) == SumFunctionOnSet(Energies, StandOn(o))

\* FilledByTrades, given that statuses agree with what was matched.
LEMMA FilledSums ==
    ASSUME IInv
    PROVE  FilledByTrades <=> \A o \in OrderIds : orders[o].matched = AgreedOn(o)
  <1>1. ASSUME NEW o \in OrderIds
        PROVE  Agreed({i \in TradeIds : o \in {trades[i].buy, trades[i].sell}}) = AgreedOn(o)
    <2>1. {i \in {j \in TradeIds : o \in {trades[j].buy, trades[j].sell}} : Stands(trades[i])}
            = StandOn(o)
      BY DEF StandOn
    <2>2. QED
      BY <2>1 DEF Agreed, AgreedOn, Energies
  <1>2. QED
    BY <1>1 DEF FilledByTrades, IInv, BookSound

\* Trades stand on orders that exist.
LEMMA StandOnTypes ==
    ASSUME IInv, NEW o
    PROVE  /\ IsFiniteSet(StandOn(o))
           /\ \A i \in TradeIds : Energies[i] \in Nat
           /\ AgreedOn(o) \in Int
           /\ o \notin OrderIds => StandOn(o) = {} /\ AgreedOn(o) = 0
  <1>1. IsFiniteSet(StandOn(o))
    BY RowTypes, RowsFinite DEF StandOn, TradeIds
  <1>2. \A i \in TradeIds : Energies[i] \in Nat
    BY RowTypes DEF Energies, Trade
  <1>3. AgreedOn(o) \in Int
    <2>1. \A i \in StandOn(o) : Energies[i] \in Int
      BY <1>2 DEF StandOn
    <2>2. QED
      BY <1>1, <2>1, SumType DEF AgreedOn
  <1>4. o \notin OrderIds => StandOn(o) = {}
    BY DEF StandOn, IInv, TradeTerms
  <1>5. QED
    BY <1>1, <1>2, <1>3, <1>4, SumEmpty DEF AgreedOn

\* A trade that the market adds counts once for each of its orders.
LEMMA AgreedGrows ==
    ASSUME IInv, IInv', EnergyMoves, NEW o
    PROVE  AgreedOn(o)' = AgreedOn(o) + Added(o)
  <1> DEFINE n == Len(trades) + 1
  <1>1. /\ Len(trades) \in Nat /\ Len(trades') \in Nat
        /\ TradeIds = 1 .. Len(trades) /\ TradeIds' = 1 .. Len(trades')
        /\ Len(trades) <= Len(trades') /\ Len(trades') <= n
        /\ \A i \in TradeIds : trades'[i] = trades[i]
    BY RowTypes, SeqDomain DEF EnergyMoves, TradesKept, TradeIds
  <1>2. /\ IsFiniteSet(StandOn(o)) /\ AgreedOn(o) \in Int
        /\ \A i \in TradeIds : Energies[i] \in Nat
    BY StandOnTypes
  <1>3. \A i \in TradeIds : Energies'[i] = Energies[i]
    BY <1>1 DEF Energies
  <1>4. SumFunctionOnSet(Energies', StandOn(o)) = AgreedOn(o)
    <2>1. \A i \in StandOn(o) : Energies'[i] = Energies[i]
      BY <1>3 DEF StandOn
    <2>2. QED
      BY <1>2, <2>1, SumSame DEF AgreedOn
  <1>5. CASE Len(trades') = n /\ Stands(trades'[n]) /\ o \in {trades'[n].buy, trades'[n].sell}
    <2>1. TradeIds' = TradeIds \cup {n} /\ n \notin TradeIds
      BY <1>1, <1>5
    <2>2. StandOn(o)' = StandOn(o) \cup {n} /\ n \notin StandOn(o)
      BY <1>1, <1>5, <2>1 DEF StandOn, Stands
    <2>3. n \in TradeIds' /\ trades'[n].energy \in Nat /\ Energies'[n] = trades'[n].energy
      <3>1. n \in TradeIds'
        BY <2>1
      <3>2. trades' \in Seq(Trade)
        BY DEF EnergyMoves, TradesKept
      <3>3. trades'[n] \in Trade
        BY <1>1, <1>5, <3>2, SeqDomain
      <3>4. QED
        BY <3>1, <3>3 DEF Energies, Trade
    <2>4. \A i \in StandOn(o) \cup {n} : Energies'[i] \in Int
      BY <1>2, <1>3, <2>3 DEF StandOn
    <2>5. SumFunctionOnSet(Energies', StandOn(o) \cup {n})
            = Energies'[n] + SumFunctionOnSet(Energies', StandOn(o))
      BY <1>2, <2>2, <2>4, SumAdd
    <2>6. Added(o) = trades'[n].energy
      BY <1>1, <1>5 DEF Added
    <2>7. QED
      BY <1>2, <1>4, <2>2, <2>3, <2>5, <2>6 DEF AgreedOn
  <1>6. CASE ~(Len(trades') = n /\ Stands(trades'[n]) /\ o \in {trades'[n].buy, trades'[n].sell})
    <2>1. Added(o) = 0
      BY <1>1, <1>6 DEF Added
    <2>2. StandOn(o)' = StandOn(o)
      BY <1>1, <1>6 DEF StandOn, Stands
    <2>3. QED
      BY <1>2, <1>4, <2>1, <2>2 DEF AgreedOn
  <1>7. QED
    BY <1>5, <1>6

\* The market matches with an order exactly what the trades on it agreed.
LEMMA FilledMoves ==
    ASSUME IInv, IInv', EnergyMoves, FilledByTrades
    PROVE  FilledByTrades'
  <1>1. ASSUME NEW o \in OrderIds'
        PROVE  orders'[o].matched = AgreedOn(o)'
    <2>1. orders'[o].matched = Before(o) + Added(o)
      BY <1>1 DEF EnergyMoves, OrderIds
    <2>2. Before(o) = AgreedOn(o)
      BY FilledSums, StandOnTypes DEF Before
    <2>3. QED
      BY <2>1, <2>2, AgreedGrows
  <1>2. (\A o \in OrderIds' : orders'[o].matched = AgreedOn(o)') => FilledByTrades'
    <2>1. (FilledByTrades <=> \A o \in OrderIds : orders[o].matched = AgreedOn(o))'
      BY FilledSums, PTL
    <2>2. QED
      BY <2>1
  <1>3. QED
    BY <1>1, <1>2

-----------------------------------------------------------------------------
(***************************************************************************)
(* What sell orders hold of the surplus.                                   *)
(***************************************************************************)
Holdings == [o \in OrderIds |-> Held(orders[o])]

\* An order holds what it matched, and all its energy while it is active.
HoldingsSound ==
    \A o \in OrderIds :
        /\ Holdings[o] = Held(orders[o]) /\ Held(orders[o]) \in Nat
        /\ Held(orders[o]) <= orders[o].energy
        /\ Held(orders[o]) = IF Active(orders[o]) THEN orders[o].energy ELSE orders[o].matched

LEMMA HeldType ==
    ASSUME IInv
    PROVE  HoldingsSound
  <1> USE DEF HoldingsSound
  <1>1. TAKE o \in OrderIds
  <1>2. /\ orders[o].energy \in Nat /\ orders[o].matched \in Nat
        /\ orders[o].matched <= orders[o].energy
    BY RowTypes DEF Order, IInv, BookSound
  <1>3. CASE Active(orders[o])
    BY <1>2, <1>3 DEF Holdings, Held, Remaining
  <1>4. CASE ~Active(orders[o])
    BY <1>2, <1>4 DEF Holdings, Held
  <1>5. QED
    BY <1>3, <1>4

\* The sell orders of a household in a slot.
LEMMA OfferedTypes ==
    ASSUME IInv, NEW u, NEW t
    PROVE  /\ IsFiniteSet(Offered(u, t)) /\ Offered(u, t) \subseteq OrderIds
           /\ \A o \in Offered(u, t) : Holdings[o] \in Nat
           /\ Reserved(u, t) = SumFunctionOnSet(Holdings, Offered(u, t))
           /\ Reserved(u, t) \in Int
  <1>1. Offered(u, t) \subseteq OrderIds
    BY DEF Offered
  <1>2. IsFiniteSet(Offered(u, t))
    BY <1>1, RowTypes, RowsFinite DEF OrderIds
  <1>3. \A o \in Offered(u, t) : Holdings[o] \in Nat
    BY <1>1, HeldType DEF HoldingsSound
  <1>4. SumFunctionOnSet(Holdings, Offered(u, t)) \in Int
    BY <1>2, <1>3, SumType
  <1>5. QED
    BY <1>1, <1>2, <1>3, <1>4 DEF Reserved, Holdings

\* No step lets an order hold more than it did.
LEMMA HeldKept ==
    ASSUME IInv, IInv', OrdersKept, NEW o \in OrderIds
    PROVE  /\ o \in OrderIds' /\ Holdings'[o] \in Nat /\ Holdings'[o] <= Holdings[o]
  <1>1. o \in OrderIds'
    BY RowTypes, SeqDomain DEF OrdersKept, OrderIds
  <1>2. /\ Holdings'[o] \in Nat
        /\ Holdings'[o] <= orders'[o].energy
        /\ Holdings'[o] = IF Active(orders'[o]) THEN orders'[o].energy ELSE orders'[o].matched
    <2>1. HoldingsSound'
      BY HeldType, PTL
    <2>2. QED
      BY <1>1, <2>1 DEF HoldingsSound, Active
  <1>3. /\ Holdings[o] \in Nat
        /\ Holdings[o] = IF Active(orders[o]) THEN orders[o].energy ELSE orders[o].matched
    BY HeldType DEF HoldingsSound
  <1>4. SameTerms(orders'[o], orders[o]) /\ (~Active(orders[o]) => orders'[o] = orders[o])
    BY DEF OrdersKept
  <1>5. CASE Active(orders[o])
    BY <1>1, <1>2, <1>3, <1>4, <1>5 DEF SameTerms
  <1>6. CASE ~Active(orders[o])
    <2>1. orders'[o] = orders[o] /\ ~Active(orders'[o])
      BY <1>4, <1>6
    <2>2. QED
      BY <1>1, <1>2, <1>3, <1>6, <2>1
  <1>7. QED
    BY <1>5, <1>6

\* The market never lets the sell orders hold more than the surplus.
LEMMA HeldMoves ==
    ASSUME IInv, IInv', EnergyMoves, HeldWithinSurplus
    PROVE  HeldWithinSurplus'
  <1>1. SUFFICES ASSUME NEW u \in Sites, NEW t \in Slots
                 PROVE  Reserved(u, t)' <= Available(u, t)
    BY DEF HeldWithinSurplus, Available
  <1> DEFINE S == Offered(u, t)
             n == Len(orders) + 1
  <1>2. /\ IsFiniteSet(S) /\ S \subseteq OrderIds /\ \A o \in S : Holdings[o] \in Nat
        /\ Reserved(u, t) = SumFunctionOnSet(Holdings, S) /\ Reserved(u, t) \in Int
    BY OfferedTypes
  <1>3. Reserved(u, t) <= Available(u, t) /\ Available(u, t) \in Int
    <2>1. Surplus[<<u, t>>] \in Int
      BY DataAssumption
    <2>2. QED
      BY <2>1 DEF HeldWithinSurplus, Available, AtLeastZero
  <1>4. OrdersKept /\ Len(orders') <= n
        /\ Len(orders) \in Nat /\ Len(orders') \in Nat /\ Len(orders) <= Len(orders')
        /\ OrderIds = 1 .. Len(orders) /\ OrderIds' = 1 .. Len(orders')
    BY RowTypes, SeqDomain DEF EnergyMoves, OrdersKept, OrderIds
  <1>5. /\ \A o \in S : Holdings'[o] \in Nat /\ Holdings'[o] <= Holdings[o]
        /\ \A o \in OrderIds : o \in S' <=> o \in S
    <2>1. \A o \in OrderIds : SameTerms(orders'[o], orders[o]) /\ o \in OrderIds'
      BY <1>4 DEF OrdersKept
    <2>2. QED
      BY <1>2, <1>4, <2>1, HeldKept DEF Offered, SameTerms
  <1>6. SumFunctionOnSet(Holdings', S) <= Reserved(u, t)
        /\ SumFunctionOnSet(Holdings', S) \in Int
    <2> DEFINE f == Holdings'
               g == Holdings
    <2>1. \A o \in S : f[o] \in Nat /\ f[o] \in Int /\ f[o] <= g[o] /\ g[o] \in Nat
      BY <1>2, <1>5
    <2> HIDE DEF f, g, S
    <2>2. SumFunctionOnSet(f, S) <= SumFunctionOnSet(g, S)
      BY <1>2, <2>1, SumGrows
    <2>3. SumFunctionOnSet(f, S) \in Int
      BY <1>2, <2>1, SumType
    <2>4. QED
      BY <1>2, <2>2, <2>3 DEF f, g
  <1>7. Reserved(u, t)' = SumFunctionOnSet(Holdings', S')
    BY DEF Reserved, Holdings
  <1>8. CASE n \in S'
    <2>1. S' = S \cup {n} /\ n \notin S /\ n \in OrderIds' /\ n \notin OrderIds
      BY <1>2, <1>4, <1>5, <1>8 DEF Offered
    <2>2. orders'[n].side = "sell" /\ orders'[n].site = u /\ orders'[n].start = t
      BY <1>8 DEF Offered
    <2>3. orders'[n].energy <= Available(u, t) - Reserved(u, t)
      BY <1>4, <2>1, <2>2 DEF EnergyMoves
    <2>4. Holdings'[n] \in Nat /\ Holdings'[n] <= orders'[n].energy /\ orders'[n].energy \in Nat
      <3>1. HoldingsSound'
        BY HeldType, PTL
      <3>2. orders'[n] \in Order
        BY <1>4, <2>1, SeqDomain DEF OrdersKept
      <3>3. QED
        BY <2>1, <3>1, <3>2 DEF HoldingsSound, Order
    <2>5. Reserved(u, t)' = Holdings'[n] + SumFunctionOnSet(Holdings', S)
      <3> DEFINE f == Holdings'
      <3>1. \A o \in S \cup {n} : f[o] \in Int
        BY <1>5, <2>4
      <3> HIDE DEF f, S
      <3>2. SumFunctionOnSet(f, S \cup {n}) = f[n] + SumFunctionOnSet(f, S)
        BY <1>2, <2>1, <3>1, SumAdd
      <3>3. QED
        BY <1>7, <2>1, <3>2 DEF f
    <2>6. QED
      <3> HIDE DEF S, n
      <3>1. QED
        BY <1>2, <1>3, <1>6, <2>3, <2>4, <2>5
  <1>9. CASE n \notin S'
    <2>1. S' = S
      BY <1>2, <1>4, <1>5, <1>9 DEF Offered
    <2>2. QED
      BY <1>2, <1>3, <1>6, <1>7, <2>1
  <1>10. QED
    BY <1>8, <1>9

\* What sell orders hold is what their trades agreed and what they still offer.
LEMMA HeldIsOwed ==
    ASSUME IInv, FilledByTrades, HeldWithinSurplus
    PROVE  ReservedWithinSurplus
  <1>1. SUFFICES ASSUME NEW u \in Sites, NEW t \in Slots
                 PROVE  Agreed({i \in TradeIds : trades[i].sell \in Offered(u, t)})
                          + SumFunctionOnSet([o \in OrderIds |-> Remaining(orders[o])],
                                             {o \in Offered(u, t) : Active(orders[o])})
                        <= Available(u, t)
    BY DEF ReservedWithinSurplus
  <1> DEFINE S == Offered(u, t)
             A == {o \in S : Active(orders[o])}
             T == {i \in TradeIds : Stands(trades[i]) /\ trades[i].sell \in S}
             sellOf == [i \in TradeIds |-> trades[i].sell]
             matched == [o \in OrderIds |-> orders[o].matched]
             offers == [o \in OrderIds |-> Remaining(orders[o])]
  <1>2. /\ IsFiniteSet(S) /\ S \subseteq OrderIds
        /\ Reserved(u, t) = SumFunctionOnSet(Holdings, S)
    BY OfferedTypes
  <1>3. IsFiniteSet(T) /\ \A i \in T : Energies[i] \in Int /\ sellOf[i] \in S
    <2>1. IsFiniteSet(T)
      BY RowTypes, RowsFinite DEF TradeIds
    <2>2. QED
      BY <2>1, StandOnTypes
  <1>4. ASSUME NEW o \in S
        PROVE  matched[o] = SumFunctionOnSet(Energies, {i \in T : sellOf[i] = o})
    <2>1. \A i \in StandOn(o) : trades[i].buy # o
      <3>1. SUFFICES ASSUME NEW i \in StandOn(o)
                     PROVE  orders[trades[i].buy].side = "buy"
        BY DEF Offered
      <3>2. QED
        BY DEF StandOn, IInv, TradeTerms, Matchable
    <2>2. {i \in T : sellOf[i] = o} = StandOn(o)
      BY <2>1 DEF StandOn
    <2>3. orders[o].matched = AgreedOn(o)
      BY <1>2, FilledSums
    <2>4. QED
      BY <1>2, <2>2, <2>3 DEF AgreedOn
  <1>5. SumFunctionOnSet(Energies, T) = SumFunctionOnSet(matched, S)
    <2> DEFINE groups == [o \in S |-> SumFunctionOnSet(Energies, {i \in T : sellOf[i] = o})]
    <2>1. \A o \in S : groups[o] = matched[o]
      BY <1>4
    <2>2. SumFunctionOnSet(Energies, T) = SumFunctionOnSet(groups, S)
      <3> HIDE DEF S, T, sellOf
      <3>1. QED
        BY <1>2, <1>3, SumGroups
    <2>3. SumFunctionOnSet(groups, S) = SumFunctionOnSet(matched, S)
      <3> HIDE DEF S, groups, matched
      <3>1. QED
        BY <1>2, <2>1, SumSame
    <2>4. QED
      BY <2>2, <2>3
  <1>6. ASSUME NEW o \in S
        PROVE  /\ matched[o] \in Int /\ offers[o] \in Int
               /\ Holdings[o] = IF o \in A THEN matched[o] + offers[o] ELSE matched[o]
    <2>1. orders[o].energy \in Nat /\ orders[o].matched \in Nat
      BY <1>2, RowTypes DEF Order
    <2>2. offers[o] = orders[o].energy - orders[o].matched
      BY <1>2 DEF Remaining
    <2>3. Holdings[o] = IF Active(orders[o]) THEN orders[o].energy ELSE orders[o].matched
      BY <1>2, HeldType DEF HoldingsSound
    <2>4. QED
      BY <1>2, <2>1, <2>2, <2>3
  <1>7. SumFunctionOnSet(Holdings, S)
          = SumFunctionOnSet(matched, S) + SumFunctionOnSet(offers, A)
    <2>1. A \in SUBSET S /\ \A o \in A : offers[o] \in Int
      BY <1>6
    <2> HIDE DEF S, A, matched, offers
    <2>2. QED
      BY <1>2, <1>6, <2>1, SumPlus
  <1>8. Agreed({i \in TradeIds : trades[i].sell \in Offered(u, t)}) = SumFunctionOnSet(Energies, T)
    <2>1. {i \in {j \in TradeIds : trades[j].sell \in Offered(u, t)} : Stands(trades[i])} = T
      OBVIOUS
    <2>2. QED
      BY <2>1 DEF Agreed, Energies
  <1>9. QED
    BY <1>2, <1>5, <1>7, <1>8 DEF HeldWithinSurplus

\* A step of the simulation leaves the order book and the trades alone.
LEMMA BookUnchanged ==
    ASSUME IInv, UNCHANGED orders,
           Len(trades') = Len(trades),
           \A i \in TradeIds : /\ trades'[i].buy = trades[i].buy /\ trades'[i].sell = trades[i].sell
                               /\ trades'[i].energy = trades[i].energy
                               /\ Stands(trades'[i]) <=> Stands(trades[i]),
           FilledByTrades, HeldWithinSurplus
    PROVE  FilledByTrades' /\ HeldWithinSurplus'
  <1>1. TradeIds' = TradeIds /\ OrderIds' = OrderIds
    BY DEF TradeIds, OrderIds
  <1>2. HeldWithinSurplus'
    BY <1>1 DEF HeldWithinSurplus, Reserved, Offered, Available
  <1>3. Energies' = Energies
    BY <1>1 DEF Energies
  <1>4. ASSUME NEW o \in OrderIds
        PROVE  Agreed({i \in TradeIds : o \in {trades[i].buy, trades[i].sell}})'
                 = Agreed({i \in TradeIds : o \in {trades[i].buy, trades[i].sell}})
    <2> DEFINE S == {i \in TradeIds : o \in {trades[i].buy, trades[i].sell}}
    <2>1. {i \in S' : Stands(trades'[i])} = {i \in S : Stands(trades[i])}
      BY <1>1
    <2>2. {i \in S' : Stands(trades[i])'} = {i \in S' : Stands(trades'[i])}
      BY DEF Stands
    <2>3. Agreed(S)' = SumFunctionOnSet(Energies', {i \in S' : Stands(trades[i])'})
      BY DEF Agreed, Energies
    <2> HIDE DEF S
    <2>4. QED
      BY <1>3, <2>1, <2>2, <2>3 DEF Agreed, Energies, S
  <1>5. QED
    BY <1>1, <1>2, <1>4 DEF FilledByTrades

-----------------------------------------------------------------------------
(***************************************************************************)
(* What settlements take of a meter's reading.                             *)
(***************************************************************************)
Delivery == [i \in DOMAIN settlements |-> settlements[i].kwh]
SoldAt(k) == {i \in DOMAIN settlements : <<settlements[i].seller, settlements[i].slot>> = k}
BoughtAt(k) == {i \in DOMAIN settlements : <<settlements[i].buyer, settlements[i].slot>> = k}

\* What earlier settlements took is a natural, nothing if there are none.
LEMMA UsedTypes ==
    ASSUME IInv, NEW k
    PROVE  /\ IsFiniteSet(SoldAt(k)) /\ IsFiniteSet(BoughtAt(k))
           /\ ExportUsed(k) = SumFunctionOnSet(Delivery, SoldAt(k))
           /\ ImportUsed(k) = SumFunctionOnSet(Delivery, BoughtAt(k))
           /\ \A i \in DOMAIN settlements : Delivery[i] \in Int
           /\ ExportUsed(k) \in Int /\ ImportUsed(k) \in Int
           /\ SoldAt(k) = {} => ExportUsed(k) = 0
           /\ BoughtAt(k) = {} => ImportUsed(k) = 0
  <1>1. /\ settlements \in Seq(Settlement) /\ Len(settlements) \in Nat
        /\ DOMAIN settlements = 1 .. Len(settlements)
        /\ \A i \in DOMAIN settlements : settlements[i] \in Settlement
    BY SeqDomain DEF IInv, TypeOK
  <1>2. IsFiniteSet(SoldAt(k)) /\ IsFiniteSet(BoughtAt(k))
    BY <1>1, RowsFinite DEF SoldAt, BoughtAt
  <1>3. /\ ExportUsed(k) = SumFunctionOnSet(Delivery, SoldAt(k))
        /\ ImportUsed(k) = SumFunctionOnSet(Delivery, BoughtAt(k))
    BY DEF ExportUsed, ImportUsed, Delivery, SoldAt, BoughtAt
  <1>4. \A i \in DOMAIN settlements : Delivery[i] \in Int
    BY <1>1 DEF Delivery, Settlement
  <1>5. (\A i \in SoldAt(k) : Delivery[i] \in Int) /\ (\A i \in BoughtAt(k) : Delivery[i] \in Int)
    BY <1>4 DEF SoldAt, BoughtAt
  <1>6. ExportUsed(k) \in Int /\ ImportUsed(k) \in Int
    BY <1>2, <1>3, <1>5, SumType
  <1>7. QED
    BY <1>2, <1>3, <1>4, <1>6, SumEmpty

\* A step that settles nothing and keeps the readings.
LEMMA MetersKept ==
    ASSUME MeterSpentOnce, ReadingsKept, UNCHANGED settlements
    PROVE  MeterSpentOnce'
  <1>1. ASSUME NEW i \in DOMAIN settlements
        PROVE  LET s == <<settlements[i].seller, settlements[i].slot>>
                   b == <<settlements[i].buyer, settlements[i].slot>>
               IN  /\ {s, b} \subseteq DOMAIN readings'
                   /\ ExportUsed(s)' <= readings'[s].export
                   /\ ImportUsed(b)' <= readings'[b].import
    <2> DEFINE s == <<settlements[i].seller, settlements[i].slot>>
               b == <<settlements[i].buyer, settlements[i].slot>>
    <2>1. /\ s \in DOMAIN readings /\ b \in DOMAIN readings
          /\ ExportUsed(s) <= readings[s].export
          /\ ImportUsed(b) <= readings[b].import
      BY DEF MeterSpentOnce
    <2>2. ExportUsed(s)' = ExportUsed(s) /\ ImportUsed(b)' = ImportUsed(b)
      BY DEF ExportUsed, ImportUsed
    <2> HIDE DEF s, b
    <2>3. QED
      BY <2>1, <2>2 DEF ReadingsKept, s, b
  <1>2. QED
    BY <1>1 DEF MeterSpentOnce

\* What is delivered fits in what both readings have left.
LEMMA DeliveredFits ==
    ASSUME NEW e \in Nat, NEW x \in Int, NEW y \in Int
    PROVE  LET d == Least(e, Least(AtLeastZero(x), AtLeastZero(y)))
           IN  /\ d \in Nat /\ d <= e
               /\ d = 0 \/ d <= x
               /\ d = 0 \/ d <= y
  BY DEF Least, AtLeastZero

\* A settlement takes its energy of its seller's and of its buyer's reading.
LEMMA UsedGrows ==
    ASSUME IInv, NEW row \in Settlement, settlements' = Append(settlements, row), NEW k
    PROVE  /\ ExportUsed(k)' = IF <<row.seller, row.slot>> = k THEN ExportUsed(k) + row.kwh
                                                               ELSE ExportUsed(k)
           /\ ImportUsed(k)' = IF <<row.buyer, row.slot>> = k THEN ImportUsed(k) + row.kwh
                                                              ELSE ImportUsed(k)
  <1> DEFINE n == Len(settlements) + 1
  <1>1. /\ settlements \in Seq(Settlement) /\ Len(settlements) \in Nat
        /\ DOMAIN settlements = 1 .. Len(settlements)
    BY SeqDomain DEF IInv, TypeOK
  <1>2. /\ DOMAIN settlements' = DOMAIN settlements \cup {n} /\ n \notin DOMAIN settlements
        /\ \A j \in DOMAIN settlements : settlements'[j] = settlements[j]
        /\ settlements'[n] = row
    BY <1>1, AppendProperties
  <1>3. /\ \A j \in DOMAIN settlements : Delivery'[j] = Delivery[j] /\ Delivery'[j] \in Int
        /\ Delivery'[n] = row.kwh /\ row.kwh \in Int
    <2>1. row.kwh \in Int
      BY DEF Settlement
    <2>2. QED
      BY <1>2, <2>1, UsedTypes DEF Delivery
  <1>4. /\ ExportUsed(k)' = SumFunctionOnSet(Delivery', SoldAt(k)')
        /\ ImportUsed(k)' = SumFunctionOnSet(Delivery', BoughtAt(k)')
    BY DEF ExportUsed, ImportUsed, Delivery, SoldAt, BoughtAt
  <1>5. /\ SoldAt(k)' = IF <<row.seller, row.slot>> = k THEN SoldAt(k) \cup {n} ELSE SoldAt(k)
        /\ BoughtAt(k)' = IF <<row.buyer, row.slot>> = k THEN BoughtAt(k) \cup {n} ELSE BoughtAt(k)
    BY <1>2 DEF SoldAt, BoughtAt
  <1>6. ASSUME NEW S \in SUBSET DOMAIN settlements, IsFiniteSet(S)
        PROVE  /\ SumFunctionOnSet(Delivery', S) = SumFunctionOnSet(Delivery, S)
               /\ SumFunctionOnSet(Delivery', S \cup {n}) = row.kwh + SumFunctionOnSet(Delivery, S)
               /\ SumFunctionOnSet(Delivery, S) \in Int
    <2> DEFINE f == Delivery
               g == Delivery'
    <2>1. \A j \in S : g[j] = f[j] /\ f[j] \in Int
      BY <1>3, UsedTypes
    <2>2. /\ n \notin S /\ g[n] = row.kwh
          /\ \A j \in S \cup {n} : g[j] \in Int
      BY <1>2, <1>3
    <2> HIDE DEF f, g, n
    <2>3. SumFunctionOnSet(g, S) = SumFunctionOnSet(f, S) /\ SumFunctionOnSet(f, S) \in Int
      BY <1>6, <2>1, SumSame, SumType
    <2>4. SumFunctionOnSet(g, S \cup {n}) = g[n] + SumFunctionOnSet(g, S)
      BY <1>6, <2>2, SumAdd
    <2>5. QED
      BY <2>2, <2>3, <2>4 DEF f, g
  <1>7. SoldAt(k) \in SUBSET DOMAIN settlements /\ BoughtAt(k) \in SUBSET DOMAIN settlements
    BY DEF SoldAt, BoughtAt
  <1>8. /\ SumFunctionOnSet(Delivery', SoldAt(k)) = ExportUsed(k)
        /\ SumFunctionOnSet(Delivery', SoldAt(k) \cup {n}) = row.kwh + ExportUsed(k)
        /\ SumFunctionOnSet(Delivery', BoughtAt(k)) = ImportUsed(k)
        /\ SumFunctionOnSet(Delivery', BoughtAt(k) \cup {n}) = row.kwh + ImportUsed(k)
    BY <1>6, <1>7, UsedTypes
  <1>9. ExportUsed(k) \in Int /\ ImportUsed(k) \in Int
    BY UsedTypes
  <1>10. QED
    BY <1>3, <1>4, <1>5, <1>8, <1>9

\* Settling a trade takes no more of a reading than it has left, and leaves the market
\* as it was but for the trade's status.
LEMMA ReconcileEnergy ==
    ASSUME IInv, EnergyInv, ReconcileNext
    PROVE  EnergyInv'
  <1>1. PICK i \in due : \E kwh \in 0 .. trades[i].energy :
          /\ kwh = Delivered(trades[i])
          /\ settlements' = Append(settlements,
                [trade |-> i, buyer |-> orders[trades[i].buy].site,
                 seller |-> orders[trades[i].sell].site, slot |-> trades[i].start,
                 kwh |-> kwh, gross |-> Rounded(kwh * trades[i].price)])
          /\ trades' = [trades EXCEPT ![i].status = "settled"]
          /\ UNCHANGED <<community, orders>>
    BY DEF ReconcileNext
  <1> DEFINE t == trades[i]
  <1>2. PICK kwh \in 0 .. t.energy :
          /\ kwh = Delivered(t)
          /\ settlements' = Append(settlements,
                [trade |-> i, buyer |-> orders[t.buy].site,
                 seller |-> orders[t.sell].site, slot |-> t.start,
                 kwh |-> kwh, gross |-> Rounded(kwh * t.price)])
          /\ trades' = [trades EXCEPT ![i].status = "settled"]
          /\ UNCHANGED <<community, orders>>
    BY <1>1
  <1> DEFINE row == [trade |-> i, buyer |-> orders[t.buy].site,
                     seller |-> orders[t.sell].site, slot |-> t.start,
                     kwh |-> kwh, gross |-> Rounded(kwh * t.price)]
             s == MeterOf(t.sell, t.start)
             b == MeterOf(t.buy, t.start)
  <1>3. /\ i \in TradeIds /\ t.status = "committed" /\ t \in Trade
        /\ s \in DOMAIN readings /\ b \in DOMAIN readings
        /\ TradeIds = 1 .. Len(trades) /\ trades \in Seq(Trade) /\ DOMAIN trades = TradeIds
    <2>1. i \in TradeIds /\ t.status = "committed" /\ Measured(i, readings)
      BY DEF IInv, TypeOK, DueSound
    <2>2. QED
      BY <2>1, RowTypes, SeqDomain DEF TradeIds, Measured
  <1>4. row \in Settlement
    <2>1. t.buy \in OrderIds /\ t.sell \in OrderIds
      BY <1>3 DEF IInv, TradeTerms, Stands
    <2>2. orders[t.buy].site \in Sites /\ orders[t.sell].site \in Sites
      BY <2>1, RowTypes DEF Order
    <2>3. t.energy \in Nat /\ t.price \in Nat /\ t.start \in Slots
      BY <1>3 DEF Trade
    <2>4. kwh \in Nat /\ kwh * t.price \in Nat
      BY <2>3, ProductType
    <2>5. Rounded(kwh * t.price) \in Nat
      BY <2>4, RoundedType
    <2>6. i \in Nat
      BY <1>3
    <2>7. QED
      BY <2>2, <2>3, <2>4, <2>5, <2>6 DEF Settlement
  <1>5. /\ row.trade = i /\ <<row.seller, row.slot>> = s /\ <<row.buyer, row.slot>> = b
        /\ row.kwh = kwh /\ row.gross = Rounded(kwh * t.price)
        /\ settlements' = Append(settlements, row)
    BY <1>2 DEF MeterOf
  <1>6. /\ Len(trades') = Len(trades)
        /\ \A j \in TradeIds : /\ trades'[j].buy = trades[j].buy /\ trades'[j].sell = trades[j].sell
                               /\ trades'[j].energy = trades[j].energy
                               /\ trades'[j].price = trades[j].price
                               /\ Stands(trades'[j]) <=> Stands(trades[j])
    <2>1. trades' = [trades EXCEPT ![i] = [t EXCEPT !.status = "settled"]]
      BY <1>2
    <2>2. [t EXCEPT !.status = "settled"] \in Trade
      BY <1>3 DEF Trade, TradeStatus
    <2>3. /\ Len(trades') = Len(trades)
          /\ \A j \in TradeIds \ {i} : trades'[j] = trades[j]
          /\ trades'[i] = [t EXCEPT !.status = "settled"]
      BY <1>3, <2>1, <2>2, ExceptSeq
    <2>4. ASSUME NEW j \in TradeIds
          PROVE  /\ trades'[j].buy = trades[j].buy /\ trades'[j].sell = trades[j].sell
                 /\ trades'[j].energy = trades[j].energy
                 /\ trades'[j].price = trades[j].price
                 /\ Stands(trades'[j]) <=> Stands(trades[j])
      <3>1. CASE j = i
        BY <1>3, <2>3, <3>1 DEF Trade, Stands
      <3>2. CASE j # i
        BY <2>3, <3>2
      <3>3. QED
        BY <3>1, <3>2
    <2>5. QED
      BY <2>3, <2>4
  <1>7. FilledByTrades' /\ HeldWithinSurplus'
    BY <1>2, <1>6, BookUnchanged DEF EnergyInv
  <1> DEFINE n == Len(settlements) + 1
  <1> HIDE DEF row
  <1>8. /\ DOMAIN settlements' = DOMAIN settlements \cup {n}
        /\ \A m \in DOMAIN settlements : settlements'[m] = settlements[m]
        /\ settlements'[n] = row
    <2>1. settlements \in Seq(Settlement)
      BY DEF IInv, TypeOK
    <2>2. QED
      BY <1>4, <1>5, <2>1, SeqDomain, AppendProperties
  <1>9. SettledAtPrice'
    <2>1. SUFFICES ASSUME NEW m \in DOMAIN settlements'
                   PROVE  /\ settlements'[m].kwh <= trades'[settlements'[m].trade].energy
                          /\ settlements'[m].gross
                               = Rounded(settlements'[m].kwh * trades'[settlements'[m].trade].price)
      BY DEF SettledAtPrice, Rounded
    <2>2. CASE m \in DOMAIN settlements
      <3>1. /\ settlements'[m] = settlements[m] /\ settlements[m].trade \in TradeIds
            /\ settlements[m].kwh <= trades[settlements[m].trade].energy
            /\ settlements[m].gross
                 = Rounded(settlements[m].kwh * trades[settlements[m].trade].price)
        BY <1>8, <2>2 DEF IInv, SettlementSound, EnergyInv, SettledAtPrice
      <3>2. QED
        BY <1>6, <3>1
    <2>3. CASE m = n
      <3>1. kwh <= t.energy
        BY <1>3 DEF Trade
      <3> HIDE DEF t
      <3>2. settlements'[m].trade = i /\ settlements'[m].kwh = kwh
            /\ settlements'[m].gross = Rounded(kwh * t.price)
        BY <1>5, <1>8, <2>3
      <3>3. trades'[i].energy = t.energy /\ trades'[i].price = t.price
        BY <1>3, <1>6 DEF t
      <3>4. QED
        BY <3>1, <3>2, <3>3
    <2>4. QED
      BY <1>8, <2>2, <2>3
  <1>10. /\ kwh \in Nat
         /\ kwh = 0 \/ kwh <= readings[s].export - ExportUsed(s)
         /\ kwh = 0 \/ kwh <= readings[b].import - ImportUsed(b)
    <2>1. /\ readings[s].export \in Int /\ readings[b].import \in Int
      <3>1. readings[s] \in Reading /\ readings[b] \in Reading
        BY <1>3 DEF IInv, TypeOK
      <3>2. QED
        BY <3>1 DEF Reading
    <2> DEFINE x == readings[s].export - ExportUsed(s)
               y == readings[b].import - ImportUsed(b)
               e == t.energy
    <2>2. x \in Int /\ y \in Int
      BY <2>1, UsedTypes
    <2>3. e \in Nat
      BY <1>3 DEF Trade
    <2>4. kwh = Least(e, Least(AtLeastZero(x), AtLeastZero(y)))
      BY <1>2 DEF Delivered
    <2> HIDE DEF x, y, e
    <2>5. kwh \in Nat /\ (kwh = 0 \/ kwh <= x) /\ (kwh = 0 \/ kwh <= y)
      BY <2>2, <2>3, <2>4, DeliveredFits
    <2>6. QED
      BY <2>5 DEF x, y
  <1>11. MeterSpentOnce'
    <2> DEFINE Sold(k) == k \in DOMAIN readings /\ ExportUsed(k) <= readings[k].export
               Bought(k) == k \in DOMAIN readings /\ ImportUsed(k) <= readings[k].import
    <2>1. readings' = readings
      BY <1>2 DEF community
    <2>2. /\ \A k : SoldAt(k) # {} => Sold(k)
          /\ \A k : BoughtAt(k) # {} => Bought(k)
      BY DEF EnergyInv, MeterSpentOnce, SoldAt, BoughtAt
    <2>3. Sold(s) /\ Bought(b)
      <3>1. readings[s].export \in Nat /\ readings[b].import \in Nat
        <4>1. readings[s] \in Reading /\ readings[b] \in Reading
          BY <1>3 DEF IInv, TypeOK
        <4>2. QED
          BY <4>1 DEF Reading
      <3> HIDE DEF s, b
      <3>2. SoldAt(s) = {} => Sold(s)
        BY <1>3, <3>1, UsedTypes
      <3>3. BoughtAt(b) = {} => Bought(b)
        BY <1>3, <3>1, UsedTypes
      <3>4. QED
        BY <2>2, <3>2, <3>3
    <2> HIDE DEF s, b
    <2>4. ASSUME NEW k, Sold(k) PROVE k \in DOMAIN readings' /\ ExportUsed(k)' <= readings'[k].export
      <3>1. ExportUsed(k)' = IF s = k THEN ExportUsed(k) + kwh ELSE ExportUsed(k)
        BY <1>4, <1>5, UsedGrows
      <3>2. ExportUsed(k) \in Int /\ readings[k].export \in Int
        <4>1. readings[k] \in Reading
          BY <2>4 DEF IInv, TypeOK
        <4>2. QED
          BY <4>1, UsedTypes DEF Reading
      <3>3. QED
        BY <1>10, <2>1, <2>4, <3>1, <3>2
    <2>5. ASSUME NEW k, Bought(k) PROVE k \in DOMAIN readings' /\ ImportUsed(k)' <= readings'[k].import
      <3>1. ImportUsed(k)' = IF b = k THEN ImportUsed(k) + kwh ELSE ImportUsed(k)
        BY <1>4, <1>5, UsedGrows
      <3>2. ImportUsed(k) \in Int /\ readings[k].import \in Int
        <4>1. readings[k] \in Reading
          BY <2>5 DEF IInv, TypeOK
        <4>2. QED
          BY <4>1, UsedTypes DEF Reading
      <3>3. QED
        BY <1>10, <2>1, <2>5, <3>1, <3>2
    <2>6. ASSUME NEW m \in DOMAIN settlements'
          PROVE  /\ Sold(<<settlements'[m].seller, settlements'[m].slot>>)
                 /\ Bought(<<settlements'[m].buyer, settlements'[m].slot>>)
      <3>1. CASE m \in DOMAIN settlements
        BY <1>8, <3>1 DEF EnergyInv, MeterSpentOnce
      <3>2. CASE m = n
        BY <1>5, <1>8, <2>3, <3>2
      <3>3. QED
        BY <1>8, <3>1, <3>2
    <2> DEFINE ExportNow(k) ==
                 SumFunctionOnSet([j \in DOMAIN settlements' |-> settlements'[j].kwh],
                     {j \in DOMAIN settlements' :
                        <<settlements'[j].seller, settlements'[j].slot>> = k})
               ImportNow(k) ==
                 SumFunctionOnSet([j \in DOMAIN settlements' |-> settlements'[j].kwh],
                     {j \in DOMAIN settlements' :
                        <<settlements'[j].buyer, settlements'[j].slot>> = k})
    <2>7. \A k : ExportUsed(k)' = ExportNow(k) /\ ImportUsed(k)' = ImportNow(k)
      BY DEF ExportUsed, ImportUsed
    <2>8. SUFFICES ASSUME NEW m \in DOMAIN settlements'
                   PROVE  LET x == <<settlements'[m].seller, settlements'[m].slot>>
                              y == <<settlements'[m].buyer, settlements'[m].slot>>
                          IN  /\ {x, y} \subseteq DOMAIN readings'
                              /\ ExportNow(x) <= readings'[x].export
                              /\ ImportNow(y) <= readings'[y].import
      BY DEF MeterSpentOnce, ExportUsed, ImportUsed
    <2> HIDE DEF Sold, Bought, ExportNow, ImportNow
    <2>9. QED
      BY <2>4, <2>5, <2>6, <2>7
  <1>12. QED
    BY <1>7, <1>9, <1>11 DEF EnergyInv

-----------------------------------------------------------------------------
(***************************************************************************)
(* The invariant of energy and money.                                      *)
(***************************************************************************)
LEMMA EnergyInit ==
    ASSUME Init
    PROVE  EnergyInv
  <1>1. OrderIds = {} /\ DOMAIN settlements = {}
    BY EmptySeq DEF Init, OrderIds
  <1>2. HeldWithinSurplus
    <2>1. SUFFICES ASSUME NEW u \in Sites, NEW t \in Slots
                   PROVE  Reserved(u, t) <= Available(u, t)
      BY DEF HeldWithinSurplus
    <2>2. Offered(u, t) = {}
      BY <1>1 DEF Offered
    <2>3. Reserved(u, t) = 0
      BY <2>2, SumEmpty DEF Reserved
    <2>4. Surplus[<<u, t>>] \in Int
      BY DataAssumption
    <2>5. QED
      BY <2>3, <2>4 DEF Available, AtLeastZero
  <1>3. QED
    BY <1>1, <1>2 DEF EnergyInv, FilledByTrades, MeterSpentOnce, SettledAtPrice

\* A step that settles nothing leaves every settlement at its trade's price.
LEMMA PricesKept ==
    ASSUME IInv, SettledAtPrice, UNCHANGED settlements,
           \A i \in TradeIds : trades'[i] = trades[i]
    PROVE  SettledAtPrice'
  <1>1. \A n \in DOMAIN settlements : trades'[settlements[n].trade] = trades[settlements[n].trade]
    BY DEF IInv, SettlementSound
  <1>2. QED
    BY <1>1 DEF SettledAtPrice, Rounded

LEMMA EnergyNext ==
    ASSUME IInv, EnergyInv, [Next]_vars
    PROVE  EnergyInv'
  <1>1. IInv' /\ (SimulationStep \/ EnergyMoves \/ ReconcileNext)
    BY NextInv
  <1>2. CASE SimulationStep
    <2>1. UNCHANGED <<orders, trades, settlements>> /\ ReadingsKept
      BY <1>2 DEF SimulationStep, market, books
    <2>2. FilledByTrades' /\ HeldWithinSurplus'
      BY <2>1, BookUnchanged DEF EnergyInv, Stands
    <2>3. MeterSpentOnce' /\ SettledAtPrice'
      BY <2>1, MetersKept, PricesKept DEF EnergyInv
    <2>4. QED
      BY <2>2, <2>3 DEF EnergyInv
  <1>3. CASE EnergyMoves
    <2>1. FilledByTrades' /\ HeldWithinSurplus'
      BY <1>1, <1>3, FilledMoves, HeldMoves DEF EnergyInv
    <2>2. ReadingsKept /\ UNCHANGED settlements /\ \A i \in TradeIds : trades'[i] = trades[i]
      BY <1>3 DEF EnergyMoves, TradesKept, ReadingsKept
    <2>3. MeterSpentOnce' /\ SettledAtPrice'
      BY <2>2, MetersKept, PricesKept DEF EnergyInv
    <2>4. QED
      BY <2>1, <2>3 DEF EnergyInv
  <1>4. CASE ReconcileNext
    BY <1>4, ReconcileEnergy
  <1>5. QED
    BY <1>1, <1>2, <1>3, <1>4

\* IInv and EnergyInv hold in every reachable state.
THEOREM EnergyInductive == Spec => [](IInv /\ EnergyInv)
  <1>1. Init => IInv /\ EnergyInv
    BY InitInv, EnergyInit
  <1>2. IInv /\ EnergyInv /\ [Next]_vars => (IInv /\ EnergyInv)'
    BY NextInv, EnergyNext
  <1>3. QED
    BY <1>1, <1>2, PTL DEF Spec

-----------------------------------------------------------------------------
(***************************************************************************)
(* Rounding to the paisa.                                                  *)
(***************************************************************************)
\* Rounding half to even never puts a larger amount below a smaller one.
LEMMA RoundedGrows ==
    ASSUME NEW x \in Nat, NEW y \in Nat, x <= y
    PROVE  Rounded(x) <= Rounded(y)
  <1> DEFINE d == Paisa
             p == x \div d
             r == x % d
             q == y \div d
             s == y % d
             Up(k, m) == 2 * m > d \/ (2 * m = d /\ k % 2 = 1)
  <1>1. d \in Nat \ {0}
    BY DataAssumption
  <1>2. /\ p \in Nat /\ q \in Nat /\ r \in 0 .. d - 1 /\ s \in 0 .. d - 1
        /\ d * p + r <= d * q + s
    <2>1. x = d * p + r /\ r \in 0 .. d - 1 /\ p \in Nat
      BY <1>1, DivMod
    <2>2. y = d * q + s /\ s \in 0 .. d - 1 /\ q \in Nat
      BY <1>1, DivMod
    <2> HIDE DEF d, p, q, r, s
    <2>3. QED
      BY <2>1, <2>2
  <1>3. p <= q /\ (p = q => r <= s)
    <2> HIDE DEF d, p, q, r, s
    <2>1. QED
      BY <1>1, <1>2, QuotientGrows
  <1>4. Rounded(x) = IF Up(p, r) THEN p + 1 ELSE p
    BY DEF Rounded
  <1>5. Rounded(y) = IF Up(q, s) THEN q + 1 ELSE q
    BY DEF Rounded
  <1>6. p = q /\ Up(p, r) => Up(q, s)
    <2> HIDE DEF d, p, q, r, s
    <2>1. QED
      BY <1>1, <1>2, <1>3
  <1> HIDE DEF d, p, q, r, s, Up
  <1>7. QED
    BY <1>2, <1>3, <1>4, <1>5, <1>6

\* A settlement at the final price is within what its orders' limits allow.
LEMMA PricesWithinLimits ==
    ASSUME IInv, EnergyInv
    PROVE  PaidWithinLimits
  <1>1. SUFFICES ASSUME NEW n \in DOMAIN settlements
                 PROVE  LET m == settlements[n]
                            t == trades[m.trade]
                        IN  /\ m.kwh <= t.energy
                            /\ Rounded(m.kwh * orders[t.sell].limit) <= m.gross
                            /\ m.gross <= Rounded(m.kwh * orders[t.buy].limit)
    BY DEF PaidWithinLimits, Rounded
  <1> DEFINE m == settlements[n]
             t == trades[m.trade]
             low == orders[t.sell].limit
             high == orders[t.buy].limit
             price == t.price
             kwh == m.kwh
  <1>2. m.trade \in TradeIds /\ Stands(t)
    BY DEF IInv, SettlementSound, SettledOnce, Stands
  <1>3. t \in Trade /\ t.buy \in OrderIds /\ t.sell \in OrderIds
        /\ WithinLimits(orders[t.buy], orders[t.sell], t.price)
    BY <1>2, RowTypes DEF IInv, TradeTerms
  <1>4. /\ low \in Nat /\ high \in Nat /\ price \in Nat /\ kwh \in Nat
        /\ low <= price /\ price <= high
    <2>1. m \in Settlement
      BY SeqDomain DEF IInv, TypeOK
    <2>2. QED
      BY <1>3, <2>1, RowTypes DEF Settlement, Trade, Order, WithinLimits
  <1>5. kwh <= t.energy /\ m.gross = Rounded(kwh * price)
    BY DEF EnergyInv, SettledAtPrice
  <1>6. Rounded(kwh * low) <= Rounded(kwh * price) /\ Rounded(kwh * price) <= Rounded(kwh * high)
    <2> HIDE DEF low, high, price, kwh
    <2>1. /\ kwh * low \in Nat /\ kwh * price \in Nat /\ kwh * high \in Nat
          /\ kwh * low <= kwh * price /\ kwh * price <= kwh * high
      BY <1>4, ProductType, ProductGrows
    <2>2. QED
      BY <2>1, RoundedGrows
  <1>7. QED
    BY <1>5, <1>6

-----------------------------------------------------------------------------
(***************************************************************************)
(* What the marketplace guarantees of energy and money.                    *)
(***************************************************************************)
\* What clear_market and accept_offer add to an order's matched_kwh is the energy of
\* the trades that stand on it, and its status agrees.
THEOREM TradesFillOrders == Spec => []FilledByTrades
  <1>1. EnergyInv => FilledByTrades
    BY DEF EnergyInv
  <1>2. QED
    BY <1>1, EnergyInductive, PTL

\* place_order's check of the unreserved surplus bounds what a household ever owes of a
\* slot, over every later fill, rejection and cancellation.
THEOREM SurplusNeverOversold == Spec => []ReservedWithinSurplus
  <1>1. IInv /\ EnergyInv => ReservedWithinSurplus
    BY HeldIsOwed DEF EnergyInv
  <1>2. QED
    BY <1>1, EnergyInductive, PTL

\* reconcile_due never allocates a meter's export or import twice.
THEOREM ReadingsSpentOnce == Spec => []MeterSpentOnce
  <1>1. EnergyInv => MeterSpentOnce
    BY DEF EnergyInv
  <1>2. QED
    BY <1>1, EnergyInductive, PTL

\* reconcile_due's amounts stay within both orders' limits, rounding included.
THEOREM SettlementsWithinLimits == Spec => []PaidWithinLimits
  <1>1. IInv /\ EnergyInv => PaidWithinLimits
    BY PricesWithinLimits
  <1>2. QED
    BY <1>1, EnergyInductive, PTL
=============================================================================
