------------------------------ MODULE Workspace ------------------------------
(***************************************************************************)
(* The connected marketplace of backend/app/services/workspace_service.py *)
(* and the wall-clock half of experience_service.py: households place,     *)
(* cancel and accept orders, the operator clears the market, and the       *)
(* simulation clock delivers and settles what was traded.                  *)
(*                                                                         *)
(* Every mutation first takes the row lock on the single Simulation row    *)
(* and commits once at its end, so a transaction is one step, except that  *)
(* the two loops (one iteration per matched pair in clear_market, one per  *)
(* trade in reconcile_due) are one step per iteration.  While such a loop  *)
(* runs (pairs or due is not empty) the lock is held: no other mutation is *)
(* enabled.  A transaction that raises rolls back and leaves no trace, so  *)
(* it is not a step: its condition is a guard.                             *)
(*                                                                         *)
(* Time is counted in 15-minute intervals; a slot t is delivered from t to *)
(* t + 1.  Energy and money are integers: an energy unit is 0.0001 kWh, a  *)
(* price unit 0.0001 INR/kWh, and Paisa of their products make 0.01 INR.   *)
(***************************************************************************)
EXTENDS Integers, Sequences, FiniteSets, Functions

CONSTANTS
    Sites,        \* households: a user, its site, its meter and its grid node
    Prosumers,    \* those with the PROSUMER role
    Founders,     \* registered by bootstrap
    Requests,     \* request ids a client may send with a direct purchase
    Quantities,   \* energies an order may name
    Prices,       \* limit prices and final prices
    Scenarios,    \* of "normal", "cloudy", "congestion", "missing"
    Controls,     \* the operator's controls a run explores, of
                  \* "step", "deliver", "play", "live", "recover", "scenario"
    SlotsPerDay,  \* 96 in the code
    Backfill,     \* slots of history a live start or a late tick records (30 days)
    Surplus,      \* Surplus[<<site, slot>>]: forecast solar minus forecast load
    Profile,      \* Profile[scenario][<<site, slot>>]: what the meter reads
    Paisa,        \* products of energy and price in the journal's 0.01 INR
    Horizon,      \* bound: the clocks stop here
    MaxOrders,    \* bound on orders
    MaxTrades     \* bound on trades

Slots == 0 .. Horizon - 1
Reading == [export : Nat, import : Nat]

ASSUME SitesAssumption ==
    /\ Prosumers \subseteq Sites
    /\ Founders \subseteq Sites

ASSUME TimeAssumption ==
    /\ SlotsPerDay \in Nat \ {0}
    /\ Backfill \in Nat
    /\ Horizon \in Nat
    /\ SlotsPerDay <= Horizon

ASSUME DataAssumption ==
    /\ Quantities \subseteq Nat \ {0}
    /\ Prices \subseteq Nat \ {0}
    /\ Paisa \in Nat \ {0}
    /\ MaxOrders \in Nat
    /\ MaxTrades \in Nat
    /\ Surplus \in [Sites \X Slots -> Int]
    /\ "normal" \in Scenarios
    /\ Profile \in [Scenarios \ {"missing"} -> [Sites \X Slots -> Reading]]

VARIABLES
    clock,        \* Simulation.clock
    wall,         \* the machine's clock, rounded down to an interval
    scenario,     \* Simulation.scenario
    running,      \* Simulation.running: the worker advances the clock
    liveMode,     \* Simulation.live_mode: the worker follows the machine's clock
    seen,         \* the Simulation row the worker's cycle loaded before its lock
    members,      \* registered sites
    forecasts,    \* <<site, day>> with a solar and a load forecast run
    readings,     \* valid telemetry readings, by <<site, slot>>
    orders,       \* rows of orders, in the order of the row lock
    trades,       \* rows of trades, with the final price of price_components
    actions,      \* rows of marketplace_actions
    settlements,  \* rows of settlements, each with its trade allocation
    journal,      \* rows of journal_entries
    receipts,     \* trades with a row in blockchain_receipts
    pairs,        \* clear_market: candidate pairs still to be visited
    left,         \* clear_market: the engine's rem_buys and rem_sells
    round,        \* clear_market: the creation order and the grid verdicts
    due           \* reconcile_due: trades still to be settled

sim       == <<clock, scenario, running, liveMode>>
community == <<members, forecasts, readings>>
market    == <<orders, trades, actions>>
books     == <<settlements, journal, receipts>>
matching  == <<pairs, left, round>>

vars == <<clock, wall, scenario, running, liveMode, seen, members, forecasts, readings,
          orders, trades, actions, settlements, journal, receipts,
          pairs, left, round, due>>

OrderIds == 1 .. Len(orders)
TradeIds == 1 .. Len(trades)

(***************************************************************************)
(* Types.                                                                  *)
(***************************************************************************)
OrderStatus == {"open", "partially_filled", "filled", "cancelled", "rejected"}
TradeStatus == {"committed", "rejected", "settled"}

Order == [site : Sites, side : {"buy", "sell"}, start : Slots, energy : Nat \ {0},
          limit : Nat \ {0}, matched : Nat, status : OrderStatus]

Trade == [buy : Nat, sell : Nat, start : Slots, energy : Nat \ {0}, price : Nat,
          status : TradeStatus]

\* What accept_offer hashes into body_hash, with its key and its outcome.
Action == [user : Sites, request : Requests, offer : Nat, energy : Nat,
           limit : Nat, own : Nat, trade : Nat]

Settlement == [trade : Nat, buyer : Sites, seller : Sites, slot : Slots,
               kwh : Nat, gross : Nat]

Posting == [settlement : Nat, account : Sites, amount : Int]

\* The shape of every variable; no row refers to one that does not exist.
TypeOK ==
    /\ clock \in 0 .. Horizon /\ wall \in 0 .. Horizon
    /\ scenario \in Scenarios
    /\ running \in BOOLEAN /\ liveMode \in BOOLEAN
    /\ seen \subseteq [clock : 0 .. Horizon, scenario : Scenarios, live : BOOLEAN]
    /\ members \subseteq Sites
    /\ forecasts \subseteq Sites \X Nat
    /\ DOMAIN readings \subseteq Sites \X Slots
    /\ readings \in [DOMAIN readings -> Reading]
    /\ orders \in Seq(Order)
    /\ trades \in Seq(Trade)
    /\ actions \subseteq Action
    /\ settlements \in Seq(Settlement)
    /\ journal \in Seq(Posting)
    /\ receipts \subseteq TradeIds
    /\ pairs \subseteq OrderIds \X OrderIds
    /\ pairs # {} => left \in [OrderIds -> Nat]
    /\ due \subseteq TradeIds

(***************************************************************************)
(* Helpers.                                                                *)
(***************************************************************************)
Day(t) == t \div SlotsPerDay
Least(a, b) == IF a <= b THEN a ELSE b
AtLeastZero(n) == IF n > 0 THEN n ELSE 0

\* Nobody holds the row lock.
Idle == pairs = {} /\ due = {}

Active(o) == o.status \in {"open", "partially_filled"}
Remaining(o) == o.energy - o.matched
Opposite(side) == IF side = "buy" THEN "sell" ELSE "buy"

\* Decimal quantize to 0.01: round half to even.
Rounded(x) ==
    LET q == x \div Paisa
        r == x % Paisa
    IN  IF 2 * r > Paisa \/ (2 * r = Paisa /\ q % 2 = 1) THEN q + 1 ELSE q

\* Add readings of scenario sc at keys; a reading that exists is kept, and the
\* "missing" scenario records nothing.
Measure(keys, sc) ==
    [k \in DOMAIN readings \cup (IF sc = "missing" THEN {} ELSE keys) |->
        IF k \in DOMAIN readings THEN readings[k] ELSE Profile[sc][k]]

\* Next-day forecasts are produced once per site and day, and never replaced.
Forecasted(who, now) == forecasts \cup (who \X {Day(now) + 1})

\* Forecast surplus of a site in a slot.
Available(u, t) == AtLeastZero(Surplus[<<u, t>>])

\* Fault: orders that are over hold nothing.
HeldWhileActive(o) == IF Active(o) THEN Remaining(o) ELSE 0

\* Energy of that surplus its sell orders hold: what was matched, and what an
\* active order may still match.
Held(o) == o.matched + (IF Active(o) THEN Remaining(o) ELSE 0)
Offered(u, t) ==
    {o \in OrderIds : orders[o].site = u /\ orders[o].start = t /\ orders[o].side = "sell"}
Reserved(u, t) ==
    SumFunctionOnSet([o \in OrderIds |-> Held(orders[o])], Offered(u, t))

\* validate_grid needs the forecast of every connected site.
WholeFeeder(t) == \A u \in members : <<u, Day(t)>> \in forecasts

-----------------------------------------------------------------------------
(***************************************************************************)
(* Bootstrap: the clock is set to 11:45 of the current day, wherever the   *)
(* machine's clock is, and the founders get history and forecasts.         *)
(***************************************************************************)
Init ==
    /\ clock \in 0 .. SlotsPerDay - 1
    /\ wall \in 0 .. SlotsPerDay - 1
    /\ scenario = "normal"
    /\ running = FALSE
    /\ liveMode = FALSE
    /\ seen = {}
    /\ members = Founders
    /\ forecasts = Founders \X {1}
    /\ readings = [k \in Founders \X (0 .. clock - 1) |-> Profile["normal"][k]]
    /\ orders = <<>>
    /\ trades = <<>>
    /\ actions = {}
    /\ settlements = <<>>
    /\ journal = <<>>
    /\ receipts = {}
    /\ pairs = {}
    /\ left = <<>>
    /\ round = <<>>
    /\ due = {}

\* Fault: no history is recorded.
NoPast(now) == {}

\* Slots of the backfill that ends now.
Past(now) == {t \in Slots : now - Backfill <= t /\ t < now}

(***************************************************************************)
(* Registration of a household (the operator account has no site).         *)
(***************************************************************************)
Register(u) ==
    /\ Idle
    /\ u \notin members
    /\ members' = members \cup {u}
    /\ readings' = Measure({u} \X Past(clock), "normal")
    /\ forecasts' = Forecasted({u}, clock)
    /\ UNCHANGED <<sim, wall, seen, market, books, matching, due>>

(***************************************************************************)
(* Orders.                                                                 *)
(***************************************************************************)
\* Fault: the surplus is checked without the energy already on offer.
MayPlaceUnreserved(u, t, side, q) ==
    /\ Day(t) = Day(clock) + 1
    /\ u \in members
    /\ side = "sell" => u \in Prosumers
    /\ <<u, Day(t)>> \in forecasts
    /\ side = "sell" => q <= Available(u, t)

\* place_order's checks: a slot of tomorrow, the role, a forecast, and for a sell
\* order the forecast surplus that is not yet reserved.
MayPlace(u, t, side, q) ==
    /\ Day(t) = Day(clock) + 1
    /\ u \in members
    /\ side = "sell" => u \in Prosumers
    /\ <<u, Day(t)>> \in forecasts
    /\ side = "sell" => q <= Available(u, t) - Reserved(u, t)

NewOrder(u, t, side, q, p) ==
    [site |-> u, side |-> side, start |-> t, energy |-> q, limit |-> p,
     matched |-> 0, status |-> "open"]

PlaceOrder(u, t, side, q, p) ==
    /\ Idle
    /\ Len(orders) < MaxOrders
    /\ MayPlace(u, t, side, q)
    /\ orders' = Append(orders, NewOrder(u, t, side, q, p))
    /\ UNCHANGED <<sim, wall, seen, community, trades, actions, books, matching, due>>

\* Fault: a partially filled order can be cancelled too.
CancelActiveOrder(o) ==
    /\ Idle
    /\ Active(orders[o])
    /\ orders' = [orders EXCEPT ![o].status = "cancelled"]
    /\ UNCHANGED <<sim, wall, seen, community, trades, actions, books, matching, due>>

CancelOrder(o) ==
    /\ Idle
    /\ orders[o].status = "open"
    /\ orders[o].matched = 0
    /\ orders' = [orders EXCEPT ![o].status = "cancelled"]
    /\ UNCHANGED <<sim, wall, seen, community, trades, actions, books, matching, due>>

(***************************************************************************)
(* Clearing.                                                               *)
(***************************************************************************)
\* Fault: a second fill forgets the first.
FilledAfresh(o, q) ==
    [o EXCEPT !.matched = q,
              !.status = IF q = o.energy THEN "filled" ELSE "partially_filled"]

\* Order o with q more of its energy matched by an accepted trade.
Filled(o, q) ==
    [o EXCEPT !.matched = @ + q,
              !.status = IF o.matched + q = o.energy THEN "filled" ELSE "partially_filled"]

\* The book of orders os after the accepted fill of b and s, or the rejected one.
AfterFill(os, b, s, q) ==
    [o \in DOMAIN os |-> IF o \in {b, s} THEN Filled(os[o], q) ELSE os[o]]

\* Fault: a rejection releases what the order had matched.
AfterRejectReleased(os, b, s) ==
    [o \in DOMAIN os |->
        IF o \in {b, s} THEN [os[o] EXCEPT !.status = "rejected", !.matched = 0] ELSE os[o]]

AfterReject(os, b, s) ==
    [o \in DOMAIN os |-> IF o \in {b, s} THEN [os[o] EXCEPT !.status = "rejected"] ELSE os[o]]

NewTrade(os, b, s, q, price, status) ==
    [buy |-> b, sell |-> s, start |-> os[b].start, energy |-> q, price |-> price,
     status |-> status]

\* The final price is accepted when it suits both sides.
WithinLimits(buy, sell, price) == sell.limit <= price /\ price <= buy.limit

\* Fault: only the seller's limit is checked.
SuitsSeller(p, price) == orders[p[2]].limit <= price

\* clear_market's test of the final price of a pair.
Suits(p, price) == WithinLimits(orders[p[1]], orders[p[2]], price)

\* What the engine may pair: opposite sides of two households in one slot whose
\* limits cross.
Matchable(buy, sell) ==
    /\ buy.side = "buy" /\ sell.side = "sell"
    /\ buy.start = sell.start
    /\ buy.site # sell.site
    /\ sell.limit <= buy.limit

\* Active orders whose slot has not begun.
OpenBook == {o \in OrderIds : Active(orders[o]) /\ orders[o].start > clock}

Candidates == {p \in OpenBook \X OpenBook : Matchable(orders[p[1]], orders[p[2]])}

\* created_at is when the order's transaction began and ids are random: orders
\* whose requests overlapped may sort in any order among equal prices.
CreationOrders ==
    {f \in [OrderIds -> OrderIds] : \A i, j \in OrderIds : i # j => f[i] # f[j]}

\* The order in which the sorted loops of the engine and clear_market visit pairs.
Precedes(x, y) ==
    LET xb == orders[x[1]]  xs == orders[x[2]]
        yb == orders[y[1]]  ys == orders[y[2]]
    IN  \/ xb.start < yb.start
        \/ /\ xb.start = yb.start
           /\ \/ xb.limit > yb.limit
              \/ /\ xb.limit = yb.limit
                 /\ \/ round.created[x[1]] < round.created[y[1]]
                    \/ /\ x[1] = y[1]
                       /\ \/ xs.limit < ys.limit
                          \/ /\ xs.limit = ys.limit
                             /\ round.created[x[2]] < round.created[y[2]]

\* clear_market up to its loop: the book, and one power-flow verdict (SAFE or not)
\* for each slot that has a proposal.  The solver's answer is not modelled.
ClearMarket ==
    /\ Idle
    /\ Candidates # {}
    /\ Len(trades) + Cardinality(Candidates) <= MaxTrades
    /\ \A p \in Candidates : WholeFeeder(orders[p[1]].start)
    /\ pairs' = Candidates
    /\ left' = [o \in OrderIds |-> Remaining(orders[o])]
    /\ \E created \in CreationOrders,
          safe \in [{orders[p[1]].start : p \in Candidates} -> BOOLEAN] :
            round' = [created |-> created, safe |-> safe]
    /\ UNCHANGED <<sim, wall, seen, community, market, books, due>>

\* Fault: the energy left on one side is taken from both.
VisitedUneven(p) ==
    /\ pairs' = pairs \ {p}
    /\ left' = [left EXCEPT ![p[1]] = @ - left[p[2]], ![p[2]] = 0]
    /\ round' = round

\* The pair at the head of the loops leaves it; after the last one the
\* transaction commits.
Visited(p) ==
    /\ pairs' = pairs \ {p}
    /\ IF pairs' = {} THEN left' = <<>> /\ round' = <<>>
       ELSE /\ LET q == Least(left[p[1]], left[p[2]])
               IN  left' = [left EXCEPT ![p[1]] = @ - q, ![p[2]] = @ - q]
            /\ round' = round

\* The engine proposes nothing, or proposes what an earlier rejection voids.
SkipPair(p) ==
    /\ \/ Least(left[p[1]], left[p[2]]) = 0
       \/ orders[p[1]].status = "rejected"
       \/ orders[p[2]].status = "rejected"
    /\ UNCHANGED <<orders, trades>>

\* The engine proposes energy for the pair, and neither order was rejected.
Proposed(p) ==
    /\ Least(left[p[1]], left[p[2]]) > 0
    /\ orders[p[1]].status # "rejected"
    /\ orders[p[2]].status # "rejected"

\* A safe slot and a final price within both limits commit the trade.
CommitFill(p) ==
    LET q == Least(left[p[1]], left[p[2]])
    IN  /\ Proposed(p)
        /\ round.safe[orders[p[1]].start]
        /\ \E price \in Prices :
            /\ Suits(p, price)
            /\ trades' = Append(trades, NewTrade(orders, p[1], p[2], q, price, "committed"))
        /\ orders' = AfterFill(orders, p[1], p[2], q)

\* Otherwise the trade is recorded as rejected, and so are both its orders,
\* whatever they had already matched.
RejectFill(p) ==
    LET q == Least(left[p[1]], left[p[2]])
    IN  /\ Proposed(p)
        /\ \/ ~round.safe[orders[p[1]].start]
           \/ \E price \in Prices : ~Suits(p, price)
        /\ trades' = Append(trades, NewTrade(orders, p[1], p[2], q, 0, "rejected"))
        /\ orders' = AfterReject(orders, p[1], p[2])

MatchNext ==
    \E p \in pairs :
        /\ \A x \in pairs \ {p} : Precedes(p, x)
        /\ SkipPair(p) \/ CommitFill(p) \/ RejectFill(p)
        /\ Visited(p)
        /\ UNCHANGED <<sim, wall, seen, community, actions, books, due>>

(***************************************************************************)
(* Direct purchase: accept_offer.  The counter-order is the caller's own   *)
(* active order, or one placed now; only the two orders are matched, and   *)
(* unless the trade is committed everything rolls back.                    *)
(***************************************************************************)
\* Fault: the offer's remaining energy is not checked.
OfferFitsAny(u, offer, q) ==
    /\ offer \in OpenBook
    /\ orders[offer].site # u

OfferFits(u, offer, q) ==
    /\ offer \in OpenBook
    /\ orders[offer].site # u
    /\ q <= Remaining(orders[offer])

OwnOrderFits(u, own, offer, q) ==
    /\ own \in OrderIds
    /\ orders[own].site = u
    /\ Active(orders[own])
    /\ orders[own].side = Opposite(orders[offer].side)
    /\ orders[own].start = orders[offer].start
    /\ q <= Remaining(orders[own])

\* Fault: the earlier use of a request id is not looked up.
AnyUse(u, r) == TRUE

\* A request id is used once by a household: the same body again returns the
\* trade it made, another body is refused, and neither changes a row.
FirstUse(u, r) == ~\E a \in actions : a.user = u /\ a.request = r

AcceptOffer(u, r, offer, q, p, own) ==
    LET side == Opposite(orders[offer].side)
        os   == IF own = 0
                THEN Append(orders, NewOrder(u, orders[offer].start, side, q, p))
                ELSE orders
        mine == IF own = 0 THEN Len(os) ELSE own
        b    == IF side = "buy" THEN mine ELSE offer
        s    == IF side = "buy" THEN offer ELSE mine
    IN  /\ Idle
        /\ Len(trades) < MaxTrades
        /\ FirstUse(u, r)
        /\ OfferFits(u, offer, q)
        /\ IF own = 0
           THEN Len(orders) < MaxOrders /\ MayPlace(u, orders[offer].start, side, q)
           ELSE OwnOrderFits(u, own, offer, q)
        /\ Matchable(os[b], os[s])
        /\ WholeFeeder(orders[offer].start)
        /\ \E price \in Prices :
            /\ WithinLimits(os[b], os[s], price)
            /\ trades' = Append(trades, NewTrade(os, b, s, q, price, "committed"))
        /\ orders' = AfterFill(os, b, s, q)
        /\ actions' = actions \cup
               {[user |-> u, request |-> r, offer |-> offer, energy |-> q, limit |-> p,
                 own |-> own, trade |-> Len(trades) + 1]}
        /\ UNCHANGED <<sim, wall, seen, community, books, matching, due>>

(***************************************************************************)
(* Delivery and settlement.                                                *)
(***************************************************************************)
MeterOf(o, t) == <<orders[o].site, t>>

\* Fault: a trade stays due after it was settled.
EverEnded(now) == {i \in TradeIds : trades[i].status # "rejected" /\ trades[i].start + 1 <= now}

\* Committed trades whose slot is over at now.
Ended(now) == {i \in TradeIds : trades[i].status = "committed" /\ trades[i].start + 1 <= now}

\* Both households' meters have read the slot of trade i.
Measured(i, measured) ==
    /\ MeterOf(trades[i].sell, trades[i].start) \in DOMAIN measured
    /\ MeterOf(trades[i].buy, trades[i].start) \in DOMAIN measured

\* Those among them that are measured: reconcile_due passes over the rest.
Due(now, measured) == {i \in Ended(now) : Measured(i, measured)}

\* Energy of a seller's export reading, or a buyer's import reading, that
\* earlier allocations hold.
ExportUsed(k) ==
    SumFunctionOnSet([i \in DOMAIN settlements |-> settlements[i].kwh],
                     {i \in DOMAIN settlements : <<settlements[i].seller, settlements[i].slot>> = k})
ImportUsed(k) ==
    SumFunctionOnSet([i \in DOMAIN settlements |-> settlements[i].kwh],
                     {i \in DOMAIN settlements : <<settlements[i].buyer, settlements[i].slot>> = k})

\* Fault: the seller's export is not reduced by earlier allocations.
DeliveredTwice(t) ==
    Least(t.energy,
          Least(readings[MeterOf(t.sell, t.start)].export,
                AtLeastZero(readings[MeterOf(t.buy, t.start)].import
                            - ImportUsed(MeterOf(t.buy, t.start)))))

\* What a trade is delivered: never more than was agreed, than the seller's
\* unallocated export, or than the buyer's unallocated import.
Delivered(t) ==
    LET s == MeterOf(t.sell, t.start)
        b == MeterOf(t.buy, t.start)
    IN  Least(t.energy, Least(AtLeastZero(readings[s].export - ExportUsed(s)),
                              AtLeastZero(readings[b].import - ImportUsed(b))))

\* Fault: the buyer is charged for the energy agreed.
PostingsAsAgreed(n, t, gross) ==
    <<[settlement |-> n, account |-> orders[t.buy].site,
       amount |-> -Rounded(t.energy * t.price)],
      [settlement |-> n, account |-> orders[t.sell].site, amount |-> gross]>>

\* The two entries of a settlement: the buyer's debit and the seller's credit.
Postings(n, t, gross) ==
    <<[settlement |-> n, account |-> orders[t.buy].site,  amount |-> -gross],
      [settlement |-> n, account |-> orders[t.sell].site, amount |-> gross]>>

\* One iteration of reconcile_due.  Trades of one slot are settled by created_at,
\* the start of their transaction, and by random id: in any order here.
ReconcileNext ==
    \E i \in due :
        LET t == trades[i]
            n == Len(settlements) + 1
        IN  /\ \A j \in due : t.start <= trades[j].start
            /\ due' = due \ {i}
            /\ \E kwh \in 0 .. t.energy :
                /\ kwh = Delivered(t)
                /\ settlements' = Append(settlements,
                      [trade |-> i, buyer |-> orders[t.buy].site,
                       seller |-> orders[t.sell].site, slot |-> t.start,
                       kwh |-> kwh, gross |-> Rounded(kwh * t.price)])
                /\ journal' = journal \o Postings(n, t, Rounded(kwh * t.price))
            /\ trades' = [trades EXCEPT ![i].status = "settled"]
            /\ receipts' = receipts \cup {i}
            /\ UNCHANGED <<sim, wall, seen, community, orders, actions, matching>>

\* The clock of a loaded row that reads from moves to now, every member's readings of
\* slots ts are added under sc, and what is due is settled.  A column is written when
\* the value assigned differs from the value that was loaded.
Deliver(from, now, ts, sc) ==
    /\ clock' = IF now = from THEN clock ELSE now
    /\ readings' = Measure(members \X ts, sc)
    /\ due' = Due(now, readings')

\* advance, from the loaded clock to a target of at most two days ahead (a target in
\* the past leaves the clock where it is).
Advance(from, target, sc) ==
    /\ Idle
    /\ target <= Horizon
    /\ target <= from + 2 * SlotsPerDay
    /\ LET now == IF target > from THEN target ELSE from
       IN  /\ Deliver(from, now, from .. now - 1, sc)
           /\ forecasts' = Forecasted(members, now)
    /\ UNCHANGED <<wall, scenario, members, market, books, matching>>

\* The worker's cycle loads the Simulation row to choose what to do; the row lock that
\* tick and advance then take does not refresh the loaded row.
WorkerRead ==
    /\ Idle
    /\ seen = {}
    /\ liveMode \/ (running /\ clock < Horizon)
    /\ seen' = {[clock |-> clock, scenario |-> scenario, live |-> liveMode]}
    /\ UNCHANGED <<sim, wall, community, market, books, matching, due>>

\* The worker's cycle when the simulation plays.
WorkerAdvance ==
    /\ \E row \in seen : ~row.live /\ Advance(row.clock, row.clock + 1, row.scenario)
    /\ seen' = {}
    /\ UNCHANGED <<running, liveMode>>

\* The operator's "step", and "deliver": to the end of the last committed trade.
Step ==
    /\ "step" \in Controls
    /\ Advance(clock, clock + 1, scenario)
    /\ liveMode' = FALSE
    /\ UNCHANGED <<running, seen>>

DeliverTrades ==
    LET committed == {i \in TradeIds : trades[i].status = "committed"}
    IN  /\ "deliver" \in Controls
        /\ \E i \in committed :
            /\ \A j \in committed : trades[j].start <= trades[i].start
            /\ Advance(clock, trades[i].start + 1, scenario)
        /\ liveMode' = FALSE
        /\ UNCHANGED <<running, seen>>

\* The worker's cycle in live mode: the clock follows the machine's, backwards too,
\* and the slots passed since are recorded with the normal profile.
WorkerTick ==
    \E row \in seen :
        LET from == Least(wall, IF row.clock >= wall - Backfill THEN row.clock
                                                                ELSE wall - Backfill)
            ts   == from .. wall - 1
        IN  /\ Idle
            /\ row.live
            /\ Deliver(row.clock, wall, ts, "normal")
            /\ forecasts' = IF ts = {} THEN forecasts ELSE Forecasted(members, wall)
            /\ seen' = {}
            /\ UNCHANGED <<wall, scenario, running, liveMode, members, market, books, matching>>

\* The operator's "live": nothing is settled until the worker's next cycle.
EnableLive ==
    /\ Idle
    /\ "live" \in Controls
    /\ clock' = wall
    /\ liveMode' = TRUE
    /\ running' = FALSE
    /\ scenario' = "normal"
    /\ readings' = Measure(members \X Past(wall), "normal")
    /\ forecasts' = Forecasted(members, wall)
    /\ UNCHANGED <<wall, seen, members, market, books, matching, due>>

\* The operator's "recover": the missing readings of ended trades are replayed.
RecoverMissing ==
    LET keys == UNION {{MeterOf(trades[i].buy, trades[i].start),
                        MeterOf(trades[i].sell, trades[i].start)} : i \in Ended(clock)}
    IN  /\ Idle
        /\ "recover" \in Controls
        /\ readings' = Measure(keys, "normal")
        /\ due' = Due(clock, readings')
        /\ UNCHANGED <<sim, wall, seen, members, forecasts, market, books, matching>>

SetScenario(sc) ==
    /\ Idle
    /\ "scenario" \in Controls
    /\ scenario' = sc
    /\ UNCHANGED <<clock, running, liveMode, wall, seen, community, market, books, matching, due>>

\* The operator's "play" and "pause".
Play(on) ==
    /\ Idle
    /\ "play" \in Controls
    /\ liveMode' = FALSE
    /\ running' = on
    /\ UNCHANGED <<clock, scenario, wall, seen, community, market, books, matching, due>>

\* Only a live community reads the machine's clock.
WallPasses ==
    /\ "live" \in Controls
    /\ wall < Horizon
    /\ wall' = wall + 1
    /\ UNCHANGED <<sim, seen, community, market, books, matching, due>>

-----------------------------------------------------------------------------
Household ==
    \/ \E u \in Sites : Register(u)
    \/ \E u \in Sites, t \in Slots, side \in {"buy", "sell"}, q \in Quantities, p \in Prices :
        PlaceOrder(u, t, side, q, p)
    \/ \E o \in OrderIds : CancelOrder(o)
    \/ \E u \in members, r \in Requests, offer \in OrderIds, q \in Quantities, p \in Prices,
          own \in 0 .. Len(orders) :
        AcceptOffer(u, r, offer, q, p, own)

Operator ==
    \/ ClearMarket
    \/ Step
    \/ DeliverTrades
    \/ EnableLive
    \/ RecoverMissing
    \/ \E sc \in Scenarios : SetScenario(sc)
    \/ \E on \in BOOLEAN : Play(on)

Worker == WorkerRead \/ WorkerAdvance \/ WorkerTick

\* The transaction that holds the lock goes on.
Transaction == MatchNext \/ ReconcileNext

Next == Household \/ Operator \/ Worker \/ Transaction \/ WallPasses

Spec == Init /\ [][Next]_vars

\* Time passes, the worker's loop runs a cycle every five seconds and retries after
\* an exception, and a transaction that holds the lock reaches its commit.
FairSpec ==
    /\ Spec
    /\ WF_vars(WallPasses)
    /\ WF_vars(Worker)
    /\ WF_vars(Transaction)

-----------------------------------------------------------------------------
(***************************************************************************)
(* Properties.                                                             *)
(***************************************************************************)
\* A trade that stands: its energy counts against both its orders.
Stands(t) == t.status \in {"committed", "settled"}

\* The energy agreed by the trades in ids that stand.
Agreed(ids) ==
    SumFunctionOnSet([i \in TradeIds |-> trades[i].energy], {i \in ids : Stands(trades[i])})

\* A household never owes more of a slot than the surplus forecast for it: what the
\* trades that stand sold, and what its active sell orders still offer (place_order's
\* reservation, over every later fill, rejection and cancellation).
ReservedWithinSurplus ==
    \A u \in Sites, t \in Slots :
        Agreed({i \in TradeIds : trades[i].sell \in Offered(u, t)})
            + SumFunctionOnSet([o \in OrderIds |-> Remaining(orders[o])],
                               {o \in Offered(u, t) : Active(orders[o])})
        <= Available(u, t)

\* An order's matched energy is exactly that of the trades that stand on it, and is
\* what its status says; so no cancelled order was ever traded.
FilledByTrades ==
    \A o \in OrderIds :
        /\ orders[o].matched = Agreed({i \in TradeIds : o \in {trades[i].buy, trades[i].sell}})
        /\ orders[o].status \in {"open", "cancelled"} => orders[o].matched = 0
        /\ orders[o].status = "filled" <=> orders[o].matched = orders[o].energy
        /\ orders[o].matched <= orders[o].energy

\* A trade that stands joins a buy and a sell order of two households in one slot,
\* neither cancelled, for no more than either has matched, at a final price within
\* both limits.
TradeTerms ==
    \A i \in TradeIds : Stands(trades[i]) =>
        LET t == trades[i]
        IN  /\ t.buy \in OrderIds /\ t.sell \in OrderIds
            /\ Matchable(orders[t.buy], orders[t.sell])
            /\ t.start = orders[t.buy].start
            /\ WithinLimits(orders[t.buy], orders[t.sell], t.price)
            /\ \A o \in {t.buy, t.sell} :
                /\ orders[o].status # "cancelled"
                /\ t.energy <= orders[o].matched

\* Settlements never allocate more of a meter's reading than it exported or imported,
\* however many trades share the slot.
MeterSpentOnce ==
    \A i \in DOMAIN settlements :
        LET s == <<settlements[i].seller, settlements[i].slot>>
            b == <<settlements[i].buyer, settlements[i].slot>>
        IN  /\ {s, b} \subseteq DOMAIN readings
            /\ ExportUsed(s) <= readings[s].export
            /\ ImportUsed(b) <= readings[b].import

\* A trade is settled once: it has one settlement and one receipt when its status
\* says so, and none before, across retries, late readings and recovery.
SettledOnce ==
    /\ \A i \in TradeIds :
        trades[i].status = "settled" <=> \E n \in DOMAIN settlements : settlements[n].trade = i
    /\ \A m, n \in DOMAIN settlements : settlements[m].trade = settlements[n].trade => m = n
    /\ receipts = {i \in TradeIds : trades[i].status = "settled"}

\* "Signed account postings; sum for each settlement is exactly zero": every
\* settlement has two postings, the debit of its buyer and the credit of its seller,
\* for the energy delivered at the final price.
JournalBalances ==
    /\ Len(journal) = 2 * Len(settlements)
    /\ \A n \in DOMAIN settlements :
        LET debit  == journal[2 * n - 1]
            credit == journal[2 * n]
        IN  /\ debit.settlement = n /\ credit.settlement = n
            /\ debit.account = settlements[n].buyer
            /\ credit.account = settlements[n].seller
            /\ debit.amount + credit.amount = 0
            /\ credit.amount = settlements[n].gross

\* No household pays more for what it received than its limit allows, or is paid
\* less for what it delivered, and no settlement exceeds the energy agreed.
PaidWithinLimits ==
    \A n \in DOMAIN settlements :
        LET m == settlements[n]
            t == trades[m.trade]
        IN  /\ m.kwh <= t.energy
            /\ Rounded(m.kwh * orders[t.sell].limit) <= m.gross
            /\ m.gross <= Rounded(m.kwh * orders[t.buy].limit)

\* "Retries return the same trade and cannot spend twice": a household's request id
\* stands for one trade, made for it with the energy it asked for, from the offer it
\* accepted; no other request stands for that trade.
RequestBuysOnce ==
    /\ \A a, b \in actions :
        (a.user = b.user /\ a.request = b.request) \/ a.trade = b.trade => a = b
    /\ \A a \in actions :
        /\ a.trade \in TradeIds
        /\ Stands(trades[a.trade])
        /\ trades[a.trade].energy = a.energy
        /\ a.offer \in {trades[a.trade].buy, trades[a.trade].sell}
        /\ a.user \in {orders[trades[a.trade].buy].site, orders[trades[a.trade].sell].site}

\* What a step leaves of the past: it changes no reading, settlement, posting or term
\* of a trade, releases no matched energy, and revives no order that is over.
EvidenceKept ==
    /\ \A k \in DOMAIN readings : k \in DOMAIN readings' /\ readings'[k] = readings[k]
    /\ \A n \in DOMAIN settlements : n \in DOMAIN settlements' /\ settlements'[n] = settlements[n]
    /\ \A n \in DOMAIN journal : n \in DOMAIN journal' /\ journal'[n] = journal[n]
    /\ \A i \in TradeIds :
        /\ i \in DOMAIN trades'
        /\ [trades'[i] EXCEPT !.status = trades[i].status] = trades[i]
        /\ trades'[i].status # trades[i].status =>
               trades[i].status = "committed" /\ trades'[i].status = "settled"
    /\ \A o \in OrderIds :
        /\ o \in DOMAIN orders'
        /\ orders'[o].matched >= orders[o].matched
        /\ ~Active(orders[o]) => orders'[o] = orders[o]

\* Evidence is permanent: add_readings, reconcile_due, clear_market and the operator's
\* recovery only ever add to it.
EvidencePermanent == [][EvidenceKept]_vars

\* "When the real 15-minute delivery interval finishes, settlement processes
\* automatically": once the community stays in live mode every committed trade is
\* settled, whatever was skipped or left missing before, without the operator; provided
\* that no cycle of the worker, under way when live mode was entered, still plays on.
LiveSettlement ==
    (<>[]liveMode /\ [](liveMode => \A row \in seen : row.live)) =>
        \A i \in 1 .. MaxTrades :
            (i \in TradeIds /\ trades[i].status = "committed")
                ~> (i \in TradeIds /\ trades[i].status = "settled")

-----------------------------------------------------------------------------
(***************************************************************************)
(* The inductive invariant behind TradeTerms, SettledOnce,                 *)
(* JournalBalances, RequestBuysOnce and EvidencePermanent.                 *)
(***************************************************************************)
\* An order's status agrees with what it has matched.
BookSound ==
    \A o \in OrderIds :
        /\ orders[o].matched <= orders[o].energy
        /\ orders[o].status \in {"open", "cancelled"} => orders[o].matched = 0
        /\ orders[o].status = "filled" <=> orders[o].matched = orders[o].energy

\* While clear_market runs, the engine never has more left of an order than the
\* order itself, and its pairs may be traded.
RoundSound ==
    pairs # {} =>
        /\ \A o \in OrderIds : left[o] <= Remaining(orders[o])
        /\ \A p \in pairs :
            /\ Matchable(orders[p[1]], orders[p[2]])
            /\ orders[p[1]].status # "cancelled"
            /\ orders[p[2]].status # "cancelled"

\* While reconcile_due runs, what it still has to settle is not settled, and measured.
DueSound == \A i \in due : trades[i].status = "committed" /\ Measured(i, readings)

\* Every posted settlement is of a trade and names its orders' households.
SettlementSound == \A n \in DOMAIN settlements : settlements[n].trade \in TradeIds

IInv ==
    /\ TypeOK
    /\ BookSound
    /\ RoundSound
    /\ DueSound
    /\ SettlementSound
    /\ TradeTerms
    /\ SettledOnce
    /\ JournalBalances
    /\ RequestBuysOnce

\* The surplus covers what the sell orders hold, whether traded or still on offer.
HeldWithinSurplus ==
    \A u \in Sites, t \in Slots : Reserved(u, t) <= Available(u, t)

\* A settlement is for no more than its trade's energy, at its final price.
SettledAtPrice ==
    \A n \in DOMAIN settlements :
        LET m == settlements[n]
            t == trades[m.trade]
        IN  m.kwh <= t.energy /\ m.gross = Rounded(m.kwh * t.price)

\* What a step keeps besides IInv, behind FilledByTrades, ReservedWithinSurplus,
\* MeterSpentOnce and PaidWithinLimits.
EnergyInv ==
    /\ FilledByTrades
    /\ HeldWithinSurplus
    /\ MeterSpentOnce
    /\ SettledAtPrice
=============================================================================
