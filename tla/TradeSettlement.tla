--------------------------- MODULE TradeSettlement ---------------------------
(***************************************************************************)
(* What becomes of one trade of the phase services: its price breakdowns   *)
(* (services/pricing_service.py), the comparison of what its seller         *)
(* delivered with what was agreed, and its settlements                     *)
(* (services/settlement_service.py, domain/policies/settlement.py).        *)
(*                                                                         *)
(* Requests run at once, each in a READ COMMITTED transaction: it reads    *)
(* what it needs, stamps its rows, and commits them.  The audit events of  *)
(* a transaction all follow one chain, so of the requests that have        *)
(* recorded one only one can commit; AuditChain shows that.  Here the      *)
(* transaction with recorded events holds the chain, and another one can   *)
(* wait for it or fail.                                                    *)
(*                                                                         *)
(* Amounts are in paise.  Unit is a paisa in units of energy times price;  *)
(* the columns hold 0.0001 kWh and 0.0001 INR per kWh, so it is 1000000.   *)
(***************************************************************************)
EXTENDS Integers, Sequences, FiniteSets, FiniteSetsExt, SequencesExt, TLC

CONSTANTS
    Workers,     \* threads that serve requests
    Committed,   \* the energy that was traded
    Hours,       \* the hours of the delivery window: 1 .. Hours
    Delivered,   \* Delivered[h]: what the seller's meter records for hour h, the next one too
    Price,       \* Price[v]: the breakdown's final price, given the grid verdict v
    Unit,        \* the product of energy and price that is one paisa
    Policy,      \* tolerance, fee and multiplier of the settlement policy, in percent
    Judgements,  \* verdicts that validation runs reach
    Requests,    \* kinds of requests made: "price", "reconcile", "settle"
    MaxRows,     \* rows of each table, a bound of the model
    MaxStamp,    \* stamps given, a bound of the model
    None

Verdicts == {"safe", "unsafe", "unknown"}

ASSUME SettlementAssumption ==
    /\ Committed \in Nat \ {0} /\ Unit \in Nat \ {0} /\ Hours \in Nat \ {0}
    /\ Delivered \in [1 .. Hours + 1 -> Nat] /\ Price \in [Verdicts -> Nat]
    /\ Policy \in [tolerance : 0 .. 99, fee : 0 .. 99, multiplier : Nat]
    /\ Judgements \subseteq Verdicts /\ Requests \subseteq {"price", "reconcile", "settle"}
    /\ IsFiniteSet(Workers) /\ None \notin Workers

VARIABLES
    passed,       \* hours that are over since the delivery window began
    meter,        \* hours with a valid reading
    verdict,      \* the status of the latest validation run of the trade, or None
    prices,       \* price_components: the breakdowns, in commit order
    comparisons,  \* meter_reconciliations, in commit order
    settlements,  \* settlements, in commit order
    holder,       \* the transaction that has recorded audit events, or None
    request       \* request[w]: what w is doing

tables == <<prices, comparisons, settlements>>
vars == <<passed, meter, verdict, tables, holder, request>>

-----------------------------------------------------------------------------
(***************************************************************************)
(* The settlement policy.                                                  *)
(***************************************************************************)
HalfUp(n, d) == (2 * n + d) \div (2 * d)

\* Paise for an amount of energy at a price.
Amount(kwh, price) == HalfUp(kwh * price, Unit)

Size(x) == IF x < 0 THEN -x ELSE x

\* telemetry_service's valid readings, summed; None when there are none.  The window is closed
\* on timestamps, so the reading that starts as it ends, of hour Hours + 1, is in the sum.
Measured(hours) == IF hours = {} THEN None ELSE SumFunctionOnSet(Delivered, hours)

Within(actual) == 100 * Size(actual - Committed) <= Policy.tolerance * Committed

\* Fault: any deviation is balanced.
BalanceDeviation(actual) == IF Within(actual) THEN 0 ELSE Size(actual - Committed)

\* Only a shortfall beyond the tolerance is balanced.
Balancing(actual) == IF Within(actual) THEN 0 ELSE Max({Committed - actual, 0})

\* Fault: a window without readings is settled as one without delivery.
CompareMissingAsZero(actual) ==
    LET known == IF actual = None THEN 0 ELSE actual
    IN  [actual |-> known, settled |-> Min({Committed, known}), balancing |-> Balancing(known),
         status |-> "reconciled"]

Compare(actual) ==
    IF actual = None
    THEN [actual |-> None, settled |-> None, balancing |-> 0, status |-> "awaiting_telemetry"]
    ELSE [actual |-> actual, settled |-> Min({Committed, actual}), balancing |-> Balancing(actual),
          status |-> "reconciled"]

\* Fault: the fee and the charge are rounded together.
AccountTogether(c, price) ==
    LET gross  == Amount(c.settled, price)
        credit == HalfUp(100 * gross - gross * Policy.fee, 100) - Amount(c.balancing, price)
    IN  [kwh |-> c.settled, gross |-> gross, fee |-> (gross * Policy.fee) \div 100,
         charge |-> Amount(c.balancing, price), debit |-> gross, credit |-> credit]

\* StandardSettlementCalculator.settle: the buyer pays for what was delivered, and the
\* seller gets that less the fee and the charge.
Account(c, price) ==
    LET gross  == Amount(c.settled, price)
        fee    == HalfUp(gross * Policy.fee, 100)
        charge == HalfUp(c.balancing * price * Policy.multiplier, 100 * Unit)
    IN  [kwh |-> c.settled, gross |-> gross, fee |-> fee, charge |-> charge,
         debit |-> gross, credit |-> gross - fee - charge]

-----------------------------------------------------------------------------
Free == [op |-> "free"]
Go(w, r) == request' = [request EXCEPT ![w] = r]
Doing(w, op) == request[w].op = op
Room(rows) == Len(rows) < MaxRows

Init ==
    /\ passed = 0
    /\ meter = {}
    /\ verdict = None
    /\ prices = <<>> /\ comparisons = <<>> /\ settlements = <<>>
    /\ holder = None
    /\ request = [w \in Workers |-> Free]

\* An hour ends.
HourPasses ==
    /\ passed <= Hours
    /\ passed' = passed + 1
    /\ UNCHANGED <<meter, verdict, tables, holder, request>>

\* A reading of an hour that is over arrives, in any order or never.
ReadingArrives(h) ==
    /\ h <= passed /\ h \notin meter
    /\ meter' = meter \cup {h}
    /\ UNCHANGED <<passed, verdict, tables, holder, request>>

\* The trade is validated; the new run is the latest.
Validated(v) ==
    /\ verdict # v
    /\ verdict' = v
    /\ UNCHANGED <<passed, meter, tables, holder, request>>

\* The stamps of rows grow, whichever order their transactions commit in.
Stamps == {prices[i].at : i \in DOMAIN prices}
          \cup {request[w].at : w \in {v \in Workers : Doing(v, "insert")}}
NextStamp == Max(Stamps \cup {0}) + 1

-----------------------------------------------------------------------------
(***************************************************************************)
(* Pricing.                                                                *)
(***************************************************************************)
\* _grid_state: a trade that was never validated is unknown.
GridState == IF verdict = None THEN "unknown" ELSE verdict

\* price_trade: the request is built and quoted.
PriceTrade(w) ==
    /\ request[w] = Free /\ "price" \in Requests /\ Room(prices) /\ NextStamp <= MaxStamp
    /\ Go(w, [op |-> "stamp", price |-> Price[GridState]])
    /\ UNCHANGED <<passed, meter, verdict, tables, holder>>

\* The breakdown is stamped from the clock; what it was quoted from may be older than what a
\* breakdown with an earlier stamp was quoted from.
Stamp(w) ==
    /\ Doing(w, "stamp") /\ NextStamp <= MaxStamp
    /\ Go(w, [op |-> "insert", price |-> request[w].price, at |-> NextStamp])
    /\ UNCHANGED <<passed, meter, verdict, tables, holder>>

\* The row, its audit event and the commit.
PriceCommit(w) ==
    /\ Doing(w, "insert") /\ holder = None /\ Room(prices)
    /\ prices' = Append(prices, [price |-> request[w].price, at |-> request[w].at])
    /\ Go(w, Free)
    /\ UNCHANGED <<passed, meter, verdict, comparisons, settlements, holder>>

\* Fault: the first breakdown.
FirstBreakdown == prices[1]

\* get_breakdown: the one with the latest stamp.
Breakdown == CHOOSE p \in ToSet(prices) : \A q \in ToSet(prices) : q.at <= p.at

-----------------------------------------------------------------------------
(***************************************************************************)
(* Reconciliation and settlement.                                          *)
(***************************************************************************)
\* build_request reads the price, and then the meter.  A trade that has no breakdown is
\* refused.
ReadPrice(w, for) ==
    /\ request[w] = Free /\ for \in Requests \cap {"reconcile", "settle"}
    /\ Room(comparisons) /\ Room(settlements)
    /\ prices # <<>>
    /\ Go(w, [op |-> "measure", for |-> for, breakdown |-> Breakdown, priced |-> Len(prices)])
    /\ UNCHANGED <<passed, meter, verdict, tables, holder>>

Calculate(w) ==
    /\ Doing(w, "measure")
    /\ LET r == request[w]
       IN  Go(w, [op |-> "compare", for |-> r.for, breakdown |-> r.breakdown, priced |-> r.priced,
                  outcome |-> Compare(Measured(meter)), hours |-> meter, standing |-> {}])
    /\ UNCHANGED <<passed, meter, verdict, tables, holder>>

\* Fault: the comparison is recorded without an audit event.
RecordUnaudited(w) ==
    /\ Doing(w, "compare")
    /\ Go(w, [request[w] EXCEPT !.op = IF request[w].for = "settle"
                                          /\ request[w].outcome.status = "reconciled"
                                       THEN "supersede" ELSE "conclude"])
    /\ UNCHANGED <<passed, meter, verdict, tables, holder>>

\* _record_reconciliation: the row and its audit event are flushed.  _validate_result
\* always accepts what Account computes.
RecordReconciliation(w) ==
    /\ Doing(w, "compare") /\ holder = None
    /\ holder' = w
    /\ Go(w, [request[w] EXCEPT !.op = IF request[w].for = "settle"
                                          /\ request[w].outcome.status = "reconciled"
                                       THEN "supersede" ELSE "conclude"])
    /\ UNCHANGED <<passed, meter, verdict, tables>>

Comparison(w) == [actual |-> request[w].outcome.actual, hours |-> request[w].hours,
                  status |-> request[w].outcome.status]

\* reconcile_trade commits the comparison; so does settle_trade when nothing is measured,
\* and then refuses.
Conclude(w) ==
    /\ Doing(w, "conclude") /\ Room(comparisons)
    /\ comparisons' = Append(comparisons, Comparison(w))
    /\ holder' = None
    /\ Go(w, Free)
    /\ UNCHANGED <<passed, meter, verdict, prices, settlements>>

\* settle_trade lists the settlements that stand, to supersede them.
Supersede(w) ==
    /\ Doing(w, "supersede")
    /\ Go(w, [request[w] EXCEPT !.op = "commit",
                !.standing = {i \in DOMAIN settlements : settlements[i].status = "settled"}])
    /\ UNCHANGED <<passed, meter, verdict, tables, holder>>

\* The row of a settlement, as it is inserted.  It keeps, for the properties, the hours that
\* were summed and how many breakdowns there were.
SettlementRow(r) ==
    LET a == Account(r.outcome, r.breakdown.price)
    IN  [status |-> "settled", price |-> r.breakdown, actual |-> r.outcome.actual,
         kwh |-> a.kwh, gross |-> a.gross, fee |-> a.fee, charge |-> a.charge,
         debit |-> a.debit, credit |-> a.credit, hours |-> r.hours, priced |-> r.priced]

\* The rows are flushed with the settlement's audit event, and committed.
SettleCommit(w) ==
    /\ Doing(w, "commit") /\ holder \in {w, None} /\ Room(comparisons)
    /\ settlements' = Append([i \in DOMAIN settlements |->
                                  IF i \in request[w].standing
                                  THEN [settlements[i] EXCEPT !.status = "superseded"]
                                  ELSE settlements[i]], SettlementRow(request[w]))
    /\ comparisons' = Append(comparisons, Comparison(w))
    /\ holder' = None
    /\ Go(w, Free)
    /\ UNCHANGED <<passed, meter, verdict, prices>>

\* A request fails, and its transaction is rolled back.
Fails(w) ==
    /\ request[w] # Free
    /\ holder' = IF holder = w THEN None ELSE holder
    /\ Go(w, Free)
    /\ UNCHANGED <<passed, meter, verdict, tables>>

Next ==
    \/ HourPasses
    \/ \E h \in 1 .. Hours + 1 : ReadingArrives(h)
    \/ \E v \in Judgements : Validated(v)
    \/ \E w \in Workers :
         \/ PriceTrade(w) \/ Stamp(w) \/ PriceCommit(w)
         \/ \E for \in {"reconcile", "settle"} : ReadPrice(w, for)
         \/ Calculate(w) \/ RecordReconciliation(w) \/ Conclude(w)
         \/ Supersede(w) \/ SettleCommit(w) \/ Fails(w)

Spec == Init /\ [][Next]_vars

-----------------------------------------------------------------------------
(***************************************************************************)
(* Properties.                                                             *)
(***************************************************************************)
\* Of a trade's settlements the last one stands and all others are superseded, whatever
\* settles at once (settle_trade).
OneStands ==
    \A i \in DOMAIN settlements :
        settlements[i].status = IF i = Len(settlements) THEN "settled" ELSE "superseded"

\* The two sides of a settlement differ by what the platform retains, to the paisa; the buyer
\* never pays for more than was agreed; delivering more never earns a seller less; and what
\* was not measured is never settled, not even as zero (ledger_balances, reconcile,
\* StandardSettlementCalculator).
LedgerBalances ==
    \A i \in DOMAIN settlements :
        LET s == settlements[i]
        IN  /\ s.hours # {}
            /\ s.debit = s.credit + s.fee + s.charge
            /\ s.debit <= Amount(Committed, s.price.price)
            /\ \A j \in DOMAIN settlements :
                  /\ s.price.price = settlements[j].price.price
                  /\ s.actual <= settlements[j].actual
                  => s.credit <= settlements[j].credit

\* A settlement pays no breakdown older than one that was committed before it began, in
\* whatever order breakdowns were stamped and committed (get_breakdown; price_trade: "the
\* price settlement pays against").
PaysCurrentPrice ==
    \A i \in DOMAIN settlements : \A k \in 1 .. settlements[i].priced :
        prices[k].at <= settlements[i].price.at
=============================================================================
