---------------------------- MODULE MarketService ----------------------------
(***************************************************************************)
(* The day-ahead market of the phase services: sessions, orders, matching  *)
(* and clearing (services/market_service.py, repositories/market.py,       *)
(* domain/policies/market_matching.py, clearing_price.py).                 *)
(*                                                                         *)
(* A request runs on a worker in one READ COMMITTED transaction.  It reads *)
(* what it checks without a lock and writes at the end, so requests        *)
(* interleave between their reads and their writes.  An ORM update writes  *)
(* the columns it changed, with values computed from the row it had read.  *)
(* The database adds unique keys, and the lock of an updated row until the *)
(* commit.  Audit events are in AuditChain; here a request may fail.       *)
(*                                                                         *)
(* Prices count in units of PRICE_QUANTUM, and so do the limits.           *)
(***************************************************************************)
EXTENDS Integers, Sequences, FiniteSets, FiniteSetsExt, SequencesExt

CONSTANTS
    Workers,    \* threads that serve requests
    Dates,      \* market dates; a session is known by its date
    Offers,     \* orders that users may place: records of the set Offer
    CanBuy,     \* users that the eligibility policy lets buy
    CanSell,    \* users that it lets sell
    Surplus,    \* Surplus[site]: exportable energy that the forecast shows
    Engine(_)   \* what other implementations of MatchingEngine may return for a book

\* Prices and hours are numbers; "created" is the arrival, which orders equal prices.
Offer == [id : Nat, side : {"buy", "sell"}, user : CanBuy \cup CanSell, site : DOMAIN Surplus,
          kwh : Nat, limit : Nat, from : Nat, to : Nat, date : Dates]

ASSUME MarketAssumption ==
    /\ Offers \subseteq Offer
    /\ \A a \in Offers : \A b \in Offers : a.id = b.id => a = b
    /\ \A s \in DOMAIN Surplus : Surplus[s] \in Nat

VARIABLES
    sessions,  \* sessions[d]: the session of date d
    orders,    \* orders[o]: the row of offer o, for those placed
    trades,    \* the rows of the table trades; "clearing" tells their inserts apart
    request,   \* request[w]: what w is doing
    overlapped \* history: a request began while another was being served

tables == <<sessions, orders, trades>>
vars == <<tables, request, overlapped>>

SessionStatus == {"none", "open", "closed", "cleared"}
OrderStatus == {"open", "partially_filled", "filled", "cancelled"}
Row == [status : OrderStatus, matched : Nat]

Active(row) == row.status \in {"open", "partially_filled"}
Placed == DOMAIN orders
Remaining(o, row) == o.kwh - row.matched

-----------------------------------------------------------------------------
(***************************************************************************)
(* The matching engine, on a book: the orders and what remains of each.    *)
(***************************************************************************)
PricesCross(b, s) == s.limit <= b.limit
Overlap(b, s) == Max({b.from, s.from}) < Min({b.to, s.to})
Suits(b, s) == b.user # s.user /\ PricesCross(b, s) /\ Overlap(b, s)

\* Rounded half up to a quantum.
Midpoint(b, s) == (b.limit + s.limit + 1) \div 2

\* Fault: the trade is for the hours of the buy.
TradeForBuyHours(b, s, q) ==
    [buy |-> b, sell |-> s, kwh |-> q, price |-> Midpoint(b, s), from |-> b.from, to |-> b.to,
     clearing |-> 0]

TradeOf(b, s, q) == [buy |-> b, sell |-> s, kwh |-> q, price |-> Midpoint(b, s),
                     from |-> Max({b.from, s.from}), to |-> Min({b.to, s.to}), clearing |-> 0]

\* Merit order: the best price first, then the earlier arrival.
Better(a, b) ==
    IF a.limit = b.limit THEN a.id < b.id
    ELSE IF a.side = "buy" THEN a.limit > b.limit ELSE a.limit < b.limit

\* Fault: each side is served by arrival.
Arrival(book, side) ==
    SetToSortSeq({o \in DOMAIN book : o.side = side /\ book[o] > 0}, LAMBDA a, b : a.id < b.id)

Merit(book, side) ==
    LET os == {o \in DOMAIN book : o.side = side /\ book[o] > 0}
    IN  CHOOSE s \in [1 .. Cardinality(os) -> os] :
            \A i \in DOMAIN s : \A j \in DOMAIN s : i < j => Better(s[i], s[j])

\* Fault: a buy takes the first sell that suits it, and no other.
PairBuyOnce(acc, b, s) ==
    LET q == Min({acc.left[b], acc.left[s]})
    IN  IF Suits(b, s) /\ q > 0 /\ \A t \in acc.trades : t.buy # b
        THEN [left |-> [acc.left EXCEPT ![b] = @ - q, ![s] = @ - q],
              trades |-> acc.trades \cup {TradeOf(b, s, q)}]
        ELSE acc

\* One pair of the double loop.
Pair(acc, b, s) ==
    LET q == Min({acc.left[b], acc.left[s]})
    IN  IF Suits(b, s) /\ q > 0
        THEN [left |-> [acc.left EXCEPT ![b] = @ - q, ![s] = @ - q],
              trades |-> acc.trades \cup {TradeOf(b, s, q)}]
        ELSE acc

\* The double loop: after[k] is what its first k pairs leave and trade.
Swept(book, buys, sells) ==
    LET n == Len(sells)
        after[k \in 0 .. Len(buys) * n] ==
            IF k = 0 THEN [left |-> book, trades |-> {}]
            ELSE Pair(after[k - 1], buys[((k - 1) \div n) + 1], sells[((k - 1) % n) + 1])
    IN  after[Len(buys) * n]

Baseline(book) == Swept(book, Merit(book, "buy"), Merit(book, "sell")).trades

\* A result is a finite list of trades, of whatever amounts, prices and hours.
ProposedTrade == [buy : Offers, sell : Offers, kwh : Int, price : Int, from : Nat, to : Nat,
                  clearing : {0}]
MatchingResult(ts) == IsFiniteSet(ts) /\ \A t \in ts : t \in ProposedTrade

Proposals(book) == {Baseline(book)} \cup {ts \in Engine(book) : MatchingResult(ts)}

\* The energy that trades agree on for an order.
Filled(o, ts) == SumFunctionOnSet([t \in ts |-> t.kwh], {t \in ts : o \in {t.buy, t.sell}})

\* The service's checks of a result: known orders on their sides, energy above zero, a
\* price that is not below it, a window that is not empty, and no order filled beyond what
\* it has left.
Valid(ts, book) ==
    /\ \A t \in ts : /\ t.buy \in DOMAIN book /\ t.buy.side = "buy"
                     /\ t.sell \in DOMAIN book /\ t.sell.side = "sell"
                     /\ t.kwh > 0 /\ 0 <= t.price
                     /\ t.from < t.to
    /\ \A o \in DOMAIN book : Filled(o, ts) <= book[o]

-----------------------------------------------------------------------------
Free == [op |-> "free"]

Doing(w, op) == request[w].op = op
Serving(w) == ~Doing(w, "free")

Begin(w, r) == /\ request[w] = Free
               /\ request' = [request EXCEPT ![w] = r]
               /\ overlapped' = (overlapped \/ \E v \in Workers : Serving(v))
Go(w, r) == request' = [request EXCEPT ![w] = r] /\ UNCHANGED overlapped

Init ==
    /\ sessions = [d \in Dates |-> "none"]
    /\ orders = [o \in {} |-> Free]
    /\ trades = {}
    /\ request = [w \in Workers |-> Free]
    /\ overlapped = FALSE

-----------------------------------------------------------------------------
(***************************************************************************)
(* Sessions.                                                               *)
(***************************************************************************)
\* A clearing that has flushed its updates holds the row locks of the session and of
\* the orders it fills, until it commits.
Locks(w) == IF Doing(w, "commit")
            THEN {request[w].date} \cup UNION {{t.buy, t.sell} : t \in request[w].result} ELSE {}
LockedByOther(w, x) == \E v \in Workers \ {w} : x \in Locks(v)

OpenCheck(w, d) ==
    /\ sessions[d] = "none"
    /\ Begin(w, [op |-> "open", date |-> d])
    /\ UNCHANGED tables

\* The unique key of date and type refuses a second session.
OpenCommit(w) ==
    /\ Doing(w, "open")
    /\ LET d == request[w].date
       IN  sessions' = [sessions EXCEPT ![d] = IF @ = "none" THEN "open" ELSE @]
    /\ Go(w, Free)
    /\ UNCHANGED <<orders, trades>>

\* Fault: the status is not looked at.
CloseAny(w, d) ==
    /\ sessions[d] # "none"
    /\ Begin(w, [op |-> "close", date |-> d])
    /\ UNCHANGED tables

CloseCheck(w, d) ==
    /\ sessions[d] = "open"
    /\ Begin(w, [op |-> "close", date |-> d])
    /\ UNCHANGED tables

CloseCommit(w) ==
    /\ Doing(w, "close")
    /\ ~LockedByOther(w, request[w].date)
    /\ sessions' = [sessions EXCEPT ![request[w].date] = "closed"]
    /\ Go(w, Free)
    /\ UNCHANGED <<orders, trades>>

-----------------------------------------------------------------------------
(***************************************************************************)
(* Orders.                                                                 *)
(***************************************************************************)
Eligible(o) == o.user \in (IF o.side = "buy" THEN CanBuy ELSE CanSell)
WellShaped(o) == o.kwh > 0 /\ o.from < o.to
BackedBySurplus(o) == o.side = "sell" => o.kwh <= Surplus[o.site]

\* Fault: a closed session still takes orders.
PlaceUntilCleared(w, o) ==
    /\ o \notin Placed
    /\ sessions[o.date] \in {"open", "closed"}
    /\ Eligible(o) /\ WellShaped(o) /\ BackedBySurplus(o)
    /\ Begin(w, [op |-> "place", order |-> o])
    /\ UNCHANGED tables

PlaceCheck(w, o) ==
    /\ o \notin Placed
    /\ sessions[o.date] = "open"
    /\ Eligible(o) /\ WellShaped(o) /\ BackedBySurplus(o)
    /\ Begin(w, [op |-> "place", order |-> o])
    /\ UNCHANGED tables

\* The order, its audit event and the commit.  An offer is placed once.
PlaceCommit(w) ==
    /\ Doing(w, "place")
    /\ LET o == request[w].order
       IN  /\ o \notin Placed
           /\ orders' = [p \in Placed \cup {o} |->
                            IF p = o THEN [status |-> "open", matched |-> 0] ELSE orders[p]]
           /\ Go(w, Free)
    /\ UNCHANGED <<sessions, trades>>

\* Fault: a filled order may be withdrawn.
CancelUnlessCancelled(w, o) ==
    /\ o \in Placed /\ orders[o].status # "cancelled"
    /\ Begin(w, [op |-> "cancel", order |-> o])
    /\ UNCHANGED tables

CancelCheck(w, o) ==
    /\ o \in Placed /\ Active(orders[o])
    /\ Begin(w, [op |-> "cancel", order |-> o])
    /\ UNCHANGED tables

\* Fault: a withdrawn order also gives back its matched energy.
CancelResets(w) ==
    /\ Doing(w, "cancel")
    /\ ~LockedByOther(w, request[w].order)
    /\ orders' = [orders EXCEPT ![request[w].order] = [status |-> "cancelled", matched |-> 0]]
    /\ Go(w, Free)
    /\ UNCHANGED <<sessions, trades>>

CancelCommit(w) ==
    /\ Doing(w, "cancel")
    /\ ~LockedByOther(w, request[w].order)
    /\ orders' = [orders EXCEPT ![request[w].order].status = "cancelled"]
    /\ Go(w, Free)
    /\ UNCHANGED <<sessions, trades>>

-----------------------------------------------------------------------------
(***************************************************************************)
(* Clearing.                                                               *)
(***************************************************************************)
ClearCheck(w, d) ==
    /\ sessions[d] = "closed"
    /\ Begin(w, [op |-> "match", date |-> d])
    /\ UNCHANGED tables

ActiveIn(d) == {o \in Placed : o.date = d /\ Active(orders[o])}
ActiveRows(d) == [o \in ActiveIn(d) |-> orders[o]]

\* What the engine is given: the orders that were read, and what remains of each.
OrderBook(read) == [o \in DOMAIN read |-> Remaining(o, read[o])]

\* build_order_book, match and _validate_result; a result that is not valid ends the
\* request with an error.
Match(w) ==
    /\ Doing(w, "match")
    /\ LET read == ActiveRows(request[w].date)
           book == OrderBook(read)
       IN  \E ts \in Proposals(book) :
             Go(w, IF Valid(ts, book)
                   THEN [op |-> "insert", date |-> request[w].date, read |-> read, result |-> ts]
                   ELSE Free)
    /\ UNCHANGED tables

SameKey(t, u) == t.buy = u.buy /\ t.sell = u.sell /\ t.from = u.from

Inserted(w) == IF request[w].op \in {"update", "commit"} THEN request[w].result ELSE {}

\* Fault: the trades have no unique key.
InsertUnkeyed(w) ==
    /\ Doing(w, "insert")
    /\ LET ts == request[w].result
           rows == ActiveRows(request[w].date)
       IN  Go(w, IF \A t \in ts : {t.buy, t.sell} \subseteq DOMAIN rows
                 THEN [op |-> "update", date |-> request[w].date, read |-> rows, result |-> ts]
                 ELSE Free)
    /\ UNCHANGED tables

\* The active orders are read again, and these rows are the ones to be filled; the trades
\* are flushed.  An order that is gone is a KeyError; a key that is taken refuses the
\* insert, and one that another transaction has inserted makes it wait.
Insert(w) ==
    /\ Doing(w, "insert")
    /\ LET ts == request[w].result
           rows == ActiveRows(request[w].date)
       IN  /\ \A v \in Workers \ {w} : \A t \in ts : \A u \in Inserted(v) : ~SameKey(t, u)
           /\ Go(w, IF /\ \A t \in ts : {t.buy, t.sell} \subseteq DOMAIN rows
                       /\ \A t \in ts : \A u \in trades \cup (ts \ {t}) : ~SameKey(t, u)
                    THEN [op |-> "update", date |-> request[w].date, read |-> rows, result |-> ts]
                    ELSE Free)
    /\ UNCHANGED tables

\* The CHECK matched_within_energy, of rows that are filled.
WithinEnergy(read, ts) == \A o \in DOMAIN read : read[o].matched + Filled(o, ts) <= o.kwh

\* The fills and the session's status are flushed, with the rows' locks.  A fill that the
\* CHECK refuses ends the request: the rows may differ from those the result was checked on.
Update(w) ==
    /\ Doing(w, "update")
    /\ ~LockedByOther(w, request[w].date)
    /\ \A t \in request[w].result : ~LockedByOther(w, t.buy) /\ ~LockedByOther(w, t.sell)
    /\ Go(w, IF WithinEnergy(request[w].read, request[w].result)
             THEN [request[w] EXCEPT !.op = "commit"] ELSE Free)
    /\ UNCHANGED tables

\* Fault: the fill is added once for each side of the trade.
FillPerSide(o, row, kwh) ==
    LET m == row.matched + 2 * kwh
    IN  [status |-> IF m >= o.kwh THEN "filled" ELSE "partially_filled", matched |-> m]

\* The row as it was read, with the fill added.
Fill(o, row, kwh) ==
    LET m == row.matched + kwh
    IN  [status |-> IF m >= o.kwh THEN "filled" ELSE "partially_filled", matched |-> m]

\* The row of a trade, as the n-th insert.
TradeRow(t, n) == [buy |-> t.buy, sell |-> t.sell, kwh |-> t.kwh, price |-> t.price,
                   from |-> t.from, to |-> t.to, clearing |-> n]

ClearCommit(w) ==
    /\ Doing(w, "commit")
    /\ LET ts == request[w].result
           read == request[w].read
           new == {TradeRow(t, Cardinality(trades) + 1) : t \in ts}
       IN  /\ trades' = trades \cup new
           /\ orders' = [o \in Placed |-> IF \E t \in ts : o \in {t.buy, t.sell}
                                          THEN Fill(o, read[o], Filled(o, ts)) ELSE orders[o]]
           /\ sessions' = [sessions EXCEPT ![request[w].date] = "cleared"]
           /\ Go(w, Free)

\* The request fails and its transaction is rolled back.
Fails(w) ==
    /\ Serving(w)
    /\ Go(w, Free)
    /\ UNCHANGED tables

-----------------------------------------------------------------------------
Next == \E w \in Workers :
    \/ \E d \in Dates : OpenCheck(w, d) \/ CloseCheck(w, d) \/ ClearCheck(w, d)
    \/ \E o \in Offers : PlaceCheck(w, o) \/ CancelCheck(w, o)
    \/ OpenCommit(w) \/ CloseCommit(w) \/ PlaceCommit(w) \/ CancelCommit(w)
    \/ Match(w) \/ Insert(w) \/ Update(w) \/ ClearCommit(w) \/ Fails(w)

Spec == Init /\ [][Next]_vars

-----------------------------------------------------------------------------
(***************************************************************************)
(* Properties.                                                             *)
(***************************************************************************)
\* An order's trades add up to what its row says is matched, and to no more than its
\* energy, as long as requests do not overlap: no later clearing and no withdrawal commits
\* the same energy twice, whatever the engine proposes (clear_session, _validate_result,
\* matched_within_energy).
EnergyCommittedOnce ==
    ~overlapped => \A o \in Placed : /\ Filled(o, trades) = orders[o].matched
                                     /\ orders[o].matched <= o.kwh

\* Two clearings never trade the same pair of orders for the same hour
\* (uq_trades_buy_order_id_sell_order_id_delivery_start).
PairTradedOnce == \A t \in trades : \A u \in trades : SameKey(t, u) => t = u

ByBaseline(w) == Doing(w, "insert") /\ request[w].result = Baseline(OrderBook(request[w].read))

Left(w, o) == Remaining(o, request[w].read[o]) - Filled(o, request[w].result)
Book(w) == DOMAIN request[w].read

\* The baseline engine trades within the limits and the hours of both orders and of two
\* users. It leaves no two orders that suit each other with energy left, and trades with
\* none while a better one that suits the other side has some, over any book that earlier
\* and concurrent requests leave (market_matching.py, the merit order and the double loop).
BestFirst ==
    \A w \in Workers : ByBaseline(w) =>
        /\ \A t \in request[w].result :
              /\ t.buy.user # t.sell.user
              /\ t.sell.limit <= t.price /\ t.price <= t.buy.limit
              /\ Max({t.buy.from, t.sell.from}) <= t.from /\ t.to <= Min({t.buy.to, t.sell.to})
              /\ \A o \in Book(w) :
                    /\ o.side = "buy" /\ Better(o, t.buy) /\ Suits(o, t.sell) => Left(w, o) = 0
                    /\ o.side = "sell" /\ Better(o, t.sell) /\ Suits(t.buy, o) => Left(w, o) = 0
        /\ \A b \in Book(w) : \A s \in Book(w) :
              b.side = "buy" /\ s.side = "sell" /\ Suits(b, s) => Left(w, b) = 0 \/ Left(w, s) = 0

Later == [none |-> 0, open |-> 1, closed |-> 2, cleared |-> 3]

\* As long as requests do not overlap a session only moves on, an order that is filled or
\* withdrawn never changes again, and none joins a book whose intake is closed
\* (enums.py, can_clear and is_terminal; close_session; cancel_order).
SessionMovesOn ==
    [][~overlapped' =>
         /\ \A d \in Dates : Later[sessions[d]] <= Later[sessions'[d]]
         /\ \A o \in Placed : ~Active(orders[o]) => orders'[o] = orders[o]
         /\ \A o \in DOMAIN orders' \ Placed : sessions[o.date] = "open"]_vars
=============================================================================
