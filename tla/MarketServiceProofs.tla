------------------------ MODULE MarketServiceProofs ------------------------
(***************************************************************************)
(* Proofs, for any workers, dates, offers and engines.                     *)
(*                                                                         *)
(* Two clearings never trade the same pair of orders for the same hour.    *)
(* This rests on KeyInv: the rows that open transactions have inserted     *)
(* differ in their keys from each other and from the committed ones.       *)
(*                                                                         *)
(* As long as requests do not overlap, sessions and orders only move on.   *)
(* This rests on TurnInv: only one request is being served, so what it     *)
(* checked when it began still holds when it writes.                       *)
(*                                                                         *)
(* The baseline engine serves the best orders first, over every book that  *)
(* a run of the market can produce.  The merit order exists because ranks  *)
(* order the offers of a side, the double loop visits each pair of a buy   *)
(* and a sell once, a better order before a worse one, and SweptOK says    *)
(* what holds after each pair.  RowInv is what it needs of the state.      *)
(*                                                                         *)
(* As long as requests do not overlap, an order's trades add up to what    *)
(* its row says is matched.  EnergyInv adds to the three that the rows a   *)
(* clearing has read are still those of the table.                         *)
(***************************************************************************)
EXTENDS MarketService, ArithmeticTheorems

Requested == DOMAIN request = Workers /\ request = [w \in Workers |-> request[w]]

\* A clearing keeps the book that it read and the trades that it proposes.
ClearingOK(r) ==
    r.op \in {"insert", "update", "commit"} =>
        r = [op |-> r.op, date |-> r.date, read |-> r.read, result |-> r.result]

OnePerKey(ts) == \A t \in ts : \A u \in ts : SameKey(t, u) => t = u
Apart(ts, us) == \A t \in ts : \A u \in us : ~SameKey(t, u)

KeyInv ==
    /\ Requested
    /\ \A w \in Workers : ClearingOK(request[w])
    /\ PairTradedOnce
    /\ \A w \in Workers : OnePerKey(Inserted(w)) /\ Apart(Inserted(w), trades)
    /\ \A v \in Workers : \A w \in Workers \ {v} : Apart(Inserted(v), Inserted(w))

-----------------------------------------------------------------------------
(***************************************************************************)
(* Keys.                                                                   *)
(***************************************************************************)
\* The request of one worker is replaced.
LEMMA Put ==
    ASSUME Requested, NEW w \in Workers, NEW r, request' = [request EXCEPT ![w] = r]
    PROVE  /\ Requested' /\ request'[w] = r
           /\ \A v \in Workers \ {w} : request'[v] = request[v]
           /\ \A v \in Workers \ {w} : Inserted(v)' = Inserted(v)
  BY DEF Requested, Inserted

\* A step that inserts and commits no trade keeps the keys apart.
LEMMA QuietKeys ==
    ASSUME KeyInv, NEW w \in Workers, NEW r, request' = [request EXCEPT ![w] = r],
           ClearingOK(r), r.op \notin {"update", "commit"}, trades' = trades
    PROVE  KeyInv'
  <1>1. /\ Requested' /\ request'[w] = r
        /\ \A v \in Workers \ {w} : request'[v] = request[v] /\ Inserted(v)' = Inserted(v)
    BY Put DEF KeyInv
  <1>2. Inserted(w)' = {}
    BY <1>1 DEF Inserted
  <1>3. \A v \in Workers : Inserted(v)' \subseteq Inserted(v)
    BY <1>1, <1>2
  <1>4. \A v \in Workers : ClearingOK(request[v])'
    BY <1>1 DEF KeyInv, ClearingOK
  <1>5. PairTradedOnce'
    BY DEF KeyInv, PairTradedOnce, SameKey
  <1>6. \A v \in Workers : OnePerKey(Inserted(v))' /\ Apart(Inserted(v), trades)'
    BY <1>3 DEF KeyInv, OnePerKey, Apart, SameKey
  <1>7. \A v \in Workers : \A u \in Workers \ {v} : Apart(Inserted(v), Inserted(u))'
    BY <1>3 DEF KeyInv, Apart, SameKey
  <1>8. QED
    BY <1>1, <1>4, <1>5, <1>6, <1>7 DEF KeyInv

\* The insert finds its keys free, among the committed trades and in other transactions.
LEMMA InsertKeys ==
    ASSUME KeyInv, NEW w \in Workers, Insert(w)
    PROVE  KeyInv'
  <1> DEFINE ts == request[w].result
             rows == ActiveRows(request[w].date)
             r  == [op |-> "update", date |-> request[w].date, read |-> rows, result |-> ts]
  <1>1. /\ ClearingOK(request[w]) /\ request[w].op = "insert" /\ trades' = trades
        /\ \A v \in Workers \ {w} : \A t \in ts : \A u \in Inserted(v) : ~SameKey(t, u)
    BY DEF KeyInv, Insert, Doing, tables
  <1>2. /\ r = [op |-> "update", date |-> request[w].date, read |-> rows, result |-> ts]
        /\ r.op = "update" /\ r.result = ts /\ ClearingOK(r)
    BY DEF ClearingOK
  <1>3. CASE request' = [request EXCEPT ![w] = Free]
    BY <1>1, <1>3, QuietKeys DEF Free, ClearingOK
  <1>4. CASE /\ request' = [request EXCEPT ![w] = r]
             /\ \A t \in ts : \A u \in trades \cup (ts \ {t}) : ~SameKey(t, u)
    <2>1. /\ Requested' /\ request'[w] = r
          /\ \A v \in Workers \ {w} : request'[v] = request[v] /\ Inserted(v)' = Inserted(v)
      BY <1>4, Put DEF KeyInv
    <2>2. Inserted(w)' = ts
      BY <1>2, <2>1 DEF Inserted
    <2>3. OnePerKey(ts) /\ Apart(ts, trades)
      BY <1>4 DEF OnePerKey, Apart
    <2>4. \A v \in Workers \ {w} : Apart(ts, Inserted(v)) /\ Apart(Inserted(v), ts)
      BY <1>1 DEF Apart, SameKey
    <2>5. \A v \in Workers : ClearingOK(request[v])'
      BY <1>2, <2>1 DEF KeyInv, ClearingOK
    <2>6. PairTradedOnce'
      BY <1>1 DEF KeyInv, PairTradedOnce, SameKey
    <2>7. \A v \in Workers : OnePerKey(Inserted(v))' /\ Apart(Inserted(v), trades)'
      BY <1>1, <2>1, <2>2, <2>3 DEF KeyInv, OnePerKey, Apart, SameKey
    <2>8. \A v \in Workers : \A u \in Workers \ {v} : Apart(Inserted(v), Inserted(u))'
      BY <2>1, <2>2, <2>4 DEF KeyInv, Apart, SameKey
    <2>9. QED
      BY <2>1, <2>5, <2>6, <2>7, <2>8 DEF KeyInv
  <1>5. QED
    BY <1>3, <1>4 DEF Insert, Go

\* The update takes locks, and leaves what is inserted.
LEMMA UpdateKeys ==
    ASSUME KeyInv, NEW w \in Workers, Update(w)
    PROVE  KeyInv'
  <1> DEFINE r == [request[w] EXCEPT !.op = "commit"]
  <1>1. /\ ClearingOK(request[w]) /\ request[w].op = "update" /\ trades' = trades
        /\ \/ request' = [request EXCEPT ![w] = r]
           \/ request' = [request EXCEPT ![w] = Free]
    BY DEF KeyInv, Update, Doing, Go, tables
  <1>2. r.op = "commit" /\ r.result = request[w].result /\ ClearingOK(r)
    BY <1>1 DEF ClearingOK
  <1>3. CASE request' = [request EXCEPT ![w] = r]
    <2>1. /\ Requested' /\ request'[w] = r
          /\ \A v \in Workers \ {w} : request'[v] = request[v] /\ Inserted(v)' = Inserted(v)
      BY <1>3, Put DEF KeyInv
    <2>2. \A v \in Workers : Inserted(v)' = Inserted(v)
      BY <1>1, <1>2, <2>1 DEF Inserted
    <2>3. \A v \in Workers : ClearingOK(request[v])'
      BY <1>2, <2>1 DEF KeyInv, ClearingOK
    <2>4. QED
      BY <1>1, <2>1, <2>2, <2>3 DEF KeyInv, PairTradedOnce, OnePerKey, Apart, SameKey
  <1>4. CASE request' = [request EXCEPT ![w] = Free]
    BY <1>1, <1>4, QuietKeys DEF Free, ClearingOK
  <1>5. QED
    BY <1>1, <1>3, <1>4

\* The commit makes the inserted rows part of the table; their keys were apart from it.
LEMMA CommitKeys ==
    ASSUME KeyInv, NEW w \in Workers, ClearCommit(w)
    PROVE  KeyInv'
  <1> DEFINE ts  == request[w].result
             n   == Cardinality(trades) + 1
             new == {TradeRow(t, n) : t \in ts}
  <1>1. /\ Inserted(w) = ts /\ trades' = trades \cup new
        /\ request' = [request EXCEPT ![w] = Free]
    BY DEF ClearCommit, Doing, Go, Inserted
  <1>2. /\ Requested' /\ request'[w] = Free
        /\ \A v \in Workers \ {w} : request'[v] = request[v] /\ Inserted(v)' = Inserted(v)
    BY <1>1, Put DEF KeyInv
  <1>3. Inserted(w)' = {}
    BY <1>2 DEF Inserted, Free
  <1>4. \A t \in ts : \A u : /\ SameKey(TradeRow(t, n), u) <=> SameKey(t, u)
                             /\ SameKey(u, TradeRow(t, n)) <=> SameKey(u, t)
    BY DEF SameKey, TradeRow
  <1>5. OnePerKey(ts) /\ Apart(ts, trades) /\ \A v \in Workers \ {w} : Apart(Inserted(v), ts)
    BY <1>1 DEF KeyInv
  <1>6. PairTradedOnce'
    <2> SUFFICES ASSUME NEW t \in trades', NEW u \in trades', SameKey(t, u)
                 PROVE  t = u
      BY DEF PairTradedOnce, SameKey
    <2>1. CASE t \in trades /\ u \in trades
      BY <2>1 DEF KeyInv, PairTradedOnce
    <2>2. CASE t \in new /\ u \in new
      <3>1. PICK a \in ts : t = TradeRow(a, n)
        BY <2>2
      <3>2. PICK b \in ts : u = TradeRow(b, n)
        BY <2>2
      <3>3. SameKey(a, b)
        BY <1>4, <3>1, <3>2
      <3>4. QED
        BY <1>5, <3>1, <3>2, <3>3 DEF OnePerKey
    <2>3. CASE t \in new /\ u \in trades
      <3>1. PICK a \in ts : t = TradeRow(a, n)
        BY <2>3
      <3>2. QED
        BY <1>4, <1>5, <2>3, <3>1 DEF Apart
    <2>4. CASE t \in trades /\ u \in new
      <3>1. PICK b \in ts : u = TradeRow(b, n)
        BY <2>4
      <3>2. SameKey(b, t)
        BY <1>4, <3>1 DEF SameKey
      <3>3. QED
        BY <1>5, <2>4, <3>2 DEF Apart
    <2>5. QED
      BY <1>1, <2>1, <2>2, <2>3, <2>4
  <1>7. \A v \in Workers \ {w} : Apart(Inserted(v), new)
    BY <1>4, <1>5 DEF Apart
  <1>8. \A v \in Workers : OnePerKey(Inserted(v))' /\ Apart(Inserted(v), trades)'
    BY <1>1, <1>2, <1>3, <1>7 DEF KeyInv, OnePerKey, Apart, SameKey
  <1>9. \A v \in Workers : \A u \in Workers \ {v} : Apart(Inserted(v), Inserted(u))'
    BY <1>2, <1>3 DEF KeyInv, Apart, SameKey
  <1>10. \A v \in Workers : ClearingOK(request[v])'
    BY <1>2 DEF KeyInv, ClearingOK, Free
  <1>11. QED
    BY <1>2, <1>6, <1>8, <1>9, <1>10 DEF KeyInv

LEMMA KeysKept == KeyInv /\ [Next]_vars => KeyInv'
  <1> SUFFICES ASSUME KeyInv, [Next]_vars
               PROVE  KeyInv'
    OBVIOUS
  <1>1. CASE UNCHANGED vars
    BY <1>1 DEF vars, tables, KeyInv, Requested, ClearingOK, PairTradedOnce, OnePerKey, Apart,
                SameKey, Inserted
  <1>2. ASSUME NEW w \in Workers, NEW d \in Dates,
               OpenCheck(w, d) \/ CloseCheck(w, d) \/ ClearCheck(w, d)
        PROVE  KeyInv'
    BY <1>2, QuietKeys DEF OpenCheck, CloseCheck, ClearCheck, Begin, ClearingOK, tables
  <1>3. ASSUME NEW w \in Workers, NEW o \in Offers, PlaceCheck(w, o) \/ CancelCheck(w, o)
        PROVE  KeyInv'
    BY <1>3, QuietKeys DEF PlaceCheck, CancelCheck, Begin, ClearingOK, tables
  <1>4. ASSUME NEW w \in Workers,
               OpenCommit(w) \/ CloseCommit(w) \/ PlaceCommit(w) \/ CancelCommit(w) \/ Fails(w)
        PROVE  KeyInv'
    <2>1. request' = [request EXCEPT ![w] = Free] /\ trades' = trades
      BY <1>4 DEF OpenCommit, CloseCommit, PlaceCommit, CancelCommit, Fails, Go, tables
    <2>2. QED
      BY <2>1, QuietKeys DEF Free, ClearingOK
  <1>5. ASSUME NEW w \in Workers, Match(w)
        PROVE  KeyInv'
    <2>1. PICK read, ts :
            request' = [request EXCEPT ![w] =
                          [op |-> "insert", date |-> request[w].date, read |-> read, result |-> ts]]
            \/ request' = [request EXCEPT ![w] = Free]
      BY <1>5 DEF Match, Go
    <2>2. trades' = trades
      BY <1>5 DEF Match, tables
    <2>3. QED
      BY <2>1, <2>2, QuietKeys DEF Free, ClearingOK
  <1>6. QED
    BY <1>1, <1>2, <1>3, <1>4, <1>5, InsertKeys, UpdateKeys, CommitKeys DEF Next

\* Whatever clearings meet, and whatever the engine proposes, no two trades have the same
\* buy, sell and start of delivery (uq_trades_buy_order_id_sell_order_id_delivery_start).
THEOREM PairsTradedOnce == Spec => []PairTradedOnce
  <1>1. Init => KeyInv
    BY DEF Init, KeyInv, Requested, ClearingOK, Free, PairTradedOnce, OnePerKey, Apart, Inserted
  <1>2. KeyInv => PairTradedOnce
    BY DEF KeyInv
  <1>3. QED
    BY <1>1, <1>2, KeysKept, PTL DEF Spec

-----------------------------------------------------------------------------
(***************************************************************************)
(* Requests that are served one after the other.                           *)
(***************************************************************************)
\* What a request checked when it began.
Holds(r) ==
    /\ r.op = "open" => r.date \in Dates
    /\ r.op = "close" => r.date \in Dates /\ sessions[r.date] = "open"
    /\ r.op = "place" => r.order \notin Placed /\ sessions[r.order.date] = "open"
    /\ r.op = "cancel" => r.order \in Placed /\ Active(orders[r.order])
    /\ r.op \in {"match", "insert", "update", "commit"} =>
          r.date \in Dates /\ sessions[r.date] = "closed"
    /\ r.op \in {"update", "commit"} =>
          \A t \in r.result : {t.buy, t.sell} \subseteq ActiveIn(r.date)

Alone == \A v \in Workers : \A w \in Workers : Serving(v) /\ Serving(w) => v = w

TurnInv ==
    /\ Requested
    /\ \A w \in Workers : ClearingOK(request[w])
    /\ DOMAIN sessions = Dates /\ \A d \in Dates : sessions[d] \in SessionStatus
    /\ ~overlapped => Alone /\ \A w \in Workers : Holds(request[w])

\* What SessionMovesOn asks of a step.
MovesOn ==
    /\ \A d \in Dates : Later[sessions[d]] <= Later[sessions'[d]]
    /\ \A o \in Placed : ~Active(orders[o]) => orders'[o] = orders[o]
    /\ \A o \in DOMAIN orders' \ Placed : sessions[o.date] = "open"

LEMMA LaterGrows ==
    /\ \A x \in SessionStatus : Later[x] \in Nat
    /\ Later["none"] = 0 /\ Later["open"] = 1 /\ Later["closed"] = 2 /\ Later["cleared"] = 3
  BY DEF SessionStatus, Later

\* A step that leaves the tables alone moves nothing back.
LEMMA StillMovesOn ==
    ASSUME TurnInv, UNCHANGED tables
    PROVE  MovesOn
  BY LaterGrows DEF TurnInv, MovesOn, tables, Placed

\* A request that begins alone finds what it checks in the tables.
LEMMA BeginTurn ==
    ASSUME TurnInv, NEW w \in Workers, NEW r, Begin(w, r), UNCHANGED tables, Holds(r),
           ClearingOK(r)
    PROVE  TurnInv'
  <1>1. /\ Requested' /\ request'[w] = r
        /\ \A v \in Workers \ {w} : request'[v] = request[v]
    BY Put DEF TurnInv, Begin
  <1>2. \A v \in Workers : ClearingOK(request[v])'
    BY <1>1 DEF TurnInv, ClearingOK
  <1>3. DOMAIN sessions' = Dates /\ \A d \in Dates : sessions'[d] \in SessionStatus
    BY DEF TurnInv, tables
  <1>4. ASSUME ~overlapped'
        PROVE  Alone' /\ \A v \in Workers : Holds(request[v])'
    <2>1. \A v \in Workers : ~Serving(v)
      BY <1>4, Zenon DEF Begin
    <2>2. \A v \in Workers \ {w} : request'[v].op = "free"
      BY <1>1, <2>1 DEF Serving, Doing
    <2>3. Alone'
      BY <2>2 DEF Alone, Serving, Doing
    <2>4. Holds(r)'
      BY DEF Holds, tables, Placed, Active, ActiveIn
    <2>5. QED
      BY <1>1, <2>2, <2>3, <2>4 DEF Holds
  <1>5. QED
    BY <1>1, <1>2, <1>3, <1>4 DEF TurnInv

\* A request that goes on alone, or ends, without writing.
LEMMA GoTurn ==
    ASSUME TurnInv, NEW w \in Workers, NEW r, Go(w, r), UNCHANGED tables, Serving(w),
           ClearingOK(r), ~overlapped => Holds(r)
    PROVE  TurnInv'
  <1>1. /\ Requested' /\ request'[w] = r
        /\ \A v \in Workers \ {w} : request'[v] = request[v]
    BY Put DEF TurnInv, Go
  <1>2. \A v \in Workers : ClearingOK(request[v])'
    BY <1>1 DEF TurnInv, ClearingOK
  <1>3. DOMAIN sessions' = Dates /\ \A d \in Dates : sessions'[d] \in SessionStatus
    BY DEF TurnInv, tables
  <1>4. ASSUME ~overlapped'
        PROVE  Alone' /\ \A v \in Workers : Holds(request[v])'
    <2>1. ~overlapped
      BY <1>4 DEF Go
    <2>2. \A v \in Workers \ {w} : request'[v].op = "free"
      BY <1>1, <2>1 DEF TurnInv, Alone, Serving, Doing
    <2>3. Alone'
      BY <2>2 DEF Alone, Serving, Doing
    <2>4. Holds(r)'
      BY <2>1 DEF Holds, tables, Placed, Active, ActiveIn
    <2>5. QED
      BY <1>1, <2>2, <2>3, <2>4 DEF Holds
  <1>5. QED
    BY <1>1, <1>2, <1>3, <1>4 DEF TurnInv

\* A request that writes, and ends.
LEMMA EndTurn ==
    ASSUME TurnInv, NEW w \in Workers, Go(w, Free), Serving(w),
           DOMAIN sessions' = Dates, \A d \in Dates : sessions'[d] \in SessionStatus
    PROVE  TurnInv'
  <1>1. /\ Requested' /\ request'[w] = Free
        /\ \A v \in Workers \ {w} : request'[v] = request[v]
    BY Put DEF TurnInv, Go
  <1>2. \A v \in Workers : ClearingOK(request[v])'
    BY <1>1 DEF TurnInv, ClearingOK, Free
  <1>3. ASSUME ~overlapped'
        PROVE  Alone' /\ \A v \in Workers : Holds(request[v])'
    <2>1. ~overlapped
      BY <1>3 DEF Go
    <2>2. \A v \in Workers : request'[v].op = "free"
      BY <1>1, <2>1 DEF TurnInv, Alone, Serving, Doing, Free
    <2>3. QED
      BY <2>2 DEF Alone, Serving, Doing, Holds
  <1>4. QED
    BY <1>1, <1>2, <1>3 DEF TurnInv

\* The five commits, each of which writes what the request's check allows.
LEMMA OpenTurn ==
    ASSUME TurnInv, NEW w \in Workers, OpenCommit(w)
    PROVE  TurnInv' /\ (~overlapped' => MovesOn)
  <1>1. /\ Go(w, Free) /\ Serving(w) /\ orders' = orders
        /\ sessions' = [sessions EXCEPT ![request[w].date] = IF @ = "none" THEN "open" ELSE @]
    BY DEF OpenCommit, Serving, Doing
  <1>2. /\ DOMAIN sessions' = Dates
        /\ \A d \in Dates : /\ sessions'[d] \in SessionStatus
                            /\ sessions'[d] = sessions[d] \/ sessions[d] = "none"
    BY <1>1 DEF TurnInv, SessionStatus
  <1>3. MovesOn
    BY <1>1, <1>2, LaterGrows DEF TurnInv, MovesOn, Placed
  <1>4. QED
    BY <1>1, <1>2, <1>3, EndTurn

LEMMA CloseTurn ==
    ASSUME TurnInv, NEW w \in Workers, CloseCommit(w)
    PROVE  TurnInv' /\ (~overlapped' => MovesOn)
  <1>1. /\ Go(w, Free) /\ Serving(w) /\ orders' = orders /\ request[w].op = "close"
        /\ sessions' = [sessions EXCEPT ![request[w].date] = "closed"]
    BY DEF CloseCommit, Serving, Doing
  <1>2. DOMAIN sessions' = Dates /\ \A d \in Dates : sessions'[d] \in SessionStatus
    BY <1>1 DEF TurnInv, SessionStatus
  <1>3. ASSUME ~overlapped'
        PROVE  MovesOn
    <2>1. Holds(request[w])
      BY <1>1, <1>3 DEF TurnInv, Go
    <2>2. sessions[request[w].date] = "open"
      BY <1>1, <2>1 DEF Holds
    <2>3. QED
      BY <1>1, <1>2, <2>2, LaterGrows DEF TurnInv, MovesOn, Placed
  <1>4. QED
    BY <1>1, <1>2, <1>3, EndTurn

LEMMA PlaceTurn ==
    ASSUME TurnInv, NEW w \in Workers, PlaceCommit(w)
    PROVE  TurnInv' /\ (~overlapped' => MovesOn)
  <1> DEFINE o == request[w].order
  <1>1. /\ Go(w, Free) /\ Serving(w) /\ sessions' = sessions /\ request[w].op = "place"
        /\ o \notin Placed
        /\ orders' = [p \in Placed \cup {o} |->
                        IF p = o THEN [status |-> "open", matched |-> 0] ELSE orders[p]]
    BY DEF PlaceCommit, Serving, Doing
  <1>2. DOMAIN sessions' = Dates /\ \A d \in Dates : sessions'[d] \in SessionStatus
    BY <1>1 DEF TurnInv
  <1>3. ASSUME ~overlapped'
        PROVE  MovesOn
    <2>1. Holds(request[w])
      BY <1>1, <1>3 DEF TurnInv, Go
    <2>2. sessions[o.date] = "open"
      BY <1>1, <2>1 DEF Holds
    <2>3. \A d \in Dates : Later[sessions[d]] <= Later[sessions'[d]]
      BY <1>1, LaterGrows DEF TurnInv
    <2>4. \A p \in Placed : orders'[p] = orders[p]
      BY <1>1
    <2>5. DOMAIN orders' \ Placed = {o}
      BY <1>1
    <2>6. QED
      BY <2>2, <2>3, <2>4, <2>5 DEF MovesOn
  <1>4. QED
    BY <1>1, <1>2, <1>3, EndTurn

LEMMA CancelTurn ==
    ASSUME TurnInv, NEW w \in Workers, CancelCommit(w)
    PROVE  TurnInv' /\ (~overlapped' => MovesOn)
  <1> DEFINE o == request[w].order
             row == [orders[o] EXCEPT !.status = "cancelled"]
  <1>1. /\ Go(w, Free) /\ Serving(w) /\ sessions' = sessions /\ request[w].op = "cancel"
        /\ orders' = [orders EXCEPT ![o] = row]
    BY DEF CancelCommit, Serving, Doing
  <1>2. DOMAIN sessions' = Dates /\ \A d \in Dates : sessions'[d] \in SessionStatus
    BY <1>1 DEF TurnInv
  <1>3. ASSUME ~overlapped'
        PROVE  MovesOn
    <2>1. Holds(request[w])
      BY <1>1, <1>3 DEF TurnInv, Go
    <2>2. Active(orders[o])
      BY <1>1, <2>1 DEF Holds
    <2>3. \A d \in Dates : Later[sessions[d]] <= Later[sessions'[d]]
      BY <1>1, LaterGrows DEF TurnInv
    <2> HIDE DEF row
    <2>4. \A p \in Placed : p # o => orders'[p] = orders[p]
      BY <1>1 DEF Placed
    <2>5. DOMAIN orders' = Placed
      BY <1>1 DEF Placed
    <2>6. QED
      BY <2>2, <2>3, <2>4, <2>5 DEF MovesOn
  <1>4. QED
    BY <1>1, <1>2, <1>3, EndTurn

LEMMA ClearTurn ==
    ASSUME TurnInv, NEW w \in Workers, ClearCommit(w)
    PROVE  TurnInv' /\ (~overlapped' => MovesOn)
  <1> DEFINE ts == request[w].result
             NewRow(o) == Fill(o, request[w].read[o], Filled(o, ts))
  <1>1. /\ Go(w, Free) /\ Serving(w) /\ request[w].op = "commit"
        /\ sessions' = [sessions EXCEPT ![request[w].date] = "cleared"]
        /\ orders' = [o \in Placed |-> IF \E t \in ts : o \in {t.buy, t.sell}
                                       THEN NewRow(o) ELSE orders[o]]
    BY DEF ClearCommit, Serving, Doing
  <1> HIDE DEF NewRow
  <1>2. DOMAIN sessions' = Dates /\ \A d \in Dates : sessions'[d] \in SessionStatus
    BY <1>1 DEF TurnInv, SessionStatus
  <1>3. ASSUME ~overlapped'
        PROVE  MovesOn
    <2>1. Holds(request[w])
      BY <1>1, <1>3 DEF TurnInv, Go
    <2>2. /\ sessions[request[w].date] = "closed"
          /\ \A t \in ts : Active(orders[t.buy]) /\ Active(orders[t.sell])
      BY <1>1, <2>1 DEF Holds, ActiveIn
    <2>3. \A d \in Dates : Later[sessions[d]] <= Later[sessions'[d]]
      BY <1>1, <2>2, LaterGrows DEF TurnInv
    <2>4. \A o \in Placed : ~Active(orders[o]) => orders'[o] = orders[o]
      BY <1>1, <2>2
    <2>5. DOMAIN orders' = Placed
      BY <1>1
    <2>6. QED
      BY <2>3, <2>4, <2>5 DEF MovesOn
  <1>4. QED
    BY <1>1, <1>2, <1>3, EndTurn

\* The steps of a clearing before its commit.
LEMMA MatchTurn ==
    ASSUME TurnInv, NEW w \in Workers, Match(w)
    PROVE  TurnInv'
  <1>1. Serving(w) /\ request[w].op = "match" /\ UNCHANGED tables
    BY DEF Match, Serving, Doing
  <1>2. PICK read, ts :
          \/ Go(w, [op |-> "insert", date |-> request[w].date, read |-> read, result |-> ts])
          \/ Go(w, Free)
    BY DEF Match
  <1>3. ~overlapped => request[w].date \in Dates /\ sessions[request[w].date] = "closed"
    BY <1>1 DEF TurnInv, Holds
  <1>4. QED
    BY <1>1, <1>2, <1>3, GoTurn DEF ClearingOK, Holds, Free

LEMMA InsertTurn ==
    ASSUME TurnInv, NEW w \in Workers, Insert(w)
    PROVE  TurnInv'
  <1> DEFINE ts == request[w].result
             rows == ActiveRows(request[w].date)
             r == [op |-> "update", date |-> request[w].date, read |-> rows, result |-> ts]
  <1>1. /\ Serving(w) /\ request[w].op = "insert" /\ UNCHANGED tables
        /\ \/ Go(w, Free)
           \/ Go(w, r) /\ \A t \in ts : {t.buy, t.sell} \subseteq ActiveIn(request[w].date)
    BY DEF Insert, Serving, Doing, Go, ActiveRows
  <1>3. r.op = "update" /\ r.date = request[w].date /\ r.result = ts /\ ClearingOK(r)
    BY DEF ClearingOK
  <1>4. ~overlapped => request[w].date \in Dates /\ sessions[request[w].date] = "closed"
    BY <1>1 DEF TurnInv, Holds
  <1> HIDE DEF r
  <1>5. CASE Go(w, Free)
    BY <1>1, <1>5, GoTurn DEF ClearingOK, Holds, Free
  <1>6. CASE Go(w, r) /\ \A t \in ts : {t.buy, t.sell} \subseteq ActiveIn(request[w].date)
    <2>1. ~overlapped => Holds(r)
      BY <1>3, <1>4, <1>6 DEF Holds
    <2>2. QED
      BY <1>1, <1>3, <1>6, <2>1, GoTurn
  <1>7. QED
    BY <1>1, <1>5, <1>6

LEMMA UpdateTurn ==
    ASSUME TurnInv, NEW w \in Workers, Update(w)
    PROVE  TurnInv'
  <1> DEFINE r == [request[w] EXCEPT !.op = "commit"]
  <1>1. /\ Serving(w) /\ request[w].op = "update" /\ UNCHANGED tables
        /\ Go(w, r) \/ Go(w, Free)
    BY DEF Update, Serving, Doing
  <1>0. ClearingOK(request[w]) /\ request[w].op = "update"
    BY <1>1 DEF TurnInv
  <1>2. r = [op |-> "commit", date |-> request[w].date, read |-> request[w].read,
             result |-> request[w].result]
    BY <1>0 DEF ClearingOK
  <1>3. /\ r.op = "commit" /\ r.date = request[w].date /\ r.result = request[w].result
        /\ ClearingOK(r)
    BY <1>2 DEF ClearingOK
  <1> HIDE DEF r
  <1>4. ~overlapped => Holds(r)
    BY <1>1, <1>3 DEF TurnInv, Holds
  <1>5. QED
    BY <1>1, <1>3, <1>4, GoTurn DEF ClearingOK, Holds, Free

LEMMA TurnsKept == TurnInv /\ [Next]_vars => TurnInv' /\ (~overlapped' => MovesOn)
  <1> SUFFICES ASSUME TurnInv, [Next]_vars
               PROVE  TurnInv' /\ (~overlapped' => MovesOn)
    OBVIOUS
  <1>1. CASE UNCHANGED vars
    <2>1. UNCHANGED tables /\ MovesOn
      BY <1>1, StillMovesOn DEF vars
    <2>2. TurnInv'
      BY <1>1 DEF vars, tables, TurnInv, Requested, ClearingOK, Alone, Serving, Doing, Holds,
                  Placed, Active, ActiveIn
    <2>3. QED
      BY <2>1, <2>2
  <1>2. ASSUME NEW w \in Workers, NEW d \in Dates,
               OpenCheck(w, d) \/ CloseCheck(w, d) \/ ClearCheck(w, d)
        PROVE  TurnInv' /\ MovesOn
    <2>1. UNCHANGED tables
      BY <1>2 DEF OpenCheck, CloseCheck, ClearCheck
    <2>2. TurnInv'
      BY <1>2, <2>1, BeginTurn DEF OpenCheck, CloseCheck, ClearCheck, Holds, ClearingOK
    <2>3. QED
      BY <2>1, <2>2, StillMovesOn
  <1>3. ASSUME NEW w \in Workers, NEW o \in Offers, PlaceCheck(w, o) \/ CancelCheck(w, o)
        PROVE  TurnInv' /\ MovesOn
    <2>1. UNCHANGED tables
      BY <1>3 DEF PlaceCheck, CancelCheck
    <2>2. TurnInv'
      BY <1>3, <2>1, BeginTurn DEF PlaceCheck, CancelCheck, Holds, ClearingOK
    <2>3. QED
      BY <2>1, <2>2, StillMovesOn
  <1>4. ASSUME NEW w \in Workers, Match(w) \/ Insert(w) \/ Update(w) \/ Fails(w)
        PROVE  TurnInv' /\ MovesOn
    <2>1. UNCHANGED tables
      BY <1>4 DEF Match, Insert, Update, Fails
    <2>2. Fails(w) => TurnInv'
      BY <2>1, GoTurn DEF Fails, Free, ClearingOK, Holds
    <2>3. QED
      BY <1>4, <2>1, <2>2, StillMovesOn, MatchTurn, InsertTurn, UpdateTurn
  <1>5. QED
    BY <1>1, <1>2, <1>3, <1>4, OpenTurn, CloseTurn, PlaceTurn, CancelTurn, ClearTurn DEF Next

\* As long as requests do not overlap, no session goes back, no order that is over changes,
\* and no order joins a book whose intake is closed, for any engine, offers and dates
\* (close_session, cancel_order, clear_session).
THEOREM SessionsMoveOn == Spec => SessionMovesOn
  <1>1. Init => TurnInv
    BY DEF Init, TurnInv, Requested, ClearingOK, Free, SessionStatus, Alone, Serving, Doing, Holds
  <1>2. TurnInv /\ [Next]_vars => [~overlapped' => MovesOn]_vars
    BY TurnsKept
  <1>3. [~overlapped' => MovesOn]_vars <=>
          [~overlapped' =>
             /\ \A d \in Dates : Later[sessions[d]] <= Later[sessions'[d]]
             /\ \A o \in Placed : ~Active(orders[o]) => orders'[o] = orders[o]
             /\ \A o \in DOMAIN orders' \ Placed : sessions[o.date] = "open"]_vars
    BY DEF MovesOn
  <1>4. QED
    BY <1>1, <1>2, <1>3, TurnsKept, PTL DEF Spec, SessionMovesOn

-----------------------------------------------------------------------------
(***************************************************************************)
(* The double loop of the baseline engine.                                 *)
(***************************************************************************)
\* What remains of each order of a book.
BookOK(book) ==
    /\ DOMAIN book \subseteq Offers /\ IsFiniteSet(DOMAIN book)
    /\ book \in [DOMAIN book -> Nat]

\* A loop over N pairs of a buy and a sell of the book, none visited twice.
Listing(book, bs, ss, N) ==
    /\ N \in Nat
    /\ \A k \in 1 .. N : /\ bs[k] \in DOMAIN book /\ bs[k].side = "buy"
                         /\ ss[k] \in DOMAIN book /\ ss[k].side = "sell"
    /\ \A j \in 1 .. N : \A k \in 1 .. N : bs[j] = bs[k] /\ ss[j] = ss[k] => j = k

\* f[k] is what the first k pairs leave and trade.
IsSweep(f, book, bs, ss, N) ==
    f = [k \in 0 .. N |-> IF k = 0 THEN [left |-> book, trades |-> {}]
                          ELSE Pair(f[k - 1], bs[k], ss[k])]

\* The loop's recursion defines something.
LEMMA SweepExists ==
    ASSUME NEW book, NEW bs, NEW ss, NEW N \in Nat
    PROVE  \E f : IsSweep(f, book, bs, ss, N)
  <1> DEFINE Good == {n \in Nat : \E f : IsSweep(f, book, bs, ss, n)}
  <1>1. 0 \in Good
    <2> DEFINE g == [k \in 0 .. 0 |-> [left |-> book, trades |-> {}]]
    <2>1. g = [k \in 0 .. 0 |-> IF k = 0 THEN [left |-> book, trades |-> {}]
                                ELSE Pair(g[k - 1], bs[k], ss[k])]
      OBVIOUS
    <2> HIDE DEF g
    <2>2. QED
      BY <2>1 DEF IsSweep
  <1>2. ASSUME NEW n \in 1 .. N, n - 1 \in Good
        PROVE  n \in Good
    <2>1. PICK f : IsSweep(f, book, bs, ss, n - 1)
      BY <1>2
    <2> DEFINE e == Pair(f[n - 1], bs[n], ss[n])
               g == [k \in 0 .. n |-> IF k = n THEN e ELSE f[k]]
               h == [k \in 0 .. n |-> IF k = 0 THEN [left |-> book, trades |-> {}]
                                      ELSE Pair(g[k - 1], bs[k], ss[k])]
    <2>2. ASSUME NEW k \in 0 .. n
          PROVE  g[k] = h[k]
      <3>1. CASE k = n
        <4>1. g[k] = e /\ g[n - 1] = f[n - 1] /\ n # 0
          BY <3>1
        <4> HIDE DEF g
        <4>2. h[k] = Pair(g[n - 1], bs[n], ss[n])
          BY <3>1, <4>1
        <4>3. QED
          BY <4>1, <4>2
      <3>2. CASE k # n
        <4>1. k \in 0 .. n - 1 /\ g[k] = f[k] /\ (k # 0 => g[k - 1] = f[k - 1])
          BY <3>2
        <4>2. f[k] = IF k = 0 THEN [left |-> book, trades |-> {}]
                     ELSE Pair(f[k - 1], bs[k], ss[k])
          BY <2>1, <4>1 DEF IsSweep
        <4> HIDE DEF g
        <4>3. h[k] = IF k = 0 THEN [left |-> book, trades |-> {}]
                     ELSE Pair(g[k - 1], bs[k], ss[k])
          OBVIOUS
        <4> HIDE DEF h
        <4>4. QED
          BY <4>1, <4>2, <4>3
      <3>3. QED
        BY <3>1, <3>2
    <2>3. g = [k \in 0 .. n |-> g[k]] /\ h = [k \in 0 .. n |-> h[k]]
      OBVIOUS
    <2> HIDE DEF g, h
    <2>4. g = h
      BY <2>2, <2>3
    <2>5. IsSweep(g, book, bs, ss, n)
      BY <2>4 DEF IsSweep, h
    <2>6. QED
      BY <2>5
  <1> HIDE DEF Good
  <1>3. 0 .. N \subseteq Good
    BY <1>1, <1>2, UpTo
  <1>4. QED
    BY <1>3 DEF Good

\* The smaller of two amounts.
LEMMA MinOfPair ==
    ASSUME NEW a \in Int, NEW b \in Int
    PROVE  Min({a, b}) = IF a <= b THEN a ELSE b
  BY DEF Min

LEMMA MaxOfPair ==
    ASSUME NEW a \in Int, NEW b \in Int
    PROVE  Max({a, b}) = IF a <= b THEN b ELSE a
  BY DEF Max

\* One trade more.
LEMMA FilledAdd ==
    ASSUME NEW ts, IsFiniteSet(ts), \A t \in ts : t.kwh \in Int, NEW u, u \notin ts,
           u.kwh \in Int, NEW o
    PROVE  Filled(o, ts \cup {u})
             = Filled(o, ts) + IF o \in {u.buy, u.sell} THEN u.kwh ELSE 0
  <1> DEFINE S == {t \in ts : o \in {t.buy, t.sell}}
             f == [t \in ts |-> t.kwh]
             g == [t \in ts \cup {u} |-> t.kwh]
             T == {t \in ts \cup {u} : o \in {t.buy, t.sell}}
  <1>1. IsFiniteSet(S) /\ u \notin S /\ S \subseteq ts
    BY FS_Subset
  <1>2. /\ \A t \in S : f[t] = g[t] /\ g[t] \in Int
        /\ g[u] = u.kwh
    OBVIOUS
  <1>3. T = IF o \in {u.buy, u.sell} THEN S \cup {u} ELSE S
    OBVIOUS
  <1>4. Filled(o, ts) = SumFunctionOnSet(f, S) /\ Filled(o, ts \cup {u}) = SumFunctionOnSet(g, T)
    BY DEF Filled
  <1> HIDE DEF S, T, f, g
  <1>5. SumFunctionOnSet(f, S) = SumFunctionOnSet(g, S) /\ SumFunctionOnSet(g, S) \in Int
    BY <1>1, <1>2, SumSame, SumType
  <1>6. SumFunctionOnSet(g, S \cup {u}) = g[u] + SumFunctionOnSet(g, S)
    BY <1>1, <1>2, SumAdd
  <1>7. QED
    BY <1>2, <1>3, <1>4, <1>5, <1>6

\* An order that is in no trade, and one whose trades are of positive amounts.
LEMMA FilledType ==
    ASSUME NEW ts, IsFiniteSet(ts), \A t \in ts : t.kwh \in Nat, NEW o
    PROVE  /\ Filled(o, ts) \in Nat
           /\ (\A t \in ts : o \notin {t.buy, t.sell}) => Filled(o, ts) = 0
  <1> DEFINE S == {t \in ts : o \in {t.buy, t.sell}}
             f == [t \in ts |-> t.kwh]
  <1>1. IsFiniteSet(S)
    BY FS_Subset
  <1>2. \A t \in S : f[t] \in Nat
    OBVIOUS
  <1>3. Filled(o, ts) = SumFunctionOnSet(f, S)
    BY DEF Filled
  <1>4. (\A t \in ts : o \notin {t.buy, t.sell}) => S = {}
    OBVIOUS
  <1> HIDE DEF S, f
  <1>5. QED
    BY <1>1, <1>2, <1>3, <1>4, SumNat, SumEmpty

-----------------------------------------------------------------------------
(***************************************************************************)
(* What holds after each pair.                                             *)
(***************************************************************************)
\* t was made by the j-th pair: every earlier pair of an order of it with one that suits
\* that order left that one nothing.
Made(t, j, left, bs, ss) ==
    /\ t.kwh \in Nat \ {0} /\ t = TradeOf(bs[j], ss[j], t.kwh) /\ Suits(bs[j], ss[j])
    /\ \A i \in 1 .. j - 1 :
          Suits(bs[i], ss[i]) => /\ ss[i] = ss[j] => left[bs[i]] = 0
                                 /\ bs[i] = bs[j] => left[ss[i]] = 0

SweptOK(a, k, book, bs, ss) ==
    /\ a = [left |-> a.left, trades |-> a.trades]
    /\ a.left \in [DOMAIN book -> Nat]
    /\ IsFiniteSet(a.trades)
    /\ \A t \in a.trades : \E j \in 1 .. k : Made(t, j, a.left, bs, ss)
    /\ \A j \in 1 .. k : Suits(bs[j], ss[j]) => a.left[bs[j]] = 0 \/ a.left[ss[j]] = 0
    /\ \A o \in DOMAIN book : Filled(o, a.trades) = book[o] - a.left[o]

\* The fields of a trade.
LEMMA TradeFields ==
    ASSUME NEW b, NEW s, NEW q
    PROVE  LET t == TradeOf(b, s, q) IN t.buy = b /\ t.sell = s /\ t.kwh = q
  BY DEF TradeOf

LEMMA PairKeeps ==
    ASSUME NEW book, NEW bs, NEW ss, NEW N, BookOK(book), Listing(book, bs, ss, N),
           NEW k \in 1 .. N, NEW a, SweptOK(a, k - 1, book, bs, ss)
    PROVE  SweptOK(Pair(a, bs[k], ss[k]), k, book, bs, ss)
  <1> DEFINE b == bs[k]
             s == ss[k]
             left == a.left
             q == Min({left[b], left[s]})
             u == TradeOf(b, s, q)
             c == [left |-> [left EXCEPT ![b] = @ - q, ![s] = @ - q],
                   trades |-> a.trades \cup {u}]
  <1>1. /\ b \in DOMAIN book /\ s \in DOMAIN book /\ b # s /\ N \in Nat
        /\ left \in [DOMAIN book -> Nat] /\ left[b] \in Nat /\ left[s] \in Nat
    BY DEF Listing, SweptOK
  <1>2. q = (IF left[b] <= left[s] THEN left[b] ELSE left[s]) /\ q \in Nat
    BY <1>1, MinOfPair
  <1>3. CASE ~(Suits(b, s) /\ q > 0)
    <2>1. Pair(a, b, s) = a
      BY <1>3 DEF Pair
    <2>2. Suits(b, s) => left[b] = 0 \/ left[s] = 0
      BY <1>1, <1>2, <1>3
    <2>3. \A j \in 1 .. k : j = k \/ j \in 1 .. k - 1
      OBVIOUS
    <2>4. 1 .. k - 1 \subseteq 1 .. k
      OBVIOUS
    <2> HIDE DEF q, u, c
    <2>5. SweptOK(a, k, book, bs, ss)
      BY <2>2, <2>3, <2>4 DEF SweptOK
    <2>6. QED
      BY <2>1, <2>5
  <1>4. CASE Suits(b, s) /\ q > 0
    <2>1. Pair(a, b, s) = c
      BY <1>4 DEF Pair
    <2> DEFINE rest == c.left
    <2>2. /\ rest \in [DOMAIN book -> Nat]
          /\ rest[b] = left[b] - q /\ rest[s] = left[s] - q
          /\ \A o \in DOMAIN book \ {b, s} : rest[o] = left[o]
      <3>1. rest = [left EXCEPT ![b] = @ - q, ![s] = @ - q]
        OBVIOUS
      <3>2. left[b] - q \in Nat /\ left[s] - q \in Nat
        BY <1>1, <1>2
      <3> HIDE DEF q, rest, left, b, s
      <3>3. QED
        BY <1>1, <3>1, <3>2
    <2>3. c = [left |-> c.left, trades |-> c.trades] /\ c.trades = a.trades \cup {u}
      OBVIOUS
    <2>4. u.buy = b /\ u.sell = s /\ u.kwh = q
      BY TradeFields
    <2> HIDE DEF c, rest, u, q, left
    <2>5. rest[b] = 0 \/ rest[s] = 0
      BY <1>1, <1>2, <2>2
    <2>6. left[b] # 0 /\ left[s] # 0
      BY <1>1, <1>2, <1>4
    <2>7. \A o \in DOMAIN book : left[o] = 0 => rest[o] = 0
      BY <2>2, <2>6
    <2> USE DEF left
    <2>8. \A j \in 1 .. k - 1 : j \in 1 .. N
      BY <1>1
    <2>9. ASSUME NEW j \in 1 .. k, NEW t, Made(t, j, left, bs, ss)
          PROVE  Made(t, j, rest, bs, ss)
      <3>1. \A i \in 1 .. j - 1 : i \in 1 .. N
        BY <1>1
      <3>2. \A i \in 1 .. j - 1 : bs[i] \in DOMAIN book /\ ss[i] \in DOMAIN book
        BY <3>1 DEF Listing
      <3>3. QED
        BY <2>7, <2>9, <3>2 DEF Made
    <2>10. Made(u, k, rest, bs, ss)
      <3>1. u.kwh \in Nat \ {0} /\ u = TradeOf(bs[k], ss[k], u.kwh) /\ Suits(bs[k], ss[k])
        BY <1>2, <1>4, <2>4 DEF u
      <3>2. ASSUME NEW i \in 1 .. k - 1, Suits(bs[i], ss[i])
            PROVE  /\ ss[i] = ss[k] => rest[bs[i]] = 0
                   /\ bs[i] = bs[k] => rest[ss[i]] = 0
        <4>1. left[bs[i]] = 0 \/ left[ss[i]] = 0
          BY <3>2 DEF SweptOK
        <4>2. bs[i] \in DOMAIN book /\ ss[i] \in DOMAIN book
          BY <2>8 DEF Listing
        <4>3. QED
          BY <2>6, <2>7, <4>1, <4>2
      <3>3. QED
        BY <3>1, <3>2 DEF Made
    <2>11. ASSUME NEW t \in a.trades
           PROVE  /\ \E j \in 1 .. k : Made(t, j, rest, bs, ss)
                  /\ t # u /\ t.kwh \in Nat
      <3>1. PICK j \in 1 .. k - 1 : Made(t, j, left, bs, ss)
        BY <2>11 DEF SweptOK
      <3>2. j \in 1 .. k /\ j \in 1 .. N /\ j # k
        BY <1>1
      <3>3. t.kwh \in Nat /\ t.buy = bs[j] /\ t.sell = ss[j]
        BY <3>1, TradeFields DEF Made
      <3>4. t # u
        BY <2>4, <3>2, <3>3 DEF Listing
      <3>5. QED
        BY <2>9, <3>1, <3>2, <3>3, <3>4
    <2>12. \A t \in c.trades : \E j \in 1 .. k : Made(t, j, rest, bs, ss)
      BY <2>3, <2>10, <2>11
    <2>13. IsFiniteSet(a.trades) /\ IsFiniteSet(c.trades)
      BY <2>3, FS_AddElement DEF SweptOK
    <2>14. ASSUME NEW j \in 1 .. k, Suits(bs[j], ss[j])
           PROVE  rest[bs[j]] = 0 \/ rest[ss[j]] = 0
      <3>1. CASE j = k
        BY <2>5, <3>1
      <3>2. CASE j # k
        <4>1. j \in 1 .. k - 1
          BY <3>2
        <4>2. bs[j] \in DOMAIN book /\ ss[j] \in DOMAIN book
          BY <2>8, <4>1 DEF Listing
        <4>3. left[bs[j]] = 0 \/ left[ss[j]] = 0
          BY <2>14, <4>1 DEF SweptOK
        <4>4. QED
          BY <2>7, <4>2, <4>3
      <3>3. QED
        BY <3>1, <3>2
    <2>15. ASSUME NEW o \in DOMAIN book
           PROVE  Filled(o, c.trades) = book[o] - rest[o]
      <3>1. u \notin a.trades /\ \A t \in a.trades : t.kwh \in Int
        BY <2>11
      <3>0. u.kwh \in Int
        BY <1>2, <2>4
      <3>2. Filled(o, a.trades \cup {u})
              = Filled(o, a.trades) + IF o \in {u.buy, u.sell} THEN u.kwh ELSE 0
        BY <2>13, <3>0, <3>1, FilledAdd
      <3>3. Filled(o, a.trades) = book[o] - left[o]
        BY DEF SweptOK
      <3>4. book[o] \in Nat /\ left[o] \in Nat /\ rest[o] \in Nat
        BY <1>1, <2>2 DEF BookOK
      <3>5. rest[o] = left[o] - IF o \in {b, s} THEN q ELSE 0
        BY <1>1, <1>2, <2>2, <3>4
      <3>6. QED
        BY <1>2, <2>3, <2>4, <3>2, <3>3, <3>4, <3>5
    <2>16. rest = c.left
      BY DEF rest
    <2>17. SweptOK(c, k, book, bs, ss)
      BY <2>2, <2>3, <2>12, <2>13, <2>14, <2>15, <2>16 DEF SweptOK
    <2>18. QED
      BY <2>1, <2>17
  <1>5. QED
    BY <1>3, <1>4

LEMMA SweepKeeps ==
    ASSUME NEW book, NEW bs, NEW ss, NEW N, BookOK(book), Listing(book, bs, ss, N),
           NEW f, IsSweep(f, book, bs, ss, N)
    PROVE  SweptOK(f[N], N, book, bs, ss)
  <1> DEFINE Good == {k \in 0 .. N : SweptOK(f[k], k, book, bs, ss)}
  <1>1. N \in Nat
    BY DEF Listing
  <1>2. 0 \in Good
    <2> DEFINE a == [left |-> book, trades |-> {}]
    <2>1. f[0] = a
      BY <1>1 DEF IsSweep
    <2>2. a.left = book /\ a.trades = {} /\ a = [left |-> a.left, trades |-> a.trades]
      OBVIOUS
    <2>3. \A o \in DOMAIN book : Filled(o, {}) = 0 /\ book[o] \in Nat
      BY FilledType, FS_EmptySet DEF BookOK
    <2> HIDE DEF a
    <2>4. SweptOK(a, 0, book, bs, ss)
      BY <2>2, <2>3, FS_EmptySet DEF SweptOK, BookOK
    <2>5. QED
      BY <1>1, <2>1, <2>4
  <1>3. ASSUME NEW k \in 1 .. N, k - 1 \in Good
        PROVE  k \in Good
    <2>1. SweptOK(f[k - 1], k - 1, book, bs, ss)
      BY <1>3
    <2>2. k \in 0 .. N /\ k # 0
      BY <1>1
    <2>3. f[k] = IF k = 0 THEN [left |-> book, trades |-> {}] ELSE Pair(f[k - 1], bs[k], ss[k])
      BY <2>2 DEF IsSweep
    <2>4. SweptOK(Pair(f[k - 1], bs[k], ss[k]), k, book, bs, ss)
      BY <2>1, PairKeeps
    <2>5. QED
      BY <2>2, <2>3, <2>4
  <1> HIDE DEF Good
  <1>4. 0 .. N \subseteq Good
    BY <1>1, <1>2, <1>3, UpTo
  <1>5. QED
    BY <1>1, <1>4 DEF Good

-----------------------------------------------------------------------------
(***************************************************************************)
(* The merit order.                                                        *)
(***************************************************************************)
OneSide(os, side) == os \subseteq Offers /\ \A o \in os : o.side = side

Sorted(s, os) ==
    /\ s \in [1 .. Cardinality(os) -> os]
    /\ \A i \in DOMAIN s : \A j \in DOMAIN s : i < j => Better(s[i], s[j])

\* The offers of a side are in a strict order.
LEMMA BetterOrder ==
    ASSUME NEW os, NEW side, OneSide(os, side)
    PROVE  /\ \A a \in os : ~Better(a, a)
           /\ \A a \in os : \A b \in os : a # b => Better(a, b) \/ Better(b, a)
           /\ \A a \in os : \A b \in os : \A c \in os :
                 Better(a, b) /\ Better(b, c) => Better(a, c)
  <1>1. \A a \in Offer : a.id \in Nat /\ a.limit \in Nat
    BY DEF Offer
  <1>2. \A a \in os : a \in Offer /\ a.id \in Nat /\ a.limit \in Nat /\ a.side = side
    BY <1>1, MarketAssumption DEF OneSide
  <1>3. \A a \in os : \A b \in os : a.id = b.id => a = b
    BY MarketAssumption DEF OneSide
  <1>4. \A a \in os : \A b \in os :
          Better(a, b) <=> IF a.limit = b.limit THEN a.id < b.id
                           ELSE IF side = "buy" THEN a.limit > b.limit ELSE a.limit < b.limit
    BY <1>2 DEF Better
  <1>5. \A a \in os : ~Better(a, a)
    BY <1>2, <1>4
  <1>6. \A a \in os : \A b \in os : a # b => Better(a, b) \/ Better(b, a)
    BY <1>2, <1>3, <1>4
  <1>7. ASSUME NEW a \in os, NEW b \in os, NEW c \in os, Better(a, b), Better(b, c)
        PROVE  Better(a, c)
    BY <1>2, <1>4, <1>7
  <1>8. QED
    BY <1>5, <1>6, <1>7

LEMMA Sortable ==
    ASSUME NEW os, NEW side, OneSide(os, side), IsFiniteSet(os)
    PROVE  \E s : Sorted(s, os)
  <1> DEFINE R == {p \in os \X os : Better(p[1], p[2])}
  <1>1. \A a \in os : \A b \in os : <<a, b>> \in R <=> Better(a, b)
    OBVIOUS
  <1> HIDE DEF R
  <1>2. StrictOrder(R, os)
    BY <1>1, BetterOrder DEF StrictOrder
  <1>3. PICK s \in [1 .. Cardinality(os) -> os] :
           \A i, j \in 1 .. Cardinality(os) : i < j => <<s[i], s[j]>> \in R
    BY <1>2, OrderExists
  <1>4. DOMAIN s = 1 .. Cardinality(os) /\ \A i \in DOMAIN s : s[i] \in os
    BY <1>3
  <1>5. QED
    BY <1>1, <1>3, <1>4 DEF Sorted

\* A listing in merit order has every offer, and a better one first.
LEMMA SortedLists ==
    ASSUME NEW os, NEW side, OneSide(os, side), IsFiniteSet(os), NEW s, Sorted(s, os)
    PROVE  /\ Cardinality(os) \in Nat /\ DOMAIN s = 1 .. Cardinality(os)
           /\ Len(s) = Cardinality(os)
           /\ \A i \in 1 .. Cardinality(os) : s[i] \in os
           /\ \A o \in os : \E i \in 1 .. Cardinality(os) : s[i] = o
           /\ \A i \in 1 .. Cardinality(os) : \A j \in 1 .. Cardinality(os) :
                 /\ s[i] = s[j] => i = j
                 /\ Better(s[i], s[j]) => i < j
  <1> DEFINE n == Cardinality(os)
  <1>1. n \in Nat
    BY FS_CardinalityType
  <1>2. s \in [1 .. n -> os] /\ DOMAIN s = 1 .. n
    BY DEF Sorted
  <1> HIDE DEF n
  <1>3. \A i \in 1 .. n : s[i] \in os /\ i \in Int
    BY <1>1, <1>2
  <1>4. ASSUME NEW i \in 1 .. n, NEW j \in 1 .. n
        PROVE  (s[i] = s[j] => i = j) /\ (Better(s[i], s[j]) => i < j)
    <2>1. /\ i < j => Better(s[i], s[j]) /\ ~Better(s[j], s[i]) /\ s[i] # s[j]
          /\ j < i => Better(s[j], s[i]) /\ ~Better(s[i], s[j]) /\ s[i] # s[j]
      BY <1>2, <1>3, BetterOrder DEF Sorted
    <2>2. i = j => ~Better(s[i], s[j])
      BY <1>3, BetterOrder
    <2>3. i < j \/ j < i \/ i = j
      BY <1>3
    <2>4. QED
      BY <2>1, <2>2, <2>3
  <1>5. s \in Injection(1 .. n, os)
    BY <1>2, <1>4 DEF Injection, IsInjective
  <1>6. s \in Surjection(1 .. n, os)
    <2>1. IsFiniteSet(1 .. n) /\ Cardinality(1 .. n) = n
      BY <1>1, FS_Interval
    <2>2. n = Cardinality(os)
      BY DEF n
    <2>3. QED
      BY <1>5, <2>1, <2>2, FS_Injection
  <1>7. \A o \in os : \E i \in 1 .. n : s[i] = o
    BY <1>6 DEF Surjection
  <1>8. s \in Seq(os) /\ Len(s) = n
    BY <1>1, <1>2
  <1>9. QED
    BY <1>1, <1>2, <1>3, <1>4, <1>7, <1>8 DEF n

-----------------------------------------------------------------------------
(***************************************************************************)
(* The double loop visits every pair, in the order of the two listings.    *)
(***************************************************************************)
BuyOf(k, n) == ((k - 1) \div n) + 1
SellOf(k, n) == ((k - 1) % n) + 1

LEMMA StepPair ==
    ASSUME NEW m \in Nat, NEW n \in Nat, NEW k \in 1 .. m * n
    PROVE  /\ BuyOf(k, n) \in 1 .. m /\ SellOf(k, n) \in 1 .. n
           /\ k = n * (BuyOf(k, n) - 1) + SellOf(k, n)
  <1> DEFINE p == (k - 1) \div n
             r == (k - 1) % n
             N == m * n
  <1>1. N \in Nat /\ k \in 1 .. N
    OBVIOUS
  <1>2. n \in Nat \ {0} /\ N = n * m
    <2>1. n = 0 => N = 0
      OBVIOUS
    <2> HIDE DEF N
    <2>2. n # 0
      BY <1>1, <2>1
    <2>3. N = n * m
      BY DEF N
    <2>4. QED
      BY <2>2, <2>3
  <1> HIDE DEF N
  <1>3. k - 1 \in Nat /\ k - 1 < N
    BY <1>1
  <1>4. k - 1 = n * p + r /\ r \in 0 .. n - 1 /\ p \in Nat
    BY <1>2, <1>3, DivMod
  <1> HIDE DEF p, r
  <1>5. p < m
    <2>1. m <= p => n * m <= n * p
      BY <1>2, <1>4, ProductGrows
    <2> DEFINE x == n * m
               y == n * p
    <2>2. x \in Nat /\ y \in Nat
      BY <1>4
    <2>3. x = N /\ k - 1 = y + r /\ (m <= p => x <= y)
      BY <1>2, <1>4, <2>1
    <2> HIDE DEF x, y
    <2>4. ~(m <= p)
      BY <1>2, <1>3, <1>4, <2>2, <2>3
    <2>5. QED
      BY <1>4, <2>4
  <1>6. BuyOf(k, n) = p + 1 /\ SellOf(k, n) = r + 1
    BY DEF BuyOf, SellOf, p, r
  <1>7. n * (p + 1 - 1) = n * p
    BY <1>4
  <1> DEFINE y == n * p
  <1>8. y \in Nat /\ k - 1 = y + r /\ n * (p + 1 - 1) = y
    BY <1>4, <1>7
  <1> HIDE DEF y
  <1>9. QED
    BY <1>2, <1>4, <1>5, <1>6, <1>8

LEMMA PairStep ==
    ASSUME NEW m \in Nat, NEW n \in Nat, NEW i \in 1 .. m, NEW j \in 1 .. n
    PROVE  \E k \in 1 .. m * n : BuyOf(k, n) = i /\ SellOf(k, n) = j
  <1> DEFINE x == n * (i - 1)
             k == x + j
  <1>1. x \in Nat /\ k \in Nat /\ k - 1 = x + (j - 1) /\ k - 1 \in Nat
    OBVIOUS
  <1>2. n \in Nat \ {0} /\ i - 1 \in Nat /\ i \in Nat /\ j - 1 \in 0 .. n - 1
    OBVIOUS
  <1>3. x + n = n * i /\ n * i <= n * m /\ n * m = m * n
    BY <1>2, ProductGrows
  <1>4. k \in 1 .. m * n
    <2> DEFINE y == n * i
               z == m * n
    <2>1. y \in Nat /\ z \in Nat /\ x + n = y /\ y <= z
      BY <1>2, <1>3
    <2> HIDE DEF x, y, z
    <2>2. k \in 1 .. z
      BY <1>1, <2>1
    <2>3. QED
      BY <2>2 DEF z
  <1> DEFINE p == (k - 1) \div n
             r == (k - 1) % n
  <1>5. k - 1 = n * p + r /\ r \in 0 .. n - 1 /\ p \in Nat
    BY <1>1, <1>2, DivMod
  <1>6. k - 1 = n * (i - 1) + (j - 1)
    BY <1>1
  <1> HIDE DEF x, k, p, r
  <1>7. n * p + r = n * (i - 1) + (j - 1)
    BY <1>5, <1>6
  <1>8. n * p + r <= n * (i - 1) + (j - 1) /\ n * (i - 1) + (j - 1) <= n * p + r
    BY <1>2, <1>5, <1>7
  <1>9. p <= i - 1 /\ (p = i - 1 => r <= j - 1)
    BY <1>2, <1>5, <1>8, QuotientGrows
  <1>10. i - 1 <= p /\ (i - 1 = p => j - 1 <= r)
    BY <1>2, <1>5, <1>8, QuotientGrows
  <1>11. p + 1 = i /\ r + 1 = j
    BY <1>2, <1>5, <1>9, <1>10
  <1>12. BuyOf(k, n) = i /\ SellOf(k, n) = j
    BY <1>11 DEF BuyOf, SellOf, p, r
  <1>13. QED
    BY <1>4, <1>12

LEMMA StepOrder ==
    ASSUME NEW m \in Nat, NEW n \in Nat, NEW k \in 1 .. m * n, NEW l \in 1 .. m * n
    PROVE  /\ BuyOf(k, n) = BuyOf(l, n) /\ SellOf(k, n) = SellOf(l, n) => k = l
           /\ BuyOf(k, n) = BuyOf(l, n) /\ SellOf(k, n) < SellOf(l, n) => k < l
           /\ BuyOf(k, n) < BuyOf(l, n) /\ SellOf(k, n) = SellOf(l, n) => k < l
  <1> DEFINE b == BuyOf(k, n)
             c == BuyOf(l, n)
             s == SellOf(k, n)
             t == SellOf(l, n)
             x == n * (b - 1)
             y == n * (c - 1)
  <1>1. b \in 1 .. m /\ s \in 1 .. n /\ k = x + s /\ c \in 1 .. m /\ t \in 1 .. n /\ l = y + t
    BY StepPair
  <1> HIDE DEF b, c, s, t
  <1>2. x \in Nat /\ y \in Nat /\ (b = c => x = y)
    BY <1>1
  <1>3. b < c => x + n <= y
    <2>1. b < c => n * b <= n * (c - 1)
      <3>1. b < c => b <= c - 1
        BY <1>1
      <3>2. b \in Nat /\ c - 1 \in Nat
        BY <1>1
      <3>3. QED
        BY <3>1, <3>2, ProductGrows
    <2>2. x + n = n * b
      BY <1>1
    <2>3. QED
      BY <2>1, <2>2
  <1> HIDE DEF x, y
  <1>4. /\ b = c /\ s = t => k = l
        /\ b = c /\ s < t => k < l
        /\ b < c /\ s = t => k < l
    BY <1>1, <1>2, <1>3
  <1>5. QED
    BY <1>4 DEF b, c, s, t

\* bs and ss list the N pairs of the double loop.
PairsOf(bs, ss, N, buys, sells) ==
    /\ N \in Nat /\ N = Len(buys) * Len(sells)
    /\ \A k \in 1 .. N : /\ bs[k] = buys[BuyOf(k, Len(sells))]
                         /\ ss[k] = sells[SellOf(k, Len(sells))]

\* The double loop as a sweep over a listing of pairs.
LEMMA SweptAs ==
    ASSUME NEW book, NEW buys, NEW sells, NEW bs, NEW ss, NEW N, PairsOf(bs, ss, N, buys, sells)
    PROVE  \E f : IsSweep(f, book, bs, ss, N) /\ Swept(book, buys, sells) = f[N]
  <1> DEFINE Start == [left |-> book, trades |-> {}]
             n == Len(sells)
             IsLoop(f) ==
                f = [k \in 0 .. N |->
                       IF k = 0 THEN Start
                       ELSE Pair(f[k - 1], buys[((k - 1) \div n) + 1], sells[((k - 1) % n) + 1])]
             g == CHOOSE f : IsLoop(f)
  <1>1. N \in Nat /\ N = Len(buys) * n
    BY DEF PairsOf
  <1>2. Swept(book, buys, sells) = g[N]
    BY <1>1 DEF Swept
  <1>3. \A k \in 1 .. N : /\ bs[k] = buys[((k - 1) \div n) + 1]
                          /\ ss[k] = sells[((k - 1) % n) + 1]
    BY DEF PairsOf, BuyOf, SellOf
  <1> HIDE DEF Start, n
  <1>4. ASSUME NEW f
        PROVE  [k \in 0 .. N |-> IF k = 0 THEN Start ELSE Pair(f[k - 1], bs[k], ss[k])]
                 = [k \in 0 .. N |->
                       IF k = 0 THEN Start
                       ELSE Pair(f[k - 1], buys[((k - 1) \div n) + 1], sells[((k - 1) % n) + 1])]
    <2>1. ASSUME NEW k \in 0 .. N, k # 0
          PROVE  Pair(f[k - 1], bs[k], ss[k])
                   = Pair(f[k - 1], buys[((k - 1) \div n) + 1], sells[((k - 1) % n) + 1])
      <3>1. k \in 1 .. N
        BY <1>1, <2>1
      <3>2. QED
        BY <1>3, <3>1
    <2>2. QED
      BY <2>1
  <1>5. \A f : IsSweep(f, book, bs, ss, N) <=> IsLoop(f)
    BY <1>4 DEF IsSweep, Start
  <1>6. \E f : IsSweep(f, book, bs, ss, N)
    BY <1>1, SweepExists
  <1> HIDE DEF IsLoop
  <1>7. IsLoop(g)
    BY <1>5, <1>6
  <1> HIDE DEF g
  <1>8. QED
    BY <1>2, <1>5, <1>7

\* The orders of a side that have energy left.
SideOf(book, side) == {o \in DOMAIN book : o.side = side /\ book[o] > 0}

LEMMA MeritSorted ==
    ASSUME NEW book, BookOK(book), NEW side
    PROVE  /\ OneSide(SideOf(book, side), side) /\ IsFiniteSet(SideOf(book, side))
           /\ Sorted(Merit(book, side), SideOf(book, side))
  <1> DEFINE os == SideOf(book, side)
  <1>1. OneSide(os, side) /\ os \subseteq DOMAIN book
    BY DEF BookOK, OneSide, SideOf
  <1>2. IsFiniteSet(os)
    BY <1>1, FS_Subset DEF BookOK
  <1>3. \E s : Sorted(s, os)
    BY <1>1, <1>2, Sortable
  <1>4. Merit(book, side) = CHOOSE s \in [1 .. Cardinality(os) -> os] :
                                \A i \in DOMAIN s : \A j \in DOMAIN s : i < j => Better(s[i], s[j])
    BY DEF Merit, SideOf
  <1> HIDE DEF os
  <1>5. Sorted(Merit(book, side), os)
    BY <1>3, <1>4 DEF Sorted
  <1>6. QED
    BY <1>1, <1>2, <1>5 DEF os

\* What the engine's loop over a book comes to: every pair of a buy and a sell is visited,
\* and a better order meets a counterparty before a worse one does.
LEMMA LoopOrder ==
    ASSUME NEW book, BookOK(book)
    PROVE  \E bs, ss, f, N :
             /\ Listing(book, bs, ss, N) /\ IsSweep(f, book, bs, ss, N)
             /\ Swept(book, Merit(book, "buy"), Merit(book, "sell")) = f[N]
             /\ \A b \in SideOf(book, "buy") : \A s \in SideOf(book, "sell") :
                   \E k \in 1 .. N : bs[k] = b /\ ss[k] = s
             /\ \A k \in 1 .. N :
                   /\ \A b \in SideOf(book, "buy") :
                         Better(b, bs[k]) => \E i \in 1 .. k - 1 : bs[i] = b /\ ss[i] = ss[k]
                   /\ \A s \in SideOf(book, "sell") :
                         Better(s, ss[k]) => \E i \in 1 .. k - 1 : ss[i] = s /\ bs[i] = bs[k]
  <1> DEFINE B == SideOf(book, "buy")
             S == SideOf(book, "sell")
             buys == Merit(book, "buy")
             sells == Merit(book, "sell")
             m == Cardinality(B)
             n == Cardinality(S)
             N == m * n
             bs == [k \in 1 .. N |-> buys[BuyOf(k, n)]]
             ss == [k \in 1 .. N |-> sells[SellOf(k, n)]]
  <1>1. /\ OneSide(B, "buy") /\ IsFiniteSet(B) /\ Sorted(buys, B)
        /\ OneSide(S, "sell") /\ IsFiniteSet(S) /\ Sorted(sells, S)
    BY MeritSorted
  <1>2. /\ B \subseteq DOMAIN book /\ \A b \in B : b.side = "buy"
        /\ S \subseteq DOMAIN book /\ \A s \in S : s.side = "sell"
    BY DEF SideOf
  <1> HIDE DEF B, S, buys, sells
  <1>3. /\ m \in Nat /\ Len(buys) = m /\ \A i \in 1 .. m : buys[i] \in B
        /\ \A b \in B : \E i \in 1 .. m : buys[i] = b
        /\ \A i \in 1 .. m : \A j \in 1 .. m :
              (buys[i] = buys[j] => i = j) /\ (Better(buys[i], buys[j]) => i < j)
    BY <1>1, SortedLists
  <1>4. /\ n \in Nat /\ Len(sells) = n /\ \A i \in 1 .. n : sells[i] \in S
        /\ \A s \in S : \E i \in 1 .. n : sells[i] = s
        /\ \A i \in 1 .. n : \A j \in 1 .. n :
              (sells[i] = sells[j] => i = j) /\ (Better(sells[i], sells[j]) => i < j)
    BY <1>1, SortedLists
  <1> HIDE DEF m, n
  <1>5. \A k \in 1 .. N : bs[k] = buys[BuyOf(k, n)] /\ ss[k] = sells[SellOf(k, n)]
    OBVIOUS
  <1>6. N = m * n /\ N \in Nat
    BY <1>3, <1>4
  <1> HIDE DEF bs, ss, N
  <1>7. \E f : IsSweep(f, book, bs, ss, N) /\ Swept(book, buys, sells) = f[N]
    <2>1. PairsOf(bs, ss, N, buys, sells)
      BY <1>3, <1>4, <1>5, <1>6 DEF PairsOf
    <2>2. QED
      BY <2>1, SweptAs
  <1>8. \A k \in 1 .. N : BuyOf(k, n) \in 1 .. m /\ SellOf(k, n) \in 1 .. n
    <2>1. m \in Nat /\ n \in Nat
      BY <1>3, <1>4
    <2> SUFFICES ASSUME NEW k \in 1 .. N
                 PROVE  BuyOf(k, n) \in 1 .. m /\ SellOf(k, n) \in 1 .. n
      OBVIOUS
    <2>2. k \in 1 .. m * n
      BY <1>6
    <2>3. QED
      BY <2>1, <2>2, StepPair
  <1>9. \A k \in 1 .. N : bs[k] \in B /\ ss[k] \in S
    BY <1>3, <1>4, <1>5, <1>8
  <1>10. \A k \in 1 .. N : \A l \in 1 .. N :
            /\ BuyOf(k, n) = BuyOf(l, n) /\ SellOf(k, n) = SellOf(l, n) => k = l
            /\ BuyOf(k, n) = BuyOf(l, n) /\ SellOf(k, n) < SellOf(l, n) => k < l
            /\ BuyOf(k, n) < BuyOf(l, n) /\ SellOf(k, n) = SellOf(l, n) => k < l
    <2>1. m \in Nat /\ n \in Nat
      BY <1>3, <1>4
    <2> SUFFICES ASSUME NEW k \in 1 .. N, NEW l \in 1 .. N
                 PROVE  /\ BuyOf(k, n) = BuyOf(l, n) /\ SellOf(k, n) = SellOf(l, n) => k = l
                        /\ BuyOf(k, n) = BuyOf(l, n) /\ SellOf(k, n) < SellOf(l, n) => k < l
                        /\ BuyOf(k, n) < BuyOf(l, n) /\ SellOf(k, n) = SellOf(l, n) => k < l
      OBVIOUS
    <2>2. k \in 1 .. m * n /\ l \in 1 .. m * n
      BY <1>6
    <2>3. QED
      BY <2>1, <2>2, StepOrder
  <1>11. Listing(book, bs, ss, N)
    <2>1. ASSUME NEW j \in 1 .. N, NEW k \in 1 .. N, bs[j] = bs[k], ss[j] = ss[k]
          PROVE  j = k
      <3>1. BuyOf(j, n) = BuyOf(k, n) /\ SellOf(j, n) = SellOf(k, n)
        BY <1>3, <1>4, <1>5, <1>8, <2>1
      <3>2. QED
        BY <1>10, <3>1
    <2>2. QED
      BY <1>2, <1>6, <1>9, <2>1 DEF Listing
  <1>12. \A i \in 1 .. m : \A j \in 1 .. n : \E k \in 1 .. N : BuyOf(k, n) = i /\ SellOf(k, n) = j
    <2>1. m \in Nat /\ n \in Nat
      BY <1>3, <1>4
    <2> SUFFICES ASSUME NEW i \in 1 .. m, NEW j \in 1 .. n
                 PROVE  \E k \in 1 .. N : BuyOf(k, n) = i /\ SellOf(k, n) = j
      OBVIOUS
    <2>2. \E k \in 1 .. m * n : BuyOf(k, n) = i /\ SellOf(k, n) = j
      BY <2>1, PairStep
    <2>3. QED
      BY <1>6, <2>2
  <1>13. ASSUME NEW b \in B, NEW s \in S
         PROVE  \E k \in 1 .. N : bs[k] = b /\ ss[k] = s
    <2>1. PICK i \in 1 .. m : buys[i] = b
      BY <1>3
    <2>2. PICK j \in 1 .. n : sells[j] = s
      BY <1>4
    <2>3. PICK k \in 1 .. N : BuyOf(k, n) = i /\ SellOf(k, n) = j
      BY <1>12
    <2>4. QED
      BY <1>5, <2>1, <2>2, <2>3
  <1>14. ASSUME NEW k \in 1 .. N, NEW b \in B, Better(b, bs[k])
         PROVE  \E i \in 1 .. k - 1 : bs[i] = b /\ ss[i] = ss[k]
    <2>1. PICK p \in 1 .. m : buys[p] = b
      BY <1>3
    <2>2. PICK i \in 1 .. N : BuyOf(i, n) = p /\ SellOf(i, n) = SellOf(k, n)
      BY <1>8, <1>12
    <2>3. bs[i] = b /\ ss[i] = ss[k]
      BY <1>5, <2>1, <2>2
    <2>4. p < BuyOf(k, n)
      BY <1>3, <1>5, <1>8, <1>14, <2>1
    <2>5. i < k
      BY <1>10, <2>2, <2>4
    <2>6. i \in 1 .. k - 1
      BY <1>6, <2>5
    <2>7. QED
      BY <2>3, <2>6
  <1>15. ASSUME NEW k \in 1 .. N, NEW s \in S, Better(s, ss[k])
         PROVE  \E i \in 1 .. k - 1 : ss[i] = s /\ bs[i] = bs[k]
    <2>1. PICK p \in 1 .. n : sells[p] = s
      BY <1>4
    <2>2. PICK i \in 1 .. N : BuyOf(i, n) = BuyOf(k, n) /\ SellOf(i, n) = p
      BY <1>8, <1>12
    <2>3. ss[i] = s /\ bs[i] = bs[k]
      BY <1>5, <2>1, <2>2
    <2>4. p < SellOf(k, n)
      BY <1>4, <1>5, <1>8, <1>15, <2>1
    <2>5. i < k
      BY <1>10, <2>2, <2>4
    <2>6. i \in 1 .. k - 1
      BY <1>6, <2>5
    <2>7. QED
      BY <2>3, <2>6
  <1>16. /\ B = SideOf(book, "buy") /\ S = SideOf(book, "sell")
         /\ buys = Merit(book, "buy") /\ sells = Merit(book, "sell")
    BY DEF B, S, buys, sells
  <1>17. PICK f : IsSweep(f, book, bs, ss, N) /\ Swept(book, buys, sells) = f[N]
    BY <1>7
  <1>18. QED
    BY <1>11, <1>13, <1>14, <1>15, <1>16, <1>17

-----------------------------------------------------------------------------
(***************************************************************************)
(* What the engine's result comes to.                                      *)
(***************************************************************************)
\* A trade within the limits and the hours of its two orders.
Within(t) ==
    /\ t.buy.user # t.sell.user
    /\ t.sell.limit <= t.price /\ t.price <= t.buy.limit
    /\ Max({t.buy.from, t.sell.from}) <= t.from /\ t.to <= Min({t.buy.to, t.sell.to})

\* BestFirst, of a result and a book.
BestFor(ts, book) ==
    /\ \A t \in ts :
          /\ Within(t)
          /\ \A o \in DOMAIN book :
                /\ o.side = "buy" /\ Better(o, t.buy) /\ Suits(o, t.sell)
                      => book[o] - Filled(o, ts) = 0
                /\ o.side = "sell" /\ Better(o, t.sell) /\ Suits(t.buy, o)
                      => book[o] - Filled(o, ts) = 0
    /\ \A b \in DOMAIN book : \A s \in DOMAIN book :
          b.side = "buy" /\ s.side = "sell" /\ Suits(b, s)
             => book[b] - Filled(b, ts) = 0 \/ book[s] - Filled(s, ts) = 0

\* A trade of two orders that suit each other.
LEMMA TradeTerms ==
    ASSUME NEW b \in Offers, NEW s \in Offers, Suits(b, s), NEW q \in Nat
    PROVE  TradeOf(b, s, q) \in ProposedTrade /\ Within(TradeOf(b, s, q))
  <1> DEFINE t == TradeOf(b, s, q)
  <1>1. \A a \in Offer : a.limit \in Nat /\ a.from \in Nat /\ a.to \in Nat
    BY DEF Offer
  <1>2. \A a \in Offers : a.limit \in Nat /\ a.from \in Nat /\ a.to \in Nat
    BY <1>1, MarketAssumption
  <1>3. b.user # s.user /\ s.limit <= b.limit
    BY DEF Suits, PricesCross
  <1>4. /\ Max({b.from, s.from}) \in Nat /\ Min({b.to, s.to}) \in Nat
    BY <1>2, MaxOfPair, MinOfPair
  <1> DEFINE from == Max({b.from, s.from})
             to == Min({b.to, s.to})
  <1>5. t = [buy |-> b, sell |-> s, kwh |-> q, price |-> Midpoint(b, s), from |-> from, to |-> to,
             clearing |-> 0]
    BY DEF TradeOf
  <1>6. /\ Midpoint(b, s) \in Int
        /\ s.limit <= Midpoint(b, s) /\ Midpoint(b, s) <= b.limit
    <2> DEFINE n == b.limit + s.limit + 1
    <2>1. n \in Nat /\ Midpoint(b, s) = n \div 2
      BY <1>2 DEF Midpoint
    <2>2. 2 * s.limit <= n /\ n <= 2 * b.limit + 1
      BY <1>2, <1>3
    <2> HIDE DEF n
    <2>3. n = 2 * (n \div 2) + (n % 2) /\ n % 2 \in 0 .. 1 /\ n \div 2 \in Nat
      BY <2>1, DivMod
    <2>4. QED
      BY <1>2, <2>1, <2>2, <2>3
  <1> HIDE DEF t, from, to
  <1>7. /\ t.buy = b /\ t.sell = s /\ t.kwh = q /\ t.price = Midpoint(b, s) /\ t.from = from
        /\ t.to = to
    BY <1>5
  <1>8. t \in ProposedTrade
    BY <1>4, <1>5, <1>6 DEF ProposedTrade, from, to
  <1>9. /\ Max({t.buy.from, t.sell.from}) <= t.from /\ t.to <= Min({t.buy.to, t.sell.to})
    BY <1>4, <1>7 DEF from, to
  <1>10. t.sell.limit <= t.price /\ t.price <= t.buy.limit
    BY <1>2, <1>3, <1>6, <1>7
  <1>11. QED
    BY <1>3, <1>7, <1>8, <1>9, <1>10 DEF t, Within

\* The engine's result is one, and what it leaves of an order is not below zero.
LEMMA BaselineBest ==
    ASSUME NEW book, BookOK(book)
    PROVE  MatchingResult(Baseline(book)) /\ BestFor(Baseline(book), book)
  <1>1. PICK bs, ss, f, N :
             /\ Listing(book, bs, ss, N) /\ IsSweep(f, book, bs, ss, N)
             /\ Swept(book, Merit(book, "buy"), Merit(book, "sell")) = f[N]
             /\ \A b \in SideOf(book, "buy") : \A s \in SideOf(book, "sell") :
                   \E k \in 1 .. N : bs[k] = b /\ ss[k] = s
             /\ \A k \in 1 .. N :
                   /\ \A b \in SideOf(book, "buy") :
                         Better(b, bs[k]) => \E i \in 1 .. k - 1 : bs[i] = b /\ ss[i] = ss[k]
                   /\ \A s \in SideOf(book, "sell") :
                         Better(s, ss[k]) => \E i \in 1 .. k - 1 : ss[i] = s /\ bs[i] = bs[k]
    BY LoopOrder
  <1> DEFINE left == f[N].left
             ts == f[N].trades
  <1>2. Baseline(book) = ts
    BY <1>1 DEF Baseline
  <1>3. SweptOK(f[N], N, book, bs, ss)
    BY <1>1, SweepKeeps
  <1>4. /\ left \in [DOMAIN book -> Nat] /\ IsFiniteSet(ts)
        /\ \A t \in ts : \E j \in 1 .. N : Made(t, j, left, bs, ss)
        /\ \A j \in 1 .. N : Suits(bs[j], ss[j]) => left[bs[j]] = 0 \/ left[ss[j]] = 0
        /\ \A o \in DOMAIN book : Filled(o, ts) = book[o] - left[o]
    BY <1>3 DEF SweptOK
  <1> HIDE DEF left, ts
  <1>5. /\ \A k \in 1 .. N : /\ bs[k] \in Offers /\ bs[k] \in DOMAIN book
                             /\ ss[k] \in Offers /\ ss[k] \in DOMAIN book
    BY <1>1 DEF Listing, BookOK
  <1>6. ASSUME NEW t \in ts
        PROVE  t \in ProposedTrade /\ t.kwh \in Nat /\ Within(t)
    <2>1. PICK j \in 1 .. N : Made(t, j, left, bs, ss)
      BY <1>4
    <2>2. t.kwh \in Nat /\ t = TradeOf(bs[j], ss[j], t.kwh) /\ Suits(bs[j], ss[j])
      BY <2>1 DEF Made
    <2>3. QED
      BY <1>5, <2>2, TradeTerms
  <1>7. MatchingResult(ts)
    BY <1>4, <1>6 DEF MatchingResult
  <1>8. \A o \in DOMAIN book : /\ book[o] - Filled(o, ts) = left[o]
                               /\ book[o] = 0 => left[o] = 0
    <2>1. ASSUME NEW o \in DOMAIN book
          PROVE  book[o] - Filled(o, ts) = left[o] /\ (book[o] = 0 => left[o] = 0)
      <3>1. Filled(o, ts) \in Nat
        BY <1>4, <1>6, FilledType
      <3>2. book[o] \in Nat /\ left[o] \in Nat /\ Filled(o, ts) = book[o] - left[o]
        BY <1>4 DEF BookOK
      <3>3. QED
        BY <3>1, <3>2
    <2>2. QED
      BY <2>1
  <1>9. \A o \in DOMAIN book : left[o] # 0 => o \in SideOf(book, o.side)
    <2>1. \A o \in DOMAIN book : book[o] \in Nat
      BY DEF BookOK
    <2>2. QED
      BY <1>8, <2>1 DEF SideOf
  <1>10. ASSUME NEW t \in ts, NEW o \in DOMAIN book
         PROVE  /\ o.side = "buy" /\ Better(o, t.buy) /\ Suits(o, t.sell) => left[o] = 0
                /\ o.side = "sell" /\ Better(o, t.sell) /\ Suits(t.buy, o) => left[o] = 0
    <2>1. PICK j \in 1 .. N : Made(t, j, left, bs, ss)
      BY <1>4
    <2>2. t.buy = bs[j] /\ t.sell = ss[j]
      BY <2>1, TradeFields DEF Made
    <2>3. ASSUME o.side = "buy", Better(o, t.buy), Suits(o, t.sell), left[o] # 0
          PROVE  FALSE
      <3>1. o \in SideOf(book, "buy")
        BY <1>9, <2>3
      <3>2. PICK i \in 1 .. j - 1 : bs[i] = o /\ ss[i] = ss[j]
        BY <1>1, <2>2, <2>3, <3>1
      <3>3. Suits(bs[i], ss[i]) /\ left[bs[i]] # 0
        BY <2>2, <2>3, <3>2
      <3>4. QED
        BY <2>1, <3>2, <3>3 DEF Made
    <2>4. ASSUME o.side = "sell", Better(o, t.sell), Suits(t.buy, o), left[o] # 0
          PROVE  FALSE
      <3>1. o \in SideOf(book, "sell")
        BY <1>9, <2>4
      <3>2. PICK i \in 1 .. j - 1 : ss[i] = o /\ bs[i] = bs[j]
        BY <1>1, <2>2, <2>4, <3>1
      <3>3. Suits(bs[i], ss[i]) /\ left[ss[i]] # 0
        BY <2>2, <2>4, <3>2
      <3>4. QED
        BY <2>1, <3>2, <3>3 DEF Made
    <2>5. QED
      BY <2>3, <2>4
  <1>11. ASSUME NEW b \in DOMAIN book, NEW s \in DOMAIN book, b.side = "buy", s.side = "sell",
                Suits(b, s)
         PROVE  left[b] = 0 \/ left[s] = 0
    <2>1. SUFFICES ASSUME left[b] # 0, left[s] # 0
                   PROVE  FALSE
      OBVIOUS
    <2>2. b \in SideOf(book, "buy") /\ s \in SideOf(book, "sell")
      BY <1>9, <1>11, <2>1
    <2>3. PICK k \in 1 .. N : bs[k] = b /\ ss[k] = s
      BY <1>1, <2>2
    <2>4. QED
      BY <1>4, <1>11, <2>1, <2>3
  <1>12. BestFor(ts, book)
    BY <1>6, <1>8, <1>10, <1>11 DEF BestFor
  <1>13. QED
    BY <1>2, <1>7, <1>12

-----------------------------------------------------------------------------
(***************************************************************************)
(* Rows, and the books that are read from them.                            *)
(***************************************************************************)
RowOK(o, row) == row \in Row /\ row.matched <= o.kwh

\* What a clearing has read are rows of placed orders, as they were once, and its result is
\* of these orders and of energy.  A fill that was flushed has passed the CHECK.
BookRead(r, placed) ==
    /\ r.read = [o \in DOMAIN r.read |-> r.read[o]]
    /\ DOMAIN r.read \subseteq placed
    /\ \A o \in DOMAIN r.read : RowOK(o, r.read[o])
    /\ MatchingResult(r.result)
    /\ \A t \in r.result : t.kwh \in Nat /\ t.buy \in DOMAIN r.read /\ t.sell \in DOMAIN r.read

RequestOK(r, placed) ==
    /\ r.op = "place" => r.order \in Offers
    /\ r.op = "cancel" => r.order \in placed
    /\ r.op \in {"insert", "update", "commit"} => BookRead(r, placed)
    /\ r.op = "commit" => WithinEnergy(r.read, r.result)

RowInv ==
    /\ Requested
    /\ \A w \in Workers : ClearingOK(request[w])
    /\ Placed \subseteq Offers /\ IsFiniteSet(Placed)
    /\ orders = [o \in Placed |-> orders[o]]
    /\ \A o \in Placed : RowOK(o, orders[o])
    /\ \A w \in Workers : RequestOK(request[w], Placed)

LEMMA OfferTypes == \A o \in Offers : o.kwh \in Nat /\ o.side \in {"buy", "sell"}
  <1>1. \A o \in Offer : o.kwh \in Nat /\ o.side \in {"buy", "sell"}
    BY DEF Offer
  <1>2. QED
    BY <1>1, MarketAssumption

LEMMA RowTypes == \A row \in Row : row.matched \in Nat /\ row.status \in OrderStatus
  BY DEF Row

\* The book that the engine is given.
LEMMA BookOf ==
    ASSUME NEW read, DOMAIN read \subseteq Offers, IsFiniteSet(DOMAIN read),
           \A o \in DOMAIN read : RowOK(o, read[o])
    PROVE  /\ BookOK(OrderBook(read)) /\ DOMAIN OrderBook(read) = DOMAIN read
           /\ \A o \in DOMAIN read : OrderBook(read)[o] = o.kwh - read[o].matched
  <1>1. OrderBook(read) = [o \in DOMAIN read |-> Remaining(o, read[o])]
    BY DEF OrderBook
  <1>2. \A o \in DOMAIN read : /\ Remaining(o, read[o]) = o.kwh - read[o].matched
                               /\ Remaining(o, read[o]) \in Nat
    BY OfferTypes, RowTypes DEF Remaining, RowOK
  <1>3. QED
    BY <1>1, <1>2 DEF BookOK

\* A step of a request that leaves the tables alone.
LEMMA RowsGo ==
    ASSUME RowInv, NEW w \in Workers, NEW r, request' = [request EXCEPT ![w] = r],
           UNCHANGED tables, ClearingOK(r), RequestOK(r, Placed)
    PROVE  RowInv'
  <1>1. /\ Requested' /\ request'[w] = r
        /\ \A v \in Workers \ {w} : request'[v] = request[v]
    BY Put DEF RowInv
  <1>2. orders' = orders /\ Placed' = Placed
    BY DEF tables, Placed
  <1>3. \A v \in Workers : ClearingOK(request'[v]) /\ RequestOK(request'[v], Placed)
    BY <1>1 DEF RowInv
  <1>4. /\ \A v \in Workers : ClearingOK(request[v])'
        /\ \A v \in Workers : RequestOK(request[v], Placed)'
    BY <1>2, <1>3 DEF ClearingOK, RequestOK, BookRead
  <1>5. /\ (Placed \subseteq Offers)' /\ IsFiniteSet(Placed)'
        /\ (orders = [o \in Placed |-> orders[o]])'
        /\ \A o \in Placed' : RowOK(o, orders[o])'
    BY <1>2 DEF RowInv, RowOK
  <1>6. QED
    BY <1>1, <1>4, <1>5 DEF RowInv

\* A request that writes rows, and ends.
LEMMA RowsEnd ==
    ASSUME RowInv, NEW w \in Workers, request' = [request EXCEPT ![w] = Free],
           Placed \subseteq Placed', Placed' \subseteq Offers, IsFiniteSet(Placed'),
           orders' = [o \in Placed' |-> orders'[o]],
           \A o \in Placed' : RowOK(o, orders'[o])
    PROVE  RowInv'
  <1>1. /\ Requested' /\ request'[w] = Free
        /\ \A v \in Workers \ {w} : request'[v] = request[v]
    BY Put DEF RowInv
  <1>2. ASSUME NEW v \in Workers
        PROVE  ClearingOK(request'[v]) /\ RequestOK(request'[v], Placed')
    <2>1. CASE v = w
      BY <1>1, <2>1 DEF ClearingOK, RequestOK, Free
    <2>2. CASE v # w
      <3>1. ClearingOK(request[v]) /\ RequestOK(request[v], Placed) /\ request'[v] = request[v]
        BY <1>1, <2>2 DEF RowInv
      <3>2. RequestOK(request[v], Placed')
        BY <3>1 DEF RequestOK, BookRead
      <3>3. QED
        BY <3>1, <3>2
    <2>3. QED
      BY <2>1, <2>2
  <1>3. /\ \A v \in Workers : ClearingOK(request[v])'
        /\ \A v \in Workers : RequestOK(request[v], Placed)'
    BY <1>2 DEF ClearingOK, RequestOK, BookRead
  <1>4. \A o \in Placed' : RowOK(o, orders[o])'
    BY DEF RowOK
  <1>5. QED
    BY <1>1, <1>3, <1>4 DEF RowInv

\* The amounts of a result and of what it fills.
LEMMA ResultFits ==
    ASSUME NEW r, NEW placed, placed \subseteq Offers, IsFiniteSet(placed), BookRead(r, placed)
    PROVE  /\ IsFiniteSet(r.result)
           /\ \A t \in r.result : /\ t \in ProposedTrade /\ t.kwh \in Nat
                                  /\ t.buy \in DOMAIN r.read /\ t.sell \in DOMAIN r.read
           /\ \A o \in DOMAIN r.read : Filled(o, r.result) \in Nat
  <1>1. IsFiniteSet(r.result) /\ \A t \in r.result : t \in ProposedTrade /\ t.kwh \in Nat
    BY DEF BookRead, MatchingResult
  <1>2. \A o \in DOMAIN r.read : Filled(o, r.result) \in Nat
    BY <1>1, FilledType
  <1>3. QED
    BY <1>1, <1>2 DEF BookRead

LEMMA PlaceRows ==
    ASSUME RowInv, NEW w \in Workers, PlaceCommit(w)
    PROVE  RowInv'
  <1> DEFINE o == request[w].order
             Put0(p) == IF p = o THEN [status |-> "open", matched |-> 0] ELSE orders[p]
  <1>1. /\ request' = [request EXCEPT ![w] = Free] /\ o \in Offers
        /\ orders' = [p \in Placed \cup {o} |-> Put0(p)]
    BY DEF PlaceCommit, Go, Doing, RowInv, RequestOK
  <1>2. RowOK(o, [status |-> "open", matched |-> 0])
    BY <1>1, OfferTypes DEF RowOK, Row, OrderStatus
  <1>3. \A p \in Placed \cup {o} : RowOK(p, Put0(p))
    BY <1>2 DEF RowInv
  <1> HIDE DEF o, Put0
  <1>4. Placed' = Placed \cup {o}
    BY <1>1 DEF Placed
  <1>5. /\ Placed' \subseteq Offers /\ IsFiniteSet(Placed')
        /\ orders' = [p \in Placed' |-> orders'[p]]
        /\ \A p \in Placed' : RowOK(p, orders'[p])
    BY <1>1, <1>3, <1>4, FS_AddElement DEF RowInv
  <1>6. QED
    BY <1>1, <1>4, <1>5, RowsEnd

LEMMA CancelRows ==
    ASSUME RowInv, NEW w \in Workers, CancelCommit(w)
    PROVE  /\ RowInv' /\ Placed' = Placed
           /\ \A p \in Placed : orders'[p].matched = orders[p].matched
  <1> DEFINE o == request[w].order
             row == [orders[o] EXCEPT !.status = "cancelled"]
  <1>1. /\ request' = [request EXCEPT ![w] = Free] /\ o \in Placed
        /\ orders' = [orders EXCEPT ![o] = row]
    BY DEF CancelCommit, Go, Doing, RowInv, RequestOK
  <1>2. RowOK(o, orders[o]) /\ orders = [p \in Placed |-> orders[p]]
    BY <1>1 DEF RowInv
  <1>3. row \in Row /\ row.matched = orders[o].matched
    BY <1>2 DEF RowOK, Row, OrderStatus
  <1> HIDE DEF o, row
  <1>4. RowOK(o, row)
    BY <1>2, <1>3 DEF RowOK
  <1>5. /\ Placed' = Placed /\ orders' = [p \in Placed |-> IF p = o THEN row ELSE orders[p]]
    BY <1>1, <1>2 DEF Placed
  <1>6. orders' = [p \in Placed' |-> orders'[p]]
    BY <1>5
  <1>7. \A p \in Placed' : RowOK(p, orders'[p])
    BY <1>4, <1>5 DEF RowInv
  <1>8. \A p \in Placed : orders'[p].matched = orders[p].matched
    BY <1>3, <1>5
  <1>9. RowInv'
    BY <1>1, <1>5, <1>6, <1>7, RowsEnd DEF RowInv
  <1>10. QED
    BY <1>5, <1>8, <1>9

LEMMA FillRow ==
    ASSUME NEW o, o.kwh \in Nat, NEW row, NEW q \in Nat, row.matched \in Nat,
           row.matched + q <= o.kwh
    PROVE  RowOK(o, Fill(o, row, q)) /\ Fill(o, row, q).matched = row.matched + q
  <1> DEFINE m == row.matched + q
             st == IF m >= o.kwh THEN "filled" ELSE "partially_filled"
  <1>1. Fill(o, row, q) = [status |-> st, matched |-> m]
    BY DEF Fill
  <1>2. m \in Nat /\ m <= o.kwh /\ st \in OrderStatus
    BY DEF OrderStatus
  <1> HIDE DEF m, st
  <1>3. QED
    BY <1>1, <1>2 DEF RowOK, Row, m

LEMMA ClearRows ==
    ASSUME RowInv, NEW w \in Workers, ClearCommit(w)
    PROVE  RowInv'
  <1> DEFINE ts == request[w].result
             read == request[w].read
             Touched(o) == \E t \in ts : o \in {t.buy, t.sell}
             NewRow(o) == Fill(o, read[o], Filled(o, ts))
  <1>1. /\ request' = [request EXCEPT ![w] = Free] /\ BookRead(request[w], Placed)
        /\ WithinEnergy(read, ts)
        /\ orders' = [o \in Placed |-> IF Touched(o) THEN NewRow(o) ELSE orders[o]]
    BY DEF ClearCommit, Go, Doing, RowInv, RequestOK
  <1>2. /\ \A t \in ts : t.buy \in DOMAIN read /\ t.sell \in DOMAIN read
        /\ \A o \in DOMAIN read : /\ Filled(o, ts) \in Nat
                                  /\ read[o].matched + Filled(o, ts) <= o.kwh
    BY <1>1, ResultFits DEF RowInv, WithinEnergy
  <1>3. /\ DOMAIN read \subseteq Placed /\ Placed \subseteq Offers
        /\ \A o \in DOMAIN read : RowOK(o, read[o])
    BY <1>1 DEF RowInv, BookRead
  <1>4. \A o \in Placed : Touched(o) => RowOK(o, NewRow(o))
    <2> SUFFICES ASSUME NEW o \in Placed, Touched(o)
                 PROVE  RowOK(o, NewRow(o))
      OBVIOUS
    <2>1. o \in DOMAIN read
      BY <1>2
    <2>2. o.kwh \in Nat /\ read[o].matched \in Nat
      BY <1>3, <2>1, OfferTypes, RowTypes DEF RowOK
    <2>3. QED
      BY <1>2, <2>1, <2>2, FillRow
  <1> HIDE DEF ts, read, Touched, NewRow
  <1>5. Placed' = Placed
    BY <1>1 DEF Placed
  <1>6. orders' = [o \in Placed' |-> orders'[o]]
    BY <1>1, <1>5
  <1>7. \A o \in Placed' : RowOK(o, orders'[o])
    BY <1>1, <1>4, <1>5 DEF RowInv
  <1>8. QED
    BY <1>1, <1>5, <1>6, <1>7, RowsEnd DEF RowInv

\* What a clearing reads, when it matches and when it fills.
LEMMA RowsRead ==
    ASSUME RowInv, NEW d
    PROVE  /\ DOMAIN ActiveRows(d) \subseteq Placed
           /\ ActiveRows(d) = [o \in DOMAIN ActiveRows(d) |-> ActiveRows(d)[o]]
           /\ \A o \in DOMAIN ActiveRows(d) : RowOK(o, ActiveRows(d)[o])
  BY DEF RowInv, ActiveRows, ActiveIn

LEMMA MatchRows ==
    ASSUME RowInv, NEW w \in Workers, Match(w)
    PROVE  RowInv'
  <1> DEFINE read == ActiveRows(request[w].date)
             book == OrderBook(read)
             Next0(ts) == [op |-> "insert", date |-> request[w].date, read |-> read, result |-> ts]
  <1>1. UNCHANGED tables
    BY DEF Match
  <1>2. PICK ts \in Proposals(book) :
          request' = [request EXCEPT ![w] = IF Valid(ts, book) THEN Next0(ts) ELSE Free]
    BY DEF Match, Go
  <1>3. /\ DOMAIN read \subseteq Placed /\ read = [o \in DOMAIN read |-> read[o]]
        /\ \A o \in DOMAIN read : RowOK(o, read[o])
    BY RowsRead
  <1>4. DOMAIN read \subseteq Offers /\ IsFiniteSet(DOMAIN read)
    BY <1>3, FS_Subset DEF RowInv
  <1>5. BookOK(book) /\ DOMAIN book = DOMAIN read
    BY <1>3, <1>4, BookOf
  <1>6. MatchingResult(ts)
    BY <1>2, <1>5, BaselineBest DEF Proposals
  <1> HIDE DEF read, book
  <1>7. CASE Valid(ts, book)
    <2> DEFINE r == Next0(ts)
    <2>1. /\ r = [op |-> r.op, date |-> r.date, read |-> r.read, result |-> r.result]
          /\ r.op = "insert" /\ r.read = read /\ r.result = ts
      OBVIOUS
    <2>2. request' = [request EXCEPT ![w] = r]
      BY <1>2, <1>7
    <2> HIDE DEF r
    <2>6. \A t \in ts : t.kwh \in Nat /\ t.buy \in DOMAIN read /\ t.sell \in DOMAIN read
      <3>1. \A t \in ProposedTrade : t.kwh \in Int
        BY DEF ProposedTrade
      <3>2. \A t \in ts : t.kwh \in Int
        BY <1>6, <3>1 DEF MatchingResult
      <3>3. QED
        BY <1>5, <1>7, <3>2 DEF Valid
    <2>3. BookRead(r, Placed)
      BY <1>3, <1>6, <2>1, <2>6 DEF BookRead
    <2>4. ClearingOK(r) /\ RequestOK(r, Placed)
      BY <2>1, <2>3 DEF ClearingOK, RequestOK
    <2>5. QED
      BY <1>1, <2>2, <2>4, RowsGo
  <1>8. CASE ~Valid(ts, book)
    <2>1. request' = [request EXCEPT ![w] = Free]
      BY <1>2, <1>8
    <2>2. QED
      BY <1>1, <2>1, RowsGo DEF ClearingOK, RequestOK, Free
  <1>9. QED
    BY <1>7, <1>8

\* A clearing that goes on keeps its result, and reads the rows again or has them checked.
LEMMA GoOnRows ==
    ASSUME RowInv, NEW w \in Workers, UNCHANGED tables, NEW op \in {"update", "commit"},
           request[w].op \in {"insert", "update"}, NEW read,
           \/ read = request[w].read
           \/ /\ read = ActiveRows(request[w].date)
              /\ \A t \in request[w].result : {t.buy, t.sell} \subseteq DOMAIN read,
           op = "commit" => WithinEnergy(read, request[w].result),
           request' = [request EXCEPT ![w] = [op |-> op, date |-> request[w].date, read |-> read,
                                              result |-> request[w].result]]
    PROVE  RowInv'
  <1> DEFINE r == [op |-> op, date |-> request[w].date, read |-> read,
                   result |-> request[w].result]
  <1>1. BookRead(request[w], Placed)
    BY DEF RowInv, RequestOK
  <1>2. /\ request' = [request EXCEPT ![w] = r] /\ ClearingOK(r)
        /\ r.op = op /\ r.read = read /\ r.result = request[w].result
    BY DEF ClearingOK
  <1> HIDE DEF r
  <1>3. /\ DOMAIN read \subseteq Placed /\ read = [o \in DOMAIN read |-> read[o]]
        /\ \A o \in DOMAIN read : RowOK(o, read[o])
    BY <1>1, RowsRead DEF BookRead
  <1>4. \A t \in request[w].result : t.buy \in DOMAIN read /\ t.sell \in DOMAIN read
    BY <1>1 DEF BookRead
  <1>5. BookRead(r, Placed)
    BY <1>1, <1>2, <1>3, <1>4 DEF BookRead
  <1>6. RequestOK(r, Placed)
    BY <1>2, <1>5 DEF RequestOK
  <1>7. QED
    BY <1>2, <1>6, RowsGo

\* What an insert and an update make of a request, when they do not end it.
GoneOn(w, op, read) ==
    /\ request[w].op \in {"insert", "update"}
    /\ \/ request[w].op = "update" /\ read = request[w].read
       \/ /\ read = ActiveRows(request[w].date)
          /\ \A t \in request[w].result : {t.buy, t.sell} \subseteq DOMAIN read
    /\ op = "commit" => WithinEnergy(read, request[w].result)
    /\ request' = [request EXCEPT ![w] = [op |-> op, date |-> request[w].date,
                                          read |-> read, result |-> request[w].result]]

LEMMA GoesOn ==
    ASSUME RowInv, NEW w \in Workers, Insert(w) \/ Update(w),
           request' # [request EXCEPT ![w] = Free]
    PROVE  \E op \in {"update", "commit"} : \E read : GoneOn(w, op, read)
  <1> DEFINE rows == ActiveRows(request[w].date)
  <1>1. request[w].op \in {"insert", "update"} /\ ClearingOK(request[w])
    BY DEF Insert, Update, Doing, RowInv
  <1>2. request[w] = [op |-> request[w].op, date |-> request[w].date, read |-> request[w].read,
                      result |-> request[w].result]
    BY <1>1 DEF ClearingOK
  <1>3. [request[w] EXCEPT !.op = "commit"]
           = [op |-> "commit", date |-> request[w].date, read |-> request[w].read,
              result |-> request[w].result]
    BY <1>2
  <1>4. CASE Insert(w)
    <2>1. /\ \A t \in request[w].result : {t.buy, t.sell} \subseteq DOMAIN rows
          /\ request' = [request EXCEPT ![w] = [op |-> "update", date |-> request[w].date,
                                                read |-> rows, result |-> request[w].result]]
      BY <1>4 DEF Insert, Go
    <2>2. GoneOn(w, "update", rows)
      BY <1>1, <2>1 DEF GoneOn
    <2>3. QED
      BY <2>2
  <1>5. CASE Update(w)
    <2>1. /\ WithinEnergy(request[w].read, request[w].result) /\ request[w].op = "update"
          /\ request' = [request EXCEPT ![w] = [request[w] EXCEPT !.op = "commit"]]
      BY <1>5 DEF Update, Go, Doing
    <2>2. request' = [request EXCEPT ![w] = [op |-> "commit", date |-> request[w].date,
                                             read |-> request[w].read,
                                             result |-> request[w].result]]
      BY <1>3, <2>1
    <2>3. GoneOn(w, "commit", request[w].read)
      BY <1>1, <2>1, <2>2 DEF GoneOn
    <2>4. QED
      BY <2>3
  <1>6. QED
    BY <1>4, <1>5

LEMMA RowsKept == RowInv /\ [Next]_vars => RowInv'
  <1> SUFFICES ASSUME RowInv, [Next]_vars
               PROVE  RowInv'
    OBVIOUS
  <1>1. CASE UNCHANGED vars
    BY <1>1 DEF vars, tables, RowInv, Requested, ClearingOK, RequestOK, BookRead, RowOK, Placed
  <1>2. ASSUME NEW w \in Workers, NEW d \in Dates,
               OpenCheck(w, d) \/ CloseCheck(w, d) \/ ClearCheck(w, d)
        PROVE  RowInv'
    BY <1>2, RowsGo DEF OpenCheck, CloseCheck, ClearCheck, Begin, ClearingOK, RequestOK
  <1>3. ASSUME NEW w \in Workers, NEW o \in Offers, PlaceCheck(w, o) \/ CancelCheck(w, o)
        PROVE  RowInv'
    BY <1>3, RowsGo DEF PlaceCheck, CancelCheck, Begin, ClearingOK, RequestOK
  <1>4. ASSUME NEW w \in Workers, OpenCommit(w) \/ CloseCommit(w)
        PROVE  RowInv'
    <2>1. request' = [request EXCEPT ![w] = Free] /\ orders' = orders /\ Placed' = Placed
      BY <1>4 DEF OpenCommit, CloseCommit, Go, Placed
    <2>2. QED
      BY <2>1, RowsEnd DEF RowInv
  <1>5. ASSUME NEW w \in Workers, Insert(w) \/ Update(w) \/ Fails(w)
        PROVE  RowInv'
    <2>1. UNCHANGED tables
      BY <1>5 DEF Insert, Update, Fails
    <2>2. CASE request' = [request EXCEPT ![w] = Free]
      BY <2>1, <2>2, RowsGo DEF ClearingOK, RequestOK, Free
    <2>3. CASE (Insert(w) \/ Update(w)) /\ request' # [request EXCEPT ![w] = Free]
      BY <2>1, <2>3, GoesOn, GoOnRows DEF GoneOn
    <2>4. QED
      BY <1>5, <2>2, <2>3 DEF Fails, Go
  <1>6. QED
    BY <1>1, <1>2, <1>3, <1>4, <1>5, MatchRows, PlaceRows, CancelRows, ClearRows DEF Next

LEMMA RowsInit == Init => RowInv
  <1> SUFFICES ASSUME Init PROVE RowInv
    OBVIOUS
  <1>1. Placed = {} /\ orders = [o \in Placed |-> orders[o]]
    BY DEF Init, Placed
  <1>2. Requested /\ \A w \in Workers : request[w] = Free
    BY DEF Init, Requested
  <1>3. QED
    BY <1>1, <1>2, FS_EmptySet DEF RowInv, ClearingOK, RequestOK, Free

\* Over any book that the orders and the interleaved requests of any market can produce,
\* the baseline engine trades within the terms of both orders, leaves no two orders that
\* suit each other with energy, and serves no order before a better one
\* (market_matching.py, the merit order and the double loop).
THEOREM MeritOrderServed == Spec => []BestFirst
  <1>1. RowInv => BestFirst
    <2> SUFFICES ASSUME RowInv, NEW w \in Workers, ByBaseline(w)
                 PROVE  LET ts == request[w].result
                        IN  /\ \A t \in ts :
                                 /\ t.buy.user # t.sell.user
                                 /\ t.sell.limit <= t.price /\ t.price <= t.buy.limit
                                 /\ Max({t.buy.from, t.sell.from}) <= t.from
                                 /\ t.to <= Min({t.buy.to, t.sell.to})
                                 /\ \A o \in Book(w) :
                                      /\ o.side = "buy" /\ Better(o, t.buy) /\ Suits(o, t.sell)
                                           => Left(w, o) = 0
                                      /\ o.side = "sell" /\ Better(o, t.sell) /\ Suits(t.buy, o)
                                           => Left(w, o) = 0
                            /\ \A b \in Book(w) : \A s \in Book(w) :
                                 b.side = "buy" /\ s.side = "sell" /\ Suits(b, s)
                                    => Left(w, b) = 0 \/ Left(w, s) = 0
      BY DEF BestFirst
    <2> DEFINE read == request[w].read
               book == OrderBook(read)
               ts == request[w].result
    <2>1. ts = Baseline(book) /\ BookRead(request[w], Placed)
      BY DEF ByBaseline, Doing, RowInv, RequestOK
    <2>2. /\ DOMAIN read \subseteq Offers /\ IsFiniteSet(DOMAIN read)
          /\ \A o \in DOMAIN read : RowOK(o, read[o])
      BY <2>1, FS_Subset DEF RowInv, BookRead
    <2>3. /\ BookOK(book) /\ DOMAIN book = Book(w)
          /\ \A o \in Book(w) : Left(w, o) = book[o] - Filled(o, ts)
      BY <2>2, BookOf DEF Book, Left, Remaining
    <2>4. BestFor(ts, book)
      BY <2>1, <2>3, BaselineBest
    <2> HIDE DEF read, book, ts
    <2>5. /\ \A t \in ts :
               /\ t.buy.user # t.sell.user
               /\ t.sell.limit <= t.price /\ t.price <= t.buy.limit
               /\ Max({t.buy.from, t.sell.from}) <= t.from
               /\ t.to <= Min({t.buy.to, t.sell.to})
               /\ \A o \in Book(w) :
                    /\ o.side = "buy" /\ Better(o, t.buy) /\ Suits(o, t.sell) => Left(w, o) = 0
                    /\ o.side = "sell" /\ Better(o, t.sell) /\ Suits(t.buy, o) => Left(w, o) = 0
          /\ \A b \in Book(w) : \A s \in Book(w) :
               b.side = "buy" /\ s.side = "sell" /\ Suits(b, s)
                  => Left(w, b) = 0 \/ Left(w, s) = 0
      BY <2>3, <2>4 DEF BestFor, Within
    <2>6. QED
      BY <2>5 DEF ts
  <1>2. QED
    BY <1>1, RowsInit, RowsKept, PTL DEF Spec

-----------------------------------------------------------------------------
(***************************************************************************)
(* Energy.                                                                 *)
(***************************************************************************)
Clearing(w) == request[w].op \in {"insert", "update", "commit"}

\* The table trades is finite and of placed orders.  As long as requests do not overlap, a
\* clearing's book is still what the table says, and the trades add up to it.
EnergyInv ==
    /\ IsFiniteSet(trades)
    /\ \A t \in trades : t.kwh \in Nat /\ t.buy \in Placed /\ t.sell \in Placed
    /\ ~overlapped => /\ \A w \in Workers : Clearing(w) =>
                            request[w].read = ActiveRows(request[w].date)
                      /\ \A o \in Placed : Filled(o, trades) = orders[o].matched

MarketInv == KeyInv /\ TurnInv /\ RowInv /\ EnergyInv

\* Trades as rows of the n-th insert.
RowsOf(ts, n) == {TradeRow(t, n) : t \in ts}

Amounts(ts) == IsFiniteSet(ts) /\ \A t \in ts : t.kwh \in Nat

\* The energy of the trades of two sets, one of them as rows of the table.
LEMMA FilledUnion ==
    ASSUME NEW ts, Amounts(ts), NEW n, NEW us, Amounts(us), OnePerKey(ts), Apart(ts, us), NEW o
    PROVE  /\ IsFiniteSet(us \cup RowsOf(ts, n))
           /\ Filled(o, us \cup RowsOf(ts, n)) = Filled(o, us) + Filled(o, ts)
  <1> DEFINE row == [t \in ts |-> TradeRow(t, n)]
             new == {TradeRow(t, n) : t \in ts}
             Of(vs) == {v \in vs : o \in {v.buy, v.sell}}
             all == us \cup new
             f == [v \in all |-> v.kwh]
             g == [t \in ts |-> t.kwh]
             h == [u \in us |-> u.kwh]
  <1>0. /\ IsFiniteSet(ts) /\ \A t \in ts : t.kwh \in Nat
        /\ IsFiniteSet(us) /\ \A u \in us : u.kwh \in Nat
    BY DEF Amounts
  <1>1. \A t \in ts : /\ row[t] = TradeRow(t, n) /\ row[t] \in new
                      /\ row[t].kwh = t.kwh /\ row[t].buy = t.buy /\ row[t].sell = t.sell
                      /\ row[t].from = t.from
    BY DEF TradeRow
  <1>2. new = {row[t] : t \in ts}
    OBVIOUS
  <1>3. \A v \in all : f[v] = v.kwh
    OBVIOUS
  <1>4. \A t \in ts : g[t] = t.kwh
    OBVIOUS
  <1>5. \A u \in us : h[u] = u.kwh
    OBVIOUS
  <1>6. /\ Filled(o, all) = SumFunctionOnSet(f, Of(all))
        /\ Filled(o, ts) = SumFunctionOnSet(g, Of(ts))
        /\ Filled(o, us) = SumFunctionOnSet(h, Of(us))
    BY DEF Filled
  <1> HIDE DEF row, f, g, h
  <1>7. \A t \in ts : \A v \in ts : row[t] = row[v] => t = v
    <2> SUFFICES ASSUME NEW t \in ts, NEW v \in ts, row[t] = row[v]
                 PROVE  t = v
      OBVIOUS
    <2>1. SameKey(t, v)
      BY <1>1 DEF SameKey
    <2>2. QED
      BY <2>1 DEF OnePerKey
  <1>8. new \cap us = {}
    <2> SUFFICES ASSUME NEW t \in ts, row[t] \in us
                 PROVE  FALSE
      BY <1>2
    <2>1. SameKey(t, row[t])
      BY <1>1 DEF SameKey
    <2>2. QED
      BY <2>1 DEF Apart
  <1>9. IsFiniteSet(new)
    BY <1>0, <1>2, ImageFinite
  <1> HIDE DEF new
  <1>10. IsFiniteSet(all)
    BY <1>0, <1>9, FS_Union
  <1>11. Of(all) = Of(us) \cup Of(new) /\ Of(us) \cap Of(new) = {}
    BY <1>8
  <1>12. Of(new) = {row[t] : t \in Of(ts)}
    BY <1>1, <1>2
  <1>13. /\ IsFiniteSet(Of(us)) /\ IsFiniteSet(Of(ts)) /\ IsFiniteSet(Of(new))
         /\ Of(us) \subseteq us /\ Of(ts) \subseteq ts /\ Of(new) \subseteq new
    BY <1>0, <1>9, FS_Subset
  <1>14. \A v \in new : f[v] \in Int
    BY <1>0, <1>1, <1>2, <1>3
  <1>15. /\ \A v \in us : f[v] \in Int /\ f[v] = h[v]
         /\ \A t \in ts : g[t] \in Int /\ f[row[t]] = g[t]
    BY <1>0, <1>1, <1>3, <1>4, <1>5
  <1> DEFINE A == Of(us)
             B == Of(new)
             C == Of(ts)
  <1>16. /\ Of(all) = A \cup B /\ A \cap B = {} /\ IsFiniteSet(A) /\ IsFiniteSet(B)
         /\ \A v \in A \cup B : f[v] \in Int
    BY <1>11, <1>13, <1>14, <1>15
  <1>17. /\ IsFiniteSet(C) /\ B = {row[t] : t \in C}
         /\ \A t \in C : \A v \in C : row[t] = row[v] => t = v
         /\ \A t \in C : g[t] \in Int /\ f[row[t]] = g[t]
    BY <1>7, <1>12, <1>13, <1>15
  <1>18. \A v \in A : f[v] = h[v]
    BY <1>13, <1>15
  <1>19. /\ Filled(o, all) = SumFunctionOnSet(f, A \cup B)
         /\ Filled(o, ts) = SumFunctionOnSet(g, C) /\ Filled(o, us) = SumFunctionOnSet(h, A)
    BY <1>6, <1>16
  <1> HIDE DEF Of, A, B, C, all
  <1>20. SumFunctionOnSet(f, A \cup B) = SumFunctionOnSet(f, A) + SumFunctionOnSet(f, B)
    BY <1>16, SumUnion
  <1>21. SumFunctionOnSet(f, B) = SumFunctionOnSet(g, C)
    BY <1>17, SumRenamed
  <1>22. SumFunctionOnSet(f, A) = SumFunctionOnSet(h, A)
    BY <1>16, <1>18, SumSame
  <1>23. QED
    BY <1>10, <1>19, <1>20, <1>21, <1>22 DEF all, new, RowsOf

\* A step that leaves orders and trades alone.
LEMMA EnergyGo ==
    ASSUME MarketInv, NEW w \in Workers, NEW r, request' = [request EXCEPT ![w] = r],
           orders' = orders, trades' = trades, ~overlapped' => ~overlapped,
           ~overlapped /\ r.op \in {"insert", "update", "commit"} => r.read = ActiveRows(r.date)
    PROVE  EnergyInv'
  <1>1. /\ request'[w] = r
        /\ \A v \in Workers \ {w} : request'[v] = request[v]
    BY Put DEF MarketInv, RowInv
  <1>2. EnergyInv /\ Placed' = Placed
    BY DEF MarketInv, Placed
  <1>4. ASSUME ~overlapped'
        PROVE  \A v \in Workers :
                  (Clearing(v) => request[v].read = ActiveRows(request[v].date))'
    <2>1. ~overlapped
      BY <1>4
    <2>2. \A v \in Workers : Clearing(v) => request[v].read = ActiveRows(request[v].date)
      BY <1>2, <2>1 DEF EnergyInv
    <2>3. ASSUME NEW v \in Workers, Clearing(v)'
          PROVE  request'[v].read = ActiveRows(request[v].date)'
      <3>1. request'[v].read = ActiveRows(request'[v].date)
        BY <1>1, <2>1, <2>2, <2>3 DEF Clearing
      <3>2. ActiveRows(request[v].date)' = [o \in {p \in Placed' : p.date = request'[v].date
                                                     /\ Active(orders'[p])} |-> orders'[o]]
        BY DEF ActiveRows, ActiveIn, Active
      <3>3. ActiveRows(request'[v].date) = [o \in {p \in Placed : p.date = request'[v].date
                                                     /\ Active(orders[p])} |-> orders[o]]
        BY DEF ActiveRows, ActiveIn
      <3>4. QED
        BY <1>2, <3>1, <3>2, <3>3
    <2>4. QED
      BY <2>3
  <1>6. IsFiniteSet(trades') /\ \A t \in trades' : t.kwh \in Nat /\ t.buy \in Placed' /\ t.sell \in Placed'
    BY <1>2 DEF EnergyInv
  <1>7. ~overlapped' => \A o \in Placed' : Filled(o, trades') = orders'[o].matched
    BY <1>2 DEF EnergyInv
  <1>8. QED
    BY <1>4, <1>6, <1>7 DEF EnergyInv

\* A request that writes and ends leaves no clearing, when it was alone.
LEMMA NoClearing ==
    ASSUME MarketInv, NEW w \in Workers, Serving(w), Go(w, Free), ~overlapped'
    PROVE  ~overlapped /\ \A v \in Workers : ~Clearing(v)'
  <1>1. /\ request'[w] = Free
        /\ \A v \in Workers \ {w} : request'[v] = request[v]
    BY Put DEF MarketInv, RowInv, Go
  <1>2. ~overlapped
    BY DEF Go
  <1>3. \A v \in Workers \ {w} : request[v].op = "free"
    BY <1>2 DEF MarketInv, TurnInv, Alone, Serving, Doing
  <1>4. QED
    BY <1>1, <1>2, <1>3 DEF Clearing, Free

LEMMA PlaceEnergy ==
    ASSUME MarketInv, NEW w \in Workers, PlaceCommit(w)
    PROVE  EnergyInv'
  <1> DEFINE o == request[w].order
  <1>1. /\ Serving(w) /\ Go(w, Free) /\ o \notin Placed /\ trades' = trades
        /\ orders' = [p \in Placed \cup {o} |->
                        IF p = o THEN [status |-> "open", matched |-> 0] ELSE orders[p]]
    BY DEF PlaceCommit, Serving, Doing
  <1> HIDE DEF o
  <1>2. /\ Placed' = Placed \cup {o} /\ orders'[o].matched = 0
        /\ \A p \in Placed : orders'[p] = orders[p]
    BY <1>1 DEF Placed
  <1>3. EnergyInv
    BY DEF MarketInv
  <1>4. Filled(o, trades) = 0
    <2>1. \A t \in trades : o \notin {t.buy, t.sell}
      BY <1>1, <1>3 DEF EnergyInv
    <2>2. QED
      BY <1>3, <2>1, FilledType DEF EnergyInv
  <1>5. ASSUME ~overlapped'
        PROVE  /\ \A v \in Workers : ~Clearing(v)'
               /\ \A p \in Placed' : Filled(p, trades') = orders'[p].matched
    <2>1. ~overlapped /\ \A v \in Workers : ~Clearing(v)'
      BY <1>1, <1>5, NoClearing
    <2>2. \A p \in Placed : Filled(p, trades) = orders[p].matched
      BY <1>3, <2>1 DEF EnergyInv
    <2>3. QED
      BY <1>1, <1>2, <1>4, <2>1, <2>2
  <1>6. QED
    BY <1>1, <1>2, <1>3, <1>5 DEF EnergyInv

LEMMA CancelEnergy ==
    ASSUME MarketInv, NEW w \in Workers, CancelCommit(w)
    PROVE  EnergyInv'
  <1>1. Serving(w) /\ Go(w, Free) /\ trades' = trades
    BY DEF CancelCommit, Serving, Doing
  <1>2. Placed' = Placed /\ \A p \in Placed : orders'[p].matched = orders[p].matched
    BY CancelRows DEF MarketInv
  <1>3. EnergyInv
    BY DEF MarketInv
  <1>4. ASSUME ~overlapped'
        PROVE  /\ \A v \in Workers : ~Clearing(v)'
               /\ \A p \in Placed' : Filled(p, trades') = orders'[p].matched
    <2>1. ~overlapped /\ \A v \in Workers : ~Clearing(v)'
      BY <1>1, <1>4, NoClearing
    <2>2. QED
      BY <1>1, <1>2, <1>3, <2>1 DEF EnergyInv
  <1>5. QED
    BY <1>1, <1>2, <1>3, <1>4 DEF EnergyInv

LEMMA ClearEnergy ==
    ASSUME MarketInv, NEW w \in Workers, ClearCommit(w)
    PROVE  EnergyInv'
  <1> DEFINE ts == request[w].result
             read == request[w].read
             n == Cardinality(trades) + 1
             new == RowsOf(ts, n)
             Touched(o) == \E t \in ts : o \in {t.buy, t.sell}
             NewRow(o) == Fill(o, read[o], Filled(o, ts))
  <1>1. /\ Serving(w) /\ Go(w, Free) /\ request[w].op = "commit" /\ trades' = trades \cup new
        /\ orders' = [o \in Placed |-> IF Touched(o) THEN NewRow(o) ELSE orders[o]]
    BY DEF ClearCommit, Serving, Doing, RowsOf
  <1>2. /\ BookRead(request[w], Placed) /\ Placed \subseteq Offers /\ IsFiniteSet(Placed)
        /\ DOMAIN read \subseteq Placed /\ WithinEnergy(read, ts)
    BY <1>1 DEF MarketInv, RowInv, RequestOK, BookRead
  <1>3. /\ IsFiniteSet(ts)
        /\ \A t \in ts : t.kwh \in Nat /\ t.buy \in DOMAIN read /\ t.sell \in DOMAIN read
        /\ \A o \in DOMAIN read : /\ Filled(o, ts) \in Nat
                                  /\ read[o].matched + Filled(o, ts) <= o.kwh
    BY <1>2, ResultFits DEF WithinEnergy
  <1>4. /\ OnePerKey(ts) /\ Apart(ts, trades)
    BY <1>1 DEF MarketInv, KeyInv, Inserted
  <1>5. EnergyInv
    BY DEF MarketInv
  <1>6. /\ \A t \in new : t.kwh \in Nat /\ t.buy \in Placed /\ t.sell \in Placed
    BY <1>2, <1>3 DEF TradeRow, RowsOf
  <1>7. ASSUME NEW o
        PROVE  IsFiniteSet(trades') /\ Filled(o, trades') = Filled(o, trades) + Filled(o, ts)
    <2>1. Amounts(trades)
      BY <1>5 DEF EnergyInv, Amounts
    <2>2. Amounts(ts)
      BY <1>3 DEF Amounts
    <2> HIDE DEF ts, n
    <2>3. /\ IsFiniteSet(trades \cup new)
          /\ Filled(o, trades \cup new) = Filled(o, trades) + Filled(o, ts)
      BY <1>4, <2>1, <2>2, FilledUnion DEF new
    <2>4. QED
      BY <1>1, <2>3
  <1>8. \A o \in Placed : ~Touched(o) => Filled(o, ts) = 0
    <2> SUFFICES ASSUME NEW o \in Placed, ~Touched(o)
                 PROVE  Filled(o, ts) = 0
      OBVIOUS
    <2>1. \A t \in ts : o \notin {t.buy, t.sell}
      OBVIOUS
    <2>2. QED
      BY <1>3, <2>1, FilledType
  <1>9. \A o \in Placed : Touched(o) => /\ o \in DOMAIN read
                                        /\ NewRow(o).matched = read[o].matched + Filled(o, ts)
    <2> SUFFICES ASSUME NEW o \in Placed, Touched(o)
                 PROVE  /\ o \in DOMAIN read
                        /\ NewRow(o).matched = read[o].matched + Filled(o, ts)
      OBVIOUS
    <2>1. o \in DOMAIN read
      BY <1>3
    <2>2. o.kwh \in Nat /\ read[o].matched \in Nat
      BY <1>2, <2>1, OfferTypes, RowTypes DEF BookRead, RowOK
    <2>3. QED
      BY <1>3, <2>1, <2>2, FillRow
  <1>10. \A o \in Placed : orders[o].matched \in Nat
    BY RowTypes DEF MarketInv, RowInv, RowOK
  <1> HIDE DEF ts, read, n, new, Touched, NewRow
  <1>11. Placed' = Placed
    BY <1>1 DEF Placed
  <1>12. /\ IsFiniteSet(trades')
         /\ \A t \in trades' : t.kwh \in Nat /\ t.buy \in Placed' /\ t.sell \in Placed'
    BY <1>1, <1>5, <1>6, <1>7, <1>11 DEF EnergyInv
  <1>13. ASSUME ~overlapped'
         PROVE  /\ \A v \in Workers : ~Clearing(v)'
                /\ \A o \in Placed' : Filled(o, trades') = orders'[o].matched
    <2>1. ~overlapped /\ \A v \in Workers : ~Clearing(v)'
      BY <1>1, <1>13, NoClearing
    <2>2. /\ read = ActiveRows(request[w].date)
          /\ \A o \in Placed : Filled(o, trades) = orders[o].matched
      BY <1>1, <1>5, <2>1 DEF EnergyInv, Clearing, read
    <2>3. \A o \in DOMAIN read : read[o] = orders[o]
      BY <2>2 DEF ActiveRows
    <2>4. ASSUME NEW o \in Placed
          PROVE  Filled(o, trades') = orders'[o].matched
      <3>1. CASE Touched(o)
        <4>1. orders'[o].matched = read[o].matched + Filled(o, ts)
          BY <1>1, <1>9, <3>1
        <4>2. read[o].matched = orders[o].matched
          BY <1>9, <2>3, <3>1
        <4>3. QED
          BY <1>7, <2>2, <4>1, <4>2
      <3>2. CASE ~Touched(o)
        <4>1. orders'[o] = orders[o] /\ Filled(o, ts) = 0 /\ orders[o].matched \in Nat
          BY <1>1, <1>8, <1>10, <3>2
        <4>2. QED
          BY <1>7, <2>2, <4>1
      <3>3. QED
        BY <3>1, <3>2
    <2>5. QED
      BY <1>11, <2>1, <2>4
  <1>14. QED
    BY <1>12, <1>13 DEF EnergyInv

LEMMA MatchEnergy ==
    ASSUME MarketInv, NEW w \in Workers, Match(w)
    PROVE  EnergyInv'
  <1> DEFINE read == ActiveRows(request[w].date)
             Next0(ts) == [op |-> "insert", date |-> request[w].date, read |-> read, result |-> ts]
  <1>1. orders' = orders /\ trades' = trades
    BY DEF Match, tables
  <1>2. PICK ts : /\ \/ request' = [request EXCEPT ![w] = Next0(ts)]
                     \/ request' = [request EXCEPT ![w] = Free]
                  /\ overlapped' = overlapped
    BY DEF Match, Go
  <1> DEFINE r == Next0(ts)
  <1>3. r.read = ActiveRows(r.date)
    OBVIOUS
  <1> HIDE DEF r
  <1>4. request' = [request EXCEPT ![w] = r] \/ request' = [request EXCEPT ![w] = Free]
    BY <1>2 DEF r
  <1>5. Free.op \notin {"insert", "update", "commit"}
    BY DEF Free
  <1>6. QED
    BY <1>1, <1>2, <1>3, <1>4, <1>5, EnergyGo

\* A clearing that goes on has the rows of the table.
LEMMA GoOnEnergy ==
    ASSUME MarketInv, NEW w \in Workers, Insert(w) \/ Update(w)
    PROVE  EnergyInv'
  <1>1. orders' = orders /\ trades' = trades /\ overlapped' = overlapped
    BY DEF Insert, Update, tables, Go
  <1>2. CASE request' = [request EXCEPT ![w] = Free]
    BY <1>1, <1>2, EnergyGo DEF Free
  <1>3. CASE request' # [request EXCEPT ![w] = Free]
    <2>1. PICK op \in {"update", "commit"} : \E read : GoneOn(w, op, read)
      BY <1>3, GoesOn DEF MarketInv
    <2>2. PICK read : GoneOn(w, op, read)
      BY <2>1
    <2> DEFINE r == [op |-> op, date |-> request[w].date, read |-> read,
                     result |-> request[w].result]
    <2>3. request' = [request EXCEPT ![w] = r] /\ r.read = read /\ r.date = request[w].date
      BY <2>2 DEF GoneOn
    <2>4. ~overlapped => read = ActiveRows(request[w].date)
      BY <2>2 DEF GoneOn, MarketInv, EnergyInv, Clearing
    <2> HIDE DEF r
    <2>5. QED
      BY <1>1, <2>3, <2>4, EnergyGo
  <1>4. QED
    BY <1>2, <1>3

LEMMA EnergyKept == MarketInv /\ [Next]_vars => EnergyInv'
  <1> SUFFICES ASSUME MarketInv, [Next]_vars
               PROVE  EnergyInv'
    OBVIOUS
  <1>1. CASE UNCHANGED vars
    <2>1. /\ trades' = trades /\ orders' = orders /\ request' = request
          /\ overlapped' = overlapped /\ Placed' = Placed
      BY <1>1 DEF vars, tables, Placed
    <2>2. QED
      BY <2>1 DEF MarketInv, EnergyInv, Clearing, ActiveRows, ActiveIn, Active
  <1>2. ASSUME NEW w \in Workers, NEW r, Begin(w, r), UNCHANGED tables,
               r.op \notin {"insert", "update", "commit"}
        PROVE  EnergyInv'
    BY <1>2, EnergyGo DEF Begin, tables
  <1>3. ASSUME NEW w \in Workers, NEW d \in Dates,
               OpenCheck(w, d) \/ CloseCheck(w, d) \/ ClearCheck(w, d)
        PROVE  EnergyInv'
    BY <1>2, <1>3 DEF OpenCheck, CloseCheck, ClearCheck
  <1>4. ASSUME NEW w \in Workers, NEW o \in Offers, PlaceCheck(w, o) \/ CancelCheck(w, o)
        PROVE  EnergyInv'
    BY <1>2, <1>4 DEF PlaceCheck, CancelCheck
  <1>5. ASSUME NEW w \in Workers, OpenCommit(w) \/ CloseCommit(w) \/ Fails(w)
        PROVE  EnergyInv'
    <2>1. /\ request' = [request EXCEPT ![w] = Free] /\ orders' = orders /\ trades' = trades
          /\ overlapped' = overlapped
      BY <1>5 DEF OpenCommit, CloseCommit, Fails, Go, tables
    <2>2. QED
      BY <2>1, EnergyGo DEF Free
  <1>6. QED
    BY <1>1, <1>3, <1>4, <1>5, MatchEnergy, GoOnEnergy, PlaceEnergy, CancelEnergy, ClearEnergy
       DEF Next

LEMMA MarketInit == Init => MarketInv
  <1> SUFFICES ASSUME Init PROVE MarketInv
    OBVIOUS
  <1>1. KeyInv
    BY DEF Init, KeyInv, Requested, ClearingOK, Free, PairTradedOnce, OnePerKey, Apart, Inserted
  <1>2. TurnInv
    BY DEF Init, TurnInv, Requested, ClearingOK, Free, SessionStatus, Alone, Serving, Doing, Holds
  <1>3. Placed = {} /\ trades = {} /\ \A w \in Workers : request[w] = Free
    BY DEF Init, Placed
  <1>4. EnergyInv
    BY <1>3, FS_EmptySet DEF EnergyInv, Clearing, Free
  <1>5. QED
    BY <1>1, <1>2, <1>4, RowsInit DEF MarketInv

\* Rows are what the schema says they are, whatever overlaps (models/market.py): a request
\* never fills an order beyond its energy, even one whose book is no longer current.
THEOREM MarketInductive == Spec => []MarketInv
  <1>1. MarketInv /\ [Next]_vars => MarketInv'
    BY KeysKept, TurnsKept, RowsKept, EnergyKept DEF MarketInv
  <1>2. QED
    BY <1>1, MarketInit, PTL DEF Spec

\* As long as requests do not overlap, an order's trades add up to what its row says is
\* matched, and to no more than its energy, for any offers and any engine that returns
\* finite results, valid or not (clear_session, _validate_result, cancel_order).
THEOREM EnergyCommitted == Spec => []EnergyCommittedOnce
  <1>1. MarketInv => EnergyCommittedOnce
    BY DEF MarketInv, RowInv, RowOK, EnergyInv, EnergyCommittedOnce
  <1>2. QED
    BY <1>1, MarketInductive, PTL
=============================================================================
