----------------------- MODULE TradeSettlementProofs -----------------------
(***************************************************************************)
(* Proofs, for any workers, readings, prices, policies and bounds, that of *)
(* a trade's settlements the last one stands and all others are            *)
(* superseded, that each pays a price that was current, and that its       *)
(* amounts balance.                                                        *)
(*                                                                         *)
(* The first argument: settle_trade lists the settlements that stand after *)
(* it has recorded the comparison's audit event, and a transaction that    *)
(* has recorded an event holds the chain until it ends.  So no settlement  *)
(* is committed between the list and the commit, and the list is complete. *)
(*                                                                         *)
(* The second: a request keeps what it has read until its row is written   *)
(* (PayInv), so a settlement is the bill of the hours that it names at the *)
(* breakdown that it names, and what holds of every such bill holds of it. *)
(*                                                                         *)
(* The last section is about the policy that the prices come from: each of *)
(* its components is a rounded product of the base price, and rounding     *)
(* keeps the order of what it rounds.                                      *)
(***************************************************************************)
EXTENDS TradeSettlement, DynamicPricing, ArithmeticTheorems

\* A request that has its comparison has the fields that it writes later.
RequestOK(r) ==
    r.op \in {"compare", "supersede"} => "op" \in DOMAIN r /\ "standing" \in DOMAIN r

Standing == {i \in DOMAIN settlements : settlements[i].status = "settled"}

\* Its transaction has recorded an audit event.
Recorded(r) == r.op \in {"supersede", "conclude", "commit"}

Shape ==
    /\ DOMAIN request = Workers /\ request = [w \in Workers |-> request[w]]
    /\ \A w \in Workers : RequestOK(request[w])
    /\ settlements \in Seq({settlements[i] : i \in DOMAIN settlements})
    /\ \A i \in DOMAIN settlements : "status" \in DOMAIN settlements[i]

Held ==
    \A w \in Workers : /\ Recorded(request[w]) => holder = w
                       /\ Doing(w, "commit") => request[w].standing = Standing

IInv == Shape /\ Held /\ OneStands

-----------------------------------------------------------------------------
\* The request of one worker is replaced.
LEMMA Put ==
    ASSUME Shape, NEW w \in Workers, NEW r, Go(w, r)
    PROVE  /\ DOMAIN request' = Workers /\ request' = [v \in Workers |-> request'[v]]
           /\ request'[w] = r
           /\ \A v \in Workers \ {w} : request'[v] = request[v]
  BY DEF Shape, Go

\* A request that goes on or ends, and commits no settlement.
LEMMA Quiet ==
    ASSUME IInv, NEW w \in Workers, NEW r, Go(w, r), RequestOK(r), settlements' = settlements,
           Recorded(r) => holder' = w,
           r.op = "commit" => r.standing = Standing,
           \A v \in Workers \ {w} : holder = v => holder' = v
    PROVE  IInv'
  <1>1. /\ DOMAIN request' = Workers /\ request' = [v \in Workers |-> request'[v]]
        /\ request'[w] = r
        /\ \A v \in Workers \ {w} : request'[v] = request[v]
    BY Put DEF IInv
  <1>2. Shape'
    BY <1>1 DEF IInv, Shape, RequestOK
  <1>3. Standing' = Standing
    BY DEF Standing
  <1>4. Held'
    BY <1>1, <1>3 DEF IInv, Held, Recorded, Doing
  <1>5. OneStands'
    BY DEF IInv, OneStands
  <1>6. QED
    BY <1>2, <1>4, <1>5 DEF IInv

LEMMA CalculateKeeps ==
    ASSUME IInv, NEW w \in Workers, Calculate(w)
    PROVE  IInv'
  <1> DEFINE q == request[w]
             r == [op |-> "compare", for |-> q.for, breakdown |-> q.breakdown,
                   priced |-> q.priced, outcome |-> Compare(Measured(meter)), hours |-> meter,
                   standing |-> {}]
  <1>1. Go(w, r) /\ settlements' = settlements /\ holder' = holder
    BY DEF Calculate, tables
  <1>2. r.op = "compare" /\ RequestOK(r)
    BY DEF RequestOK
  <1> HIDE DEF r
  <1>3. QED
    BY <1>1, <1>2, Quiet DEF Recorded

LEMMA RecordKeeps ==
    ASSUME IInv, NEW w \in Workers, RecordReconciliation(w)
    PROVE  IInv'
  <1>1. "op" \in DOMAIN request[w] /\ "standing" \in DOMAIN request[w]
    BY DEF IInv, Shape, RequestOK, RecordReconciliation, Doing
  <1>2. PICK op \in {"supersede", "conclude"} : Go(w, [request[w] EXCEPT !.op = op])
    BY DEF RecordReconciliation
  <1> DEFINE r == [request[w] EXCEPT !.op = op]
  <1>3. r.op = op /\ RequestOK(r)
    BY <1>1 DEF RequestOK
  <1>4. settlements' = settlements /\ holder' = w /\ holder = None
    BY DEF RecordReconciliation, tables
  <1>5. \A v \in Workers \ {w} : holder = v => holder' = v
    BY <1>4, SettlementAssumption DEF SettlementAssumption
  <1>6. Go(w, r)
    BY <1>2
  <1> HIDE DEF r
  <1>7. QED
    BY <1>2, <1>3, <1>4, <1>5, <1>6, Quiet DEF Recorded

LEMMA SupersedeKeeps ==
    ASSUME IInv, NEW w \in Workers, Supersede(w)
    PROVE  IInv'
  <1> DEFINE r == [request[w] EXCEPT !.op = "commit", !.standing = Standing]
  <1>1. /\ request[w].op = "supersede" /\ holder = w
        /\ "op" \in DOMAIN request[w] /\ "standing" \in DOMAIN request[w]
    BY DEF IInv, Shape, Held, Recorded, RequestOK, Supersede, Doing
  <1>2. r.op = "commit" /\ r.standing = Standing
    BY <1>1
  <1>3. Go(w, r) /\ settlements' = settlements /\ holder' = holder
    BY DEF Supersede, Standing, tables
  <1> HIDE DEF r
  <1>4. QED
    BY <1>1, <1>2, <1>3, Quiet DEF RequestOK, Recorded

\* What settle_trade listed is what stands when it commits.
LEMMA SettleKeeps ==
    ASSUME IInv, NEW w \in Workers, SettleCommit(w)
    PROVE  IInv'
  <1> DEFINE q   == request[w]
             row == SettlementRow(q)
             Old(i) == IF i \in q.standing
                       THEN [settlements[i] EXCEPT !.status = "superseded"] ELSE settlements[i]
             old == [i \in DOMAIN settlements |-> Old(i)]
             n   == Len(settlements)
  <1>1. /\ Go(w, Free) /\ holder' = None /\ request[w].op = "commit"
        /\ settlements' = Append(old, row)
    BY DEF SettleCommit, Doing
  <1>2. holder = w /\ q.standing = Standing
    BY <1>1 DEF IInv, Held, Recorded, Doing
  <1>3. row.status = "settled" /\ "status" \in DOMAIN row
    BY DEF SettlementRow
  <1>4. n \in Nat /\ DOMAIN settlements = 1 .. n
    BY DEF IInv, Shape
  <1>5. \A i \in 1 .. n : Old(i).status = "superseded" /\ "status" \in DOMAIN Old(i)
    <2> SUFFICES ASSUME NEW i \in 1 .. n
                 PROVE  Old(i).status = "superseded" /\ "status" \in DOMAIN Old(i)
      OBVIOUS
    <2>1. /\ "status" \in DOMAIN settlements[i]
          /\ settlements[i].status \in {"settled", "superseded"}
      BY <1>4 DEF IInv, Shape, OneStands
    <2>2. CASE settlements[i].status = "settled"
      BY <1>2, <1>4, <2>1, <2>2 DEF Standing
    <2>3. CASE settlements[i].status = "superseded"
      BY <1>2, <1>4, <2>1, <2>3 DEF Standing
    <2>4. QED
      BY <2>1, <2>2, <2>3
  <1> HIDE DEF row, Old
  <1>6. old \in Seq({Old(i) : i \in 1 .. n} \cup {row}) /\ Len(old) = n
    BY <1>4
  <1>7. /\ DOMAIN settlements' = 1 .. n + 1 /\ Len(settlements') = n + 1
        /\ \A i \in 1 .. n : settlements'[i] = Old(i)
        /\ settlements'[n + 1] = row
    BY <1>1, <1>4, <1>6
  <1>8. settlements' \in Seq({settlements'[i] : i \in DOMAIN settlements'})
    <2>1. settlements' \in Seq({Old(i) : i \in 1 .. n} \cup {row})
      BY <1>1, <1>6
    <2>2. QED
      BY <1>4, <1>7, <2>1
  <1>9. /\ DOMAIN request' = Workers /\ request' = [v \in Workers |-> request'[v]]
        /\ request'[w] = Free
        /\ \A v \in Workers \ {w} : request'[v] = request[v]
    BY <1>1, Put DEF IInv
  <1>10. \A i \in DOMAIN settlements' : "status" \in DOMAIN settlements'[i]
    BY <1>3, <1>4, <1>5, <1>7
  <1>11. Shape'
    BY <1>8, <1>9, <1>10 DEF IInv, Shape, RequestOK, Free
  <1>12. \A v \in Workers : ~Recorded(request[v])' /\ ~Doing(v, "commit")'
    BY <1>2, <1>9 DEF IInv, Held, Recorded, Doing, Free
  <1>13. Held'
    BY <1>12 DEF Held, Recorded, Doing
  <1>14. OneStands'
    BY <1>3, <1>4, <1>5, <1>7 DEF OneStands
  <1>15. QED
    BY <1>11, <1>13, <1>14 DEF IInv

LEMMA StepKeeps == IInv /\ [Next]_vars => IInv'
  <1> SUFFICES ASSUME IInv, [Next]_vars
               PROVE  IInv'
    OBVIOUS
  <1>1. CASE UNCHANGED <<tables, holder, request>>
    BY <1>1 DEF tables, IInv, Shape, RequestOK, Held, Recorded, Doing, Standing, OneStands
  <1>2. ASSUME NEW w \in Workers, PriceTrade(w)
        PROVE  IInv'
    <2>1. PICK price : Go(w, [op |-> "stamp", price |-> price])
      BY <1>2 DEF PriceTrade
    <2>2. settlements' = settlements /\ holder' = holder
      BY <1>2 DEF PriceTrade, tables
    <2>3. QED
      BY <2>1, <2>2, Quiet DEF RequestOK, Recorded
  <1>6. ASSUME NEW w \in Workers, Stamp(w)
        PROVE  IInv'
    <2>1. PICK price, at : Go(w, [op |-> "insert", price |-> price, at |-> at])
      BY <1>6 DEF Stamp
    <2>2. settlements' = settlements /\ holder' = holder
      BY <1>6 DEF Stamp, tables
    <2>3. QED
      BY <2>1, <2>2, Quiet DEF RequestOK, Recorded
  <1>3. ASSUME NEW w \in Workers, NEW for \in {"reconcile", "settle"}, ReadPrice(w, for)
        PROVE  IInv'
    <2> DEFINE r == [op |-> "measure", for |-> for, breakdown |-> Breakdown,
                     priced |-> Len(prices)]
    <2>1. Go(w, r) /\ settlements' = settlements /\ holder' = holder
      BY <1>3 DEF ReadPrice, tables
    <2>2. QED
      BY <2>1, Quiet DEF RequestOK, Recorded
  <1>4. ASSUME NEW w \in Workers, PriceCommit(w) \/ Conclude(w) \/ Fails(w)
        PROVE  IInv'
    <2>1. Go(w, Free) /\ settlements' = settlements
      BY <1>4 DEF PriceCommit, Conclude, Fails, tables
    <2>2. holder' = holder \/ (holder' = None /\ holder = w)
      BY <1>4 DEF PriceCommit, Conclude, Fails, IInv, Held, Recorded, Doing
    <2>3. \A v \in Workers \ {w} : holder = v => holder' = v
      BY <2>2
    <2>4. QED
      BY <2>1, <2>3, Quiet DEF RequestOK, Recorded, Free
  <1>5. QED
    BY <1>1, <1>2, <1>3, <1>4, <1>6, CalculateKeeps, RecordKeeps, SupersedeKeeps, SettleKeeps
       DEF Next, HourPasses, ReadingArrives, Validated, vars

\* Of a trade's settlements the last one stands and all others are superseded, whatever
\* settles at once, and whatever is measured and priced (settle_trade).
THEOREM LastOneStands == Spec => []OneStands
  <1>1. Init => IInv
    BY DEF Init, IInv, Shape, RequestOK, Free, Held, Recorded, Doing, OneStands
  <1>2. IInv => OneStands
    BY DEF IInv
  <1>3. QED
    BY <1>1, <1>2, StepKeeps, PTL DEF Spec
-----------------------------------------------------------------------------
(***************************************************************************)
(* What a settlement pays.                                                 *)
(***************************************************************************)
\* Min and Max of a pair.
LEMMA MinOfPair ==
    ASSUME NEW a \in Int, NEW b \in Int
    PROVE  Min({a, b}) = IF a <= b THEN a ELSE b
  BY DEF Min

LEMMA MaxOfPair ==
    ASSUME NEW a \in Int, NEW b \in Int
    PROVE  Max({a, b}) = IF a <= b THEN b ELSE a
  BY DEF Max

\* Max of a finite set of naturals.
LEMMA MaxOfSet ==
    ASSUME NEW S \in SUBSET Nat, IsFiniteSet(S), S # {}
    PROVE  Max(S) \in S /\ \A x \in S : x <= Max(S)
  <1>1. \E m \in S : \A x \in S : x <= m
    BY MaxExists
  <1>2. QED
    BY <1>1 DEF Max

\* Rounding half up to a number of paise.
LEMMA HalfUpType ==
    ASSUME NEW n \in Nat, NEW d \in Nat \ {0}
    PROVE  HalfUp(n, d) \in Nat
  <1> DEFINE x == 2 * n + d
             e == 2 * d
  <1>1. x \in Nat /\ e \in Nat \ {0}
    OBVIOUS
  <1>2. x \div e \in Nat
    <2> HIDE DEF x, e
    <2>1. QED
      BY <1>1, DivMod
  <1>3. QED
    BY <1>2 DEF HalfUp

LEMMA HalfUpGrows ==
    ASSUME NEW m \in Nat, NEW n \in Nat, NEW d \in Nat \ {0}, m <= n
    PROVE  HalfUp(m, d) <= HalfUp(n, d)
  <1> DEFINE x == 2 * m + d
             y == 2 * n + d
             e == 2 * d
  <1>1. x \in Nat /\ y \in Nat /\ e \in Nat \ {0} /\ x <= y
    OBVIOUS
  <1>2. x \div e <= y \div e
    <2> HIDE DEF x, y, e
    <2>1. QED
      BY <1>1, QuotientsGrow
  <1>3. QED
    BY <1>2 DEF HalfUp

\* A whole number of paise more rounds to as many paise more.
LEMMA HalfUpPlus ==
    ASSUME NEW n \in Nat, NEW k \in Nat, NEW d \in Nat \ {0}
    PROVE  HalfUp(n + d * k, d) = HalfUp(n, d) + k
  <1> DEFINE x == 2 * n + d
             e == 2 * d
  <1>1. x \in Nat /\ e \in Nat \ {0}
    OBVIOUS
  <1>2. (x + e * k) \div e = (x \div e) + k
    <2> HIDE DEF x, e
    <2>1. QED
      BY <1>1, QuotientPlus
  <1>3. 2 * (n + d * k) + d = x + e * k
    OBVIOUS
  <1>4. QED
    BY <1>2, <1>3 DEF HalfUp

LEMMA PolicyTypes ==
    /\ Policy.fee \in 0 .. 99 /\ Policy.multiplier \in Nat /\ Policy.tolerance \in 0 .. 99
    /\ Committed \in Nat \ {0} /\ Unit \in Nat \ {0} /\ 100 * Unit \in Nat \ {0}
    /\ Policy.tolerance * Committed \in Nat
  <1>1. Policy.fee \in 0 .. 99 /\ Policy.multiplier \in Nat /\ Policy.tolerance \in 0 .. 99
    BY SettlementAssumption DEF SettlementAssumption
  <1>2. Committed \in Nat \ {0} /\ Unit \in Nat \ {0}
    BY SettlementAssumption DEF SettlementAssumption
  <1>3. 100 * Unit \in Nat \ {0}
    BY <1>2
  <1>4. ASSUME NEW x \in 0 .. 99, NEW y \in Nat
        PROVE  x * y \in Nat
    OBVIOUS
  <1>5. Policy.tolerance * Committed \in Nat
    BY <1>1, <1>2, <1>4
  <1>6. QED
    BY <1>1, <1>2, <1>3, <1>5

\* The settlement of a window that was measured.
Bill(actual, price) == Account(Compare(actual), price)

\* Compare, with the pairs' minima and maxima spelt out.
LEMMA Compared ==
    ASSUME NEW actual \in Nat, actual # None
    PROVE  LET c == Compare(actual)
           IN  /\ c.actual = actual /\ c.status = "reconciled"
               /\ c.settled = (IF Committed <= actual THEN Committed ELSE actual)
               /\ c.balancing = (IF Within(actual) THEN 0
                                 ELSE IF Committed - actual <= 0 THEN 0 ELSE Committed - actual)
               /\ c.settled \in Nat /\ c.balancing \in Nat
  <1>1. Committed \in Nat /\ Committed - actual \in Int
    BY SettlementAssumption DEF SettlementAssumption
  <1>2. /\ Min({Committed, actual}) = (IF Committed <= actual THEN Committed ELSE actual)
        /\ Max({Committed - actual, 0})
             = (IF Committed - actual <= 0 THEN 0 ELSE Committed - actual)
    BY <1>1, MinOfPair, MaxOfPair
  <1>3. QED
    BY <1>1, <1>2 DEF Compare, Balancing

\* Who delivers more has no larger shortfall to balance.
LEMMA BalancingShrinks ==
    ASSUME NEW a \in Nat, NEW b \in Nat, a <= b, a # None, b # None
    PROVE  /\ Compare(b).balancing <= Compare(a).balancing
           /\ Compare(a).settled <= Compare(b).settled
  <1> DEFINE slack == Policy.tolerance * Committed
  <1>1. Committed \in Nat /\ slack \in Nat
    BY PolicyTypes
  <1>2. /\ Within(a) <=> 100 * Size(a - Committed) <= slack
        /\ Within(b) <=> 100 * Size(b - Committed) <= slack
    BY DEF Within
  <1>3. /\ Size(a - Committed) = IF a <= Committed THEN Committed - a ELSE a - Committed
        /\ Size(b - Committed) = IF b <= Committed THEN Committed - b ELSE b - Committed
    BY <1>1 DEF Size
  <1> HIDE DEF slack
  <1>4. Within(a) /\ b <= Committed => Within(b)
    BY <1>1, <1>2, <1>3
  <1>5. /\ Compare(a).settled = (IF Committed <= a THEN Committed ELSE a)
        /\ Compare(a).balancing = (IF Within(a) THEN 0
                                   ELSE IF Committed - a <= 0 THEN 0 ELSE Committed - a)
    BY Compared
  <1>6. /\ Compare(b).settled = (IF Committed <= b THEN Committed ELSE b)
        /\ Compare(b).balancing = (IF Within(b) THEN 0
                                   ELSE IF Committed - b <= 0 THEN 0 ELSE Committed - b)
    BY Compared
  <1>7. QED
    BY <1>1, <1>4, <1>5, <1>6

\* The amounts of a settlement are whole paise, and its two sides differ by the rest.
LEMMA AccountTypes ==
    ASSUME NEW c, c.settled \in Nat, c.balancing \in Nat, NEW price \in Nat
    PROVE  LET a == Account(c, price)
           IN  /\ a.gross = Amount(c.settled, price) /\ a.gross \in Nat
               /\ a.fee = HalfUp(a.gross * Policy.fee, 100) /\ a.fee \in Nat
               /\ a.charge = HalfUp(c.balancing * price * Policy.multiplier, 100 * Unit)
               /\ a.charge \in Nat
               /\ a.debit = a.gross /\ a.credit = a.gross - a.fee - a.charge
               /\ a.debit = a.credit + a.fee + a.charge
  <1> DEFINE gross  == Amount(c.settled, price)
             fee    == HalfUp(gross * Policy.fee, 100)
             charge == HalfUp(c.balancing * price * Policy.multiplier, 100 * Unit)
  <1>1. Unit \in Nat \ {0} /\ 100 * Unit \in Nat \ {0} /\ Policy.fee \in Nat
        /\ Policy.multiplier \in Nat
    BY PolicyTypes
  <1>2. gross \in Nat
    <2>1. c.settled * price \in Nat
      OBVIOUS
    <2>2. QED
      BY <1>1, <2>1, HalfUpType DEF Amount
  <1>3. fee \in Nat
    <2>1. gross * Policy.fee \in Nat
      <3> HIDE DEF gross
      <3>1. QED
        BY <1>1, <1>2
    <2>2. QED
      BY <2>1, HalfUpType
  <1>4. charge \in Nat
    <2>1. c.balancing * price \in Nat
      OBVIOUS
    <2>2. (c.balancing * price) * Policy.multiplier \in Nat
      BY <1>1, <2>1
    <2>3. QED
      BY <1>1, <2>2, HalfUpType
  <1>5. LET a == Account(c, price)
        IN  /\ a.gross = gross /\ a.fee = fee /\ a.charge = charge /\ a.debit = gross
            /\ a.credit = gross - fee - charge
    BY DEF Account
  <1> HIDE DEF gross, fee, charge
  <1>6. gross = (gross - fee - charge) + fee + charge
    BY <1>2, <1>3, <1>4
  <1>7. QED
    BY <1>2, <1>3, <1>4, <1>5, <1>6 DEF gross, fee, charge

\* Who delivers more is billed no less, and is paid no less.
LEMMA BillGrows ==
    ASSUME NEW a \in Nat, NEW b \in Nat, a <= b, a # None, b # None, NEW price \in Nat
    PROVE  /\ Bill(a, price).debit <= Amount(Committed, price)
           /\ Bill(a, price).credit <= Bill(b, price).credit
  <1> DEFINE c == Compare(a)
             e == Compare(b)
  <1>1. Unit \in Nat \ {0} /\ 100 * Unit \in Nat \ {0} /\ Policy.fee \in 0 .. 99
        /\ Policy.multiplier \in Nat /\ Committed \in Nat
    BY PolicyTypes
  <1>2. /\ c.settled \in Nat /\ e.settled \in Nat /\ c.balancing \in Nat /\ e.balancing \in Nat
        /\ c.settled <= Committed
    BY <1>1, Compared
  <1>3. c.settled <= e.settled /\ e.balancing <= c.balancing
    BY BalancingShrinks
  <1> HIDE DEF c, e
  <1> DEFINE g(x)   == Amount(x, price)
             fee(x) == HalfUp(x * Policy.fee, 100)
             due(x) == HalfUp(x * price * Policy.multiplier, 100 * Unit)
  <1>4. ASSUME NEW x \in Nat, NEW y \in Nat, x <= y
        PROVE  g(x) \in Nat /\ g(x) <= g(y)
    <2>1. x * price \in Nat /\ y * price \in Nat /\ x * price <= y * price
      <3>1. price * x <= price * y
        BY <1>4, ProductGrows
      <3>2. QED
        BY <3>1
    <2>2. QED
      BY <1>1, <2>1, HalfUpGrows, HalfUpType DEF Amount
  <1>5. ASSUME NEW x \in Nat, NEW y \in Nat, x <= y
        PROVE  due(x) \in Nat /\ due(x) <= due(y)
    <2> DEFINE k == price * Policy.multiplier
    <2>1. k \in Nat
      BY <1>1
    <2>2. /\ x * price * Policy.multiplier = k * x /\ y * price * Policy.multiplier = k * y
      BY <1>1
    <2>3. k * x \in Nat /\ k * y \in Nat /\ k * x <= k * y
      <3> HIDE DEF k
      <3>1. QED
        BY <1>5, <2>1, ProductGrows
    <2>4. QED
      BY <1>1, <2>2, <2>3, HalfUpGrows, HalfUpType
  <1>6. ASSUME NEW x \in Nat, NEW y \in Nat, x <= y
        PROVE  x - fee(x) <= y - fee(y) /\ fee(x) \in Nat /\ fee(y) \in Nat
    <2> DEFINE d == y - x
    <2>1. d \in Nat /\ y = x + d /\ x * Policy.fee \in Nat /\ y * Policy.fee \in Nat
      BY <1>1, <1>6
    <2>2. y * Policy.fee <= x * Policy.fee + 100 * d
      <3>1. y * Policy.fee = x * Policy.fee + d * Policy.fee
        <4> HIDE DEF d
        <4>1. QED
          BY <1>1, <2>1
      <3>2. d * Policy.fee \in Nat /\ d * Policy.fee <= 100 * d
        <4>1. d * Policy.fee <= d * 100
          <5> HIDE DEF d
          <5>1. QED
            BY <1>1, <2>1, ProductGrows
        <4>2. QED
          BY <1>1, <2>1, <4>1
      <3> HIDE DEF d
      <3>3. QED
        BY <2>1, <3>1, <3>2
    <2>3. x * Policy.fee + 100 * d \in Nat
      BY <2>1
    <2> HIDE DEF d
    <2>4. HalfUp(y * Policy.fee, 100) <= HalfUp(x * Policy.fee + 100 * d, 100)
      BY <2>1, <2>2, <2>3, HalfUpGrows
    <2>5. HalfUp(x * Policy.fee + 100 * d, 100) = HalfUp(x * Policy.fee, 100) + d
      <3> DEFINE n == x * Policy.fee
      <3>1. n \in Nat /\ d \in Nat
        BY <2>1
      <3> HIDE DEF n
      <3>2. HalfUp(n + 100 * d, 100) = HalfUp(n, 100) + d
        BY <3>1, HalfUpPlus
      <3>3. QED
        BY <3>2 DEF n
    <2>6. fee(x) \in Nat /\ fee(y) \in Nat
      BY <2>1, HalfUpType
    <2>7. fee(y) <= fee(x) + d
      BY <2>4, <2>5
    <2> HIDE DEF fee
    <2>8. QED
      BY <2>1, <2>6, <2>7
  <1>7. /\ Bill(a, price).debit = g(c.settled)
        /\ Bill(a, price).credit = g(c.settled) - fee(g(c.settled)) - due(c.balancing)
    BY <1>2, AccountTypes DEF Bill, c
  <1>8. Bill(b, price).credit = g(e.settled) - fee(g(e.settled)) - due(e.balancing)
    BY <1>2, AccountTypes DEF Bill, e
  <1> HIDE DEF g, fee, due
  <1>9. g(c.settled) <= g(Committed) /\ g(c.settled) <= g(e.settled)
        /\ g(c.settled) \in Nat /\ g(e.settled) \in Nat
    BY <1>1, <1>2, <1>3, <1>4
  <1>10. due(e.balancing) <= due(c.balancing) /\ due(e.balancing) \in Nat
         /\ due(c.balancing) \in Nat
    BY <1>2, <1>3, <1>5
  <1>11. /\ g(c.settled) - fee(g(c.settled)) <= g(e.settled) - fee(g(e.settled))
         /\ fee(g(c.settled)) \in Nat /\ fee(g(e.settled)) \in Nat
    BY <1>6, <1>9
  <1>12. Bill(a, price).credit <= Bill(b, price).credit
    BY <1>7, <1>8, <1>9, <1>10, <1>11
  <1>13. QED
    BY <1>7, <1>9, <1>12 DEF g

-----------------------------------------------------------------------------
(***************************************************************************)
(* The rows and requests that a settlement is made from.                   *)
(***************************************************************************)
Breakdowns == [price : Nat, at : Nat]

Readable == 1 .. Hours + 1

\* b is no older than the first n breakdowns.
Current(b, n) ==
    /\ b \in Breakdowns /\ n \in 0 .. Len(prices)
    /\ \A k \in 1 .. n : prices[k].at <= b.at

Reading(hours) == hours \in SUBSET Readable /\ hours # {} /\ Measured(hours) # None

\* What a request has read is kept until it ends, and only what was measured is settled.
RequestPays(r) ==
    /\ r.op \in {"stamp", "insert"} => r.price \in Nat
    /\ r.op = "insert" => r.at \in Nat
    /\ r.op \in {"measure", "compare", "supersede", "conclude", "commit"} =>
          Current(r.breakdown, r.priced)
    /\ r.op \in {"compare", "supersede", "commit"} =>
          /\ {"for", "breakdown", "priced", "outcome", "hours"} \subseteq DOMAIN r
          /\ r.hours \in SUBSET Readable /\ r.outcome = Compare(Measured(r.hours))
    /\ r.op \in {"supersede", "commit"} => Reading(r.hours)

Paid(s) ==
    /\ {"price", "priced", "hours", "actual", "fee", "charge", "debit", "credit"} \subseteq DOMAIN s
    /\ Current(s.price, s.priced)
    /\ Reading(s.hours) /\ s.actual = Measured(s.hours)
    /\ LET b == Bill(s.actual, s.price.price)
       IN  s.fee = b.fee /\ s.charge = b.charge /\ s.debit = b.debit /\ s.credit = b.credit

PayInv ==
    /\ prices \in Seq(Breakdowns)
    /\ meter \subseteq Readable
    /\ verdict \in Verdicts \cup {None}
    /\ \A w \in Workers : RequestPays(request[w])
    /\ \A i \in DOMAIN settlements : Paid(settlements[i])

\* What was read of the breakdowns stays true when another one is added.
LEMMA CurrentKept ==
    ASSUME PayInv, prices' = prices \/ \E p \in Breakdowns : prices' = Append(prices, p)
    PROVE  /\ prices' \in Seq(Breakdowns)
           /\ \A b, n : Current(b, n) => Current(b, n)'
           /\ \A r : RequestPays(r) => RequestPays(r)'
           /\ \A s : Paid(s) => Paid(s)'
  <1>1. prices \in Seq(Breakdowns)
    BY DEF PayInv
  <1>2. /\ prices' \in Seq(Breakdowns) /\ Len(prices) \in Nat /\ Len(prices') \in Nat
        /\ Len(prices) <= Len(prices')
        /\ \A k \in 1 .. Len(prices) : prices'[k] = prices[k]
    <2>1. CASE prices' = prices
      BY <1>1, <2>1
    <2>2. CASE \E p \in Breakdowns : prices' = Append(prices, p)
      BY <1>1, <2>2
    <2>3. QED
      BY <2>1, <2>2
  <1>3. ASSUME NEW b, NEW n, Current(b, n)
        PROVE  Current(b, n)'
    BY <1>2, <1>3 DEF Current
  <1>4. ASSUME NEW r, RequestPays(r)
        PROVE  RequestPays(r)'
    BY <1>3, <1>4 DEF RequestPays
  <1>5. ASSUME NEW s, Paid(s)
        PROVE  Paid(s)'
    BY <1>3, <1>5 DEF Paid
  <1>6. QED
    BY <1>2, <1>3, <1>4, <1>5

\* A request that goes on or ends, when all else it promises is kept.
LEMMA RequestMoves ==
    ASSUME IInv, PayInv, NEW w \in Workers, NEW r, Go(w, r), RequestPays(r),
           prices' = prices \/ \E p \in Breakdowns : prices' = Append(prices, p),
           UNCHANGED <<meter, verdict>>,
           settlements' = settlements \/ \A i \in DOMAIN settlements' : Paid(settlements'[i])
    PROVE  PayInv'
  <1>1. /\ request'[w] = r
        /\ \A v \in Workers \ {w} : request'[v] = request[v]
    BY Put DEF IInv
  <1>2. \A v \in Workers : RequestPays(request'[v])
    BY <1>1 DEF PayInv
  <1>3. /\ prices' \in Seq(Breakdowns)
        /\ \A q : RequestPays(q) => RequestPays(q)'
        /\ \A s : Paid(s) => Paid(s)'
    BY CurrentKept
  <1>4. \A v \in Workers : RequestPays(request[v])'
    BY <1>2, <1>3
  <1>5. \A i \in DOMAIN settlements' : Paid(settlements'[i])
    BY DEF PayInv
  <1>6. \A i \in DOMAIN settlements' : Paid(settlements[i])'
    BY <1>3, <1>5
  <1>7. QED
    BY <1>3, <1>4, <1>6 DEF PayInv

\* The stamp that a breakdown gets.
LEMMA StampType ==
    ASSUME PayInv
    PROVE  NextStamp \in Nat
  <1> DEFINE given == {request[w].at : w \in {v \in Workers : Doing(v, "insert")}}
             taken == {prices[i].at : i \in DOMAIN prices}
             S == taken \cup given \cup {0}
  <1>1. prices \in Seq(Breakdowns) /\ DOMAIN prices = 1 .. Len(prices) /\ Len(prices) \in Nat
    BY DEF PayInv
  <1>2. \A i \in DOMAIN prices : prices[i].at \in Nat
    <2>1. \A i \in DOMAIN prices : prices[i] \in Breakdowns
      BY <1>1
    <2>2. \A p \in Breakdowns : p.at \in Nat
      BY DEF Breakdowns
    <2>3. QED
      BY <2>1, <2>2
  <1>3. \A v \in Workers : Doing(v, "insert") => request[v].at \in Nat
    BY DEF PayInv, RequestPays, Doing
  <1>4. S \in SUBSET Nat /\ S # {}
    BY <1>2, <1>3
  <1>5. IsFiniteSet(1 .. Len(prices))
    BY <1>1, FS_Interval
  <1>6. IsFiniteSet(taken)
    <2> DEFINE at == [i \in DOMAIN prices |-> prices[i].at]
    <2>1. IsFiniteSet({at[i] : i \in 1 .. Len(prices)})
      BY <1>5, ImageFinite
    <2>2. taken = {at[i] : i \in 1 .. Len(prices)}
      BY <1>1
    <2>3. QED
      BY <2>1, <2>2
  <1>7. IsFiniteSet(Workers)
    BY SettlementAssumption DEF SettlementAssumption
  <1>8. IsFiniteSet(given)
    <2> DEFINE busy == {v \in Workers : Doing(v, "insert")}
    <2>1. IsFiniteSet(busy)
      BY <1>7, FS_Subset
    <2> DEFINE at == [w \in busy |-> request[w].at]
    <2>2. given = {at[w] : w \in busy}
      OBVIOUS
    <2> HIDE DEF busy, at, given
    <2>3. QED
      BY <2>1, <2>2, ImageFinite
  <1>9. IsFiniteSet(S)
    <2> HIDE DEF taken, given
    <2>1. IsFiniteSet(taken \cup given)
      BY <1>6, <1>8, FS_Union
    <2>2. IsFiniteSet({0})
      BY FS_Singleton
    <2>3. QED
      BY <2>1, <2>2, FS_Union
  <1>10. NextStamp = Max(S) + 1
    BY DEF NextStamp, Stamps
  <1> HIDE DEF S
  <1>11. Max(S) \in Nat
    BY <1>4, <1>9, MaxOfSet
  <1>12. QED
    BY <1>10, <1>11

\* get_breakdown finds one that no other is newer than.
LEMMA BreakdownCurrent ==
    ASSUME PayInv, prices # <<>>
    PROVE  Current(Breakdown, Len(prices))
  <1> DEFINE stamps == {prices[i].at : i \in 1 .. Len(prices)}
  <1>1. prices \in Seq(Breakdowns) /\ DOMAIN prices = 1 .. Len(prices)
        /\ Len(prices) \in Nat \ {0}
    BY DEF PayInv
  <1>2. \A i \in 1 .. Len(prices) : prices[i] \in Breakdowns /\ prices[i].at \in Nat
    <2>1. \A i \in 1 .. Len(prices) : prices[i] \in Breakdowns
      BY <1>1
    <2>2. \A p \in Breakdowns : p.at \in Nat
      BY DEF Breakdowns
    <2>3. QED
      BY <2>1, <2>2
  <1>3. IsFiniteSet(1 .. Len(prices))
    BY <1>1, FS_Interval
  <1>4. IsFiniteSet(stamps) /\ stamps \in SUBSET Nat /\ stamps # {}
    <2> DEFINE at == [i \in 1 .. Len(prices) |-> prices[i].at]
    <2>1. IsFiniteSet({at[i] : i \in 1 .. Len(prices)})
      BY <1>3, ImageFinite
    <2>2. stamps = {at[i] : i \in 1 .. Len(prices)}
      OBVIOUS
    <2>3. stamps \in SUBSET Nat /\ stamps # {}
      BY <1>1, <1>2
    <2> HIDE DEF stamps
    <2>4. QED
      BY <2>1, <2>2, <2>3
  <1>5. ToSet(prices) = {prices[i] : i \in 1 .. Len(prices)}
    BY <1>1 DEF ToSet
  <1>6. PICK m \in stamps : \A x \in stamps : x <= m
    <2> HIDE DEF stamps
    <2>1. QED
      BY <1>4, MaxOfSet
  <1>7. \E p \in ToSet(prices) : \A q \in ToSet(prices) : q.at <= p.at
    BY <1>5, <1>6
  <1>8. Breakdown \in ToSet(prices) /\ \A q \in ToSet(prices) : q.at <= Breakdown.at
    BY <1>7 DEF Breakdown
  <1>9. QED
    BY <1>1, <1>2, <1>5, <1>8 DEF Current

\* The sum of what was measured, when there is any.
LEMMA MeasuredType ==
    ASSUME NEW hours, Reading(hours)
    PROVE  Measured(hours) \in Nat
  <1>1. hours \in SUBSET Readable /\ hours # {}
    BY DEF Reading
  <1>2. Hours + 1 \in Nat /\ \A h \in Readable : Delivered[h] \in Nat
    <2>1. Hours \in Nat
      BY SettlementAssumption DEF SettlementAssumption
    <2>2. Delivered \in [Readable -> Nat]
      BY SettlementAssumption DEF SettlementAssumption, Readable
    <2>3. QED
      BY <2>1, <2>2
  <1>3. IsFiniteSet(Readable)
    BY <1>2, FS_Interval DEF Readable
  <1>4. IsFiniteSet(hours)
    BY <1>1, <1>3, FS_Subset
  <1>5. \A h \in hours : Delivered[h] \in Nat
    BY <1>1, <1>2
  <1>6. SumFunctionOnSet(Delivered, hours) \in Nat
    BY <1>4, <1>5, SumNat
  <1>7. QED
    BY <1>1, <1>6 DEF Measured

LEMMA PriceTradePays ==
    ASSUME IInv, PayInv, NEW w \in Workers, PriceTrade(w)
    PROVE  PayInv'
  <1> DEFINE r == [op |-> "stamp", price |-> Price[GridState]]
  <1>1. Go(w, r) /\ UNCHANGED <<meter, verdict, prices, settlements>>
    BY DEF PriceTrade, tables
  <1>2. GridState \in Verdicts
    BY DEF GridState, PayInv, Verdicts
  <1>3. Price[GridState] \in Nat
    BY <1>2, SettlementAssumption DEF SettlementAssumption
  <1>4. RequestPays(r)
    BY <1>3 DEF RequestPays
  <1> HIDE DEF r
  <1>5. QED
    BY <1>1, <1>4, RequestMoves

LEMMA StampPays ==
    ASSUME IInv, PayInv, NEW w \in Workers, Stamp(w)
    PROVE  PayInv'
  <1> DEFINE r == [op |-> "insert", price |-> request[w].price, at |-> NextStamp]
  <1>1. Go(w, r) /\ UNCHANGED <<meter, verdict, prices, settlements>>
    BY DEF Stamp, tables
  <1>2. request[w].price \in Nat
    BY DEF Stamp, Doing, PayInv, RequestPays
  <1>3. RequestPays(r)
    BY <1>2, StampType DEF RequestPays
  <1> HIDE DEF r
  <1>4. QED
    BY <1>1, <1>3, RequestMoves

LEMMA PriceCommitPays ==
    ASSUME IInv, PayInv, NEW w \in Workers, PriceCommit(w)
    PROVE  PayInv'
  <1> DEFINE p == [price |-> request[w].price, at |-> request[w].at]
  <1>1. /\ Go(w, Free) /\ prices' = Append(prices, p) /\ request[w].op = "insert"
        /\ UNCHANGED <<meter, verdict, settlements>>
    BY DEF PriceCommit, Doing
  <1>2. p \in Breakdowns
    BY <1>1 DEF PayInv, RequestPays, Breakdowns
  <1>3. RequestPays(Free)
    BY DEF RequestPays, Free
  <1> HIDE DEF p
  <1>4. QED
    BY <1>1, <1>2, <1>3, RequestMoves

LEMMA ReadPricePays ==
    ASSUME IInv, PayInv, NEW w \in Workers, NEW for, ReadPrice(w, for)
    PROVE  PayInv'
  <1> DEFINE r == [op |-> "measure", for |-> for, breakdown |-> Breakdown, priced |-> Len(prices)]
  <1>1. Go(w, r) /\ prices # <<>> /\ UNCHANGED <<meter, verdict, prices, settlements>>
    BY DEF ReadPrice, tables
  <1>2. Current(Breakdown, Len(prices))
    BY <1>1, BreakdownCurrent
  <1>3. RequestPays(r)
    BY <1>2 DEF RequestPays
  <1> HIDE DEF r
  <1>4. QED
    BY <1>1, <1>3, RequestMoves

LEMMA CalculatePays ==
    ASSUME IInv, PayInv, NEW w \in Workers, Calculate(w)
    PROVE  PayInv'
  <1> DEFINE q == request[w]
             r == [op |-> "compare", for |-> q.for, breakdown |-> q.breakdown,
                   priced |-> q.priced, outcome |-> Compare(Measured(meter)), hours |-> meter,
                   standing |-> {}]
  <1>1. Go(w, r) /\ q.op = "measure" /\ UNCHANGED <<meter, verdict, prices, settlements>>
    BY DEF Calculate, Doing, tables
  <1>2. Current(q.breakdown, q.priced) /\ meter \in SUBSET Readable
    BY <1>1 DEF PayInv, RequestPays
  <1>3. RequestPays(r)
    BY <1>2 DEF RequestPays
  <1> HIDE DEF r
  <1>4. QED
    BY <1>1, <1>3, RequestMoves

\* A request that has its comparison takes a step, and keeps what it has read.
LEMMA RequestCarries ==
    ASSUME IInv, PayInv, NEW w \in Workers, request[w].op \in {"compare", "supersede"},
           NEW op \in {"supersede", "conclude", "commit"}, NEW standing,
           op # "conclude" => Reading(request[w].hours)
    PROVE  /\ RequestPays([request[w] EXCEPT !.op = op])
           /\ RequestPays([request[w] EXCEPT !.op = op, !.standing = standing])
  <1> DEFINE q == request[w]
             r == [q EXCEPT !.op = op]
             s == [q EXCEPT !.op = op, !.standing = standing]
  <1>1. {"op", "for", "breakdown", "priced", "outcome", "hours"} \subseteq DOMAIN q
    BY DEF IInv, Shape, RequestOK, PayInv, RequestPays
  <1>2. /\ Current(q.breakdown, q.priced) /\ q.hours \in SUBSET Readable
        /\ q.outcome = Compare(Measured(q.hours))
    BY DEF PayInv, RequestPays
  <1> HIDE DEF q
  <1>3. /\ r.op = op /\ r.breakdown = q.breakdown /\ r.priced = q.priced /\ r.hours = q.hours
        /\ r.outcome = q.outcome /\ DOMAIN r = DOMAIN q
    BY <1>1
  <1>4. /\ s.op = op /\ s.breakdown = q.breakdown /\ s.priced = q.priced /\ s.hours = q.hours
        /\ s.outcome = q.outcome /\ DOMAIN s = DOMAIN q
    BY <1>1
  <1> HIDE DEF r, s
  <1>5. op # "conclude" => Reading(q.hours)
    BY DEF q
  <1>6. RequestPays(r)
    BY <1>1, <1>2, <1>3, <1>5 DEF RequestPays
  <1>7. RequestPays(s)
    BY <1>1, <1>2, <1>4, <1>5 DEF RequestPays
  <1>8. QED
    BY <1>6, <1>7 DEF q, r, s

LEMMA RecordPays ==
    ASSUME IInv, PayInv, NEW w \in Workers, RecordReconciliation(w)
    PROVE  PayInv'
  <1> DEFINE q  == request[w]
             op == IF q.for = "settle" /\ q.outcome.status = "reconciled"
                   THEN "supersede" ELSE "conclude"
             r == [q EXCEPT !.op = op]
  <1>1. Go(w, r) /\ q.op = "compare" /\ UNCHANGED <<meter, verdict, prices, settlements>>
    BY DEF RecordReconciliation, Doing, tables
  <1>2. q.hours \in SUBSET Readable /\ q.outcome = Compare(Measured(q.hours))
    BY <1>1 DEF PayInv, RequestPays
  <1>3. op = "supersede" => Reading(q.hours)
    <2>1. q.outcome.status = "reconciled" => Measured(q.hours) # None
      BY <1>2 DEF Compare
    <2>2. Measured(q.hours) # None => q.hours # {}
      BY DEF Measured
    <2>3. QED
      BY <1>2, <2>1, <2>2 DEF Reading
  <1>4. op \in {"supersede", "conclude"}
    OBVIOUS
  <1> HIDE DEF op
  <1>5. RequestPays(r)
    BY <1>1, <1>3, <1>4, RequestCarries
  <1> HIDE DEF r
  <1>6. QED
    BY <1>1, <1>5, RequestMoves

LEMMA SupersedePays ==
    ASSUME IInv, PayInv, NEW w \in Workers, Supersede(w)
    PROVE  PayInv'
  <1> DEFINE r == [request[w] EXCEPT !.op = "commit", !.standing = Standing]
  <1>1. Go(w, r) /\ request[w].op = "supersede" /\ UNCHANGED <<meter, verdict, prices, settlements>>
    BY DEF Supersede, Doing, Standing, tables
  <1>2. Reading(request[w].hours)
    BY <1>1 DEF PayInv, RequestPays
  <1>3. RequestPays(r)
    BY <1>1, <1>2, RequestCarries
  <1> HIDE DEF r
  <1>4. QED
    BY <1>1, <1>3, RequestMoves

LEMMA SettlePays ==
    ASSUME IInv, PayInv, NEW w \in Workers, SettleCommit(w)
    PROVE  PayInv'
  <1> DEFINE q   == request[w]
             row == SettlementRow(q)
             Old(i) == IF i \in q.standing
                       THEN [settlements[i] EXCEPT !.status = "superseded"] ELSE settlements[i]
             old == [i \in DOMAIN settlements |-> Old(i)]
             n   == Len(settlements)
  <1>1. /\ Go(w, Free) /\ q.op = "commit" /\ settlements' = Append(old, row)
        /\ UNCHANGED <<meter, verdict, prices>>
    BY DEF SettleCommit, Doing
  <1>2. /\ Current(q.breakdown, q.priced) /\ Reading(q.hours)
        /\ q.outcome = Compare(Measured(q.hours))
    BY <1>1 DEF PayInv, RequestPays
  <1>3. Paid(row)
    <2>1. Measured(q.hours) \in Nat /\ Measured(q.hours) # None
      BY <1>2, MeasuredType DEF Reading
    <2>2. q.outcome.actual = Measured(q.hours)
      BY <1>2, <2>1, Compared
    <2>3. /\ row.price = q.breakdown /\ row.priced = q.priced /\ row.hours = q.hours
          /\ row.actual = Measured(q.hours)
          /\ LET b == Bill(Measured(q.hours), q.breakdown.price)
             IN  row.fee = b.fee /\ row.charge = b.charge /\ row.debit = b.debit
                 /\ row.credit = b.credit
      BY <1>2, <2>2 DEF SettlementRow, Bill
    <2>4. {"price", "priced", "hours", "actual", "fee", "charge", "debit", "credit"}
            \subseteq DOMAIN row
      BY DEF SettlementRow
    <2> HIDE DEF row
    <2>5. QED
      BY <1>2, <2>3, <2>4 DEF Paid
  <1>4. n \in Nat /\ DOMAIN settlements = 1 .. n
    BY DEF IInv, Shape
  <1>5. \A i \in 1 .. n : Paid(Old(i))
    <2> SUFFICES ASSUME NEW i \in 1 .. n
                 PROVE  Paid(Old(i))
      OBVIOUS
    <2> DEFINE s == settlements[i]
    <2>1. Paid(s)
      BY <1>4 DEF PayInv
    <2>2. Paid([s EXCEPT !.status = "superseded"])
      <3> HIDE DEF s
      <3>1. QED
        BY <2>1 DEF Paid
    <2>3. QED
      BY <2>1, <2>2
  <1> HIDE DEF row, Old
  <1>6. old \in Seq({Old(i) : i \in 1 .. n} \cup {row}) /\ Len(old) = n
    BY <1>4
  <1>7. /\ DOMAIN settlements' = 1 .. n + 1
        /\ \A i \in 1 .. n : settlements'[i] = Old(i)
        /\ settlements'[n + 1] = row
    BY <1>1, <1>4, <1>6
  <1>8. \A i \in DOMAIN settlements' : Paid(settlements'[i])
    BY <1>3, <1>4, <1>5, <1>7
  <1>9. RequestPays(Free)
    BY DEF RequestPays, Free
  <1>10. QED
    BY <1>1, <1>8, <1>9, RequestMoves

LEMMA StepPays == IInv /\ PayInv /\ [Next]_vars => PayInv'
  <1> SUFFICES ASSUME IInv, PayInv, [Next]_vars
               PROVE  PayInv'
    OBVIOUS
  <1>1. ASSUME UNCHANGED <<tables, request>>, meter' \subseteq Readable,
               verdict' \in Verdicts \cup {None}
        PROVE  PayInv'
    <2>1. UNCHANGED <<prices, settlements, request>>
      BY <1>1 DEF tables
    <2>2. /\ prices' \in Seq(Breakdowns)
          /\ \A r : RequestPays(r) => RequestPays(r)'
          /\ \A s : Paid(s) => Paid(s)'
      BY <2>1, CurrentKept
    <2>3. \A w \in Workers : RequestPays(request[w])'
      BY <2>1, <2>2 DEF PayInv
    <2>4. \A i \in DOMAIN settlements' : Paid(settlements[i])'
      BY <2>1, <2>2 DEF PayInv
    <2>5. QED
      BY <1>1, <2>2, <2>3, <2>4 DEF PayInv
  <1>2. CASE HourPasses \/ UNCHANGED vars
    BY <1>1, <1>2 DEF HourPasses, vars, PayInv
  <1>3. ASSUME NEW h \in 1 .. Hours + 1, ReadingArrives(h)
        PROVE  PayInv'
    BY <1>1, <1>3 DEF ReadingArrives, PayInv, Readable
  <1>4. ASSUME NEW v \in Judgements, Validated(v)
        PROVE  PayInv'
    <2>1. v \in Verdicts
      BY SettlementAssumption DEF SettlementAssumption
    <2>2. QED
      BY <1>1, <1>4, <2>1 DEF Validated, PayInv
  <1>5. ASSUME NEW w \in Workers, Conclude(w) \/ Fails(w)
        PROVE  PayInv'
    <2>1. Go(w, Free) /\ UNCHANGED <<meter, verdict, prices, settlements>>
      BY <1>5 DEF Conclude, Fails, tables
    <2>2. RequestPays(Free)
      BY DEF RequestPays, Free
    <2>3. QED
      BY <2>1, <2>2, RequestMoves
  <1>6. QED
    BY <1>2, <1>3, <1>4, <1>5, PriceTradePays, StampPays, PriceCommitPays, ReadPricePays, CalculatePays,
       RecordPays, SupersedePays, SettlePays
       DEF Next

\* The requests and rows that settlements are made from are what was measured and priced.
THEOREM PaidFromRecords == Spec => [](IInv /\ PayInv)
  <1>1. Init => IInv /\ PayInv
    BY DEF Init, IInv, Shape, RequestOK, Free, Held, Recorded, Doing, OneStands,
           PayInv, RequestPays
  <1>2. IInv /\ PayInv /\ [Next]_vars => (IInv /\ PayInv)'
    BY StepKeeps, StepPays
  <1>3. QED
    BY <1>1, <1>2, PTL DEF Spec

\* Whatever breakdowns are stamped and committed while it runs, a settlement pays none that
\* is older than one that was committed before it began (get_breakdown).
THEOREM CurrentPricePaid == Spec => []PaysCurrentPrice
  <1>1. PayInv => PaysCurrentPrice
    BY DEF PayInv, Paid, Current, PaysCurrentPrice
  <1>2. QED
    BY <1>1, PaidFromRecords, PTL

\* For every policy, price and reading, the two sides of a settlement differ by what the
\* platform retains, the buyer pays for no more than was agreed, delivering more never earns
\* a seller less, and what was not measured is not settled (StandardSettlementCalculator).
THEOREM LedgersBalance == Spec => []LedgerBalances
  <1>1. ASSUME IInv, PayInv, NEW i \in DOMAIN settlements
        PROVE  LET s == settlements[i]
               IN  /\ s.hours # {}
                   /\ s.debit = s.credit + s.fee + s.charge
                   /\ s.debit <= Amount(Committed, s.price.price)
                   /\ \A j \in DOMAIN settlements :
                         /\ s.price.price = settlements[j].price.price
                         /\ s.actual <= settlements[j].actual
                         => s.credit <= settlements[j].credit
    <2> DEFINE s == settlements[i]
               price == s.price.price
    <2>1. \A j \in DOMAIN settlements : LET t == settlements[j]
              IN  /\ Paid(t) /\ t.actual \in Nat /\ t.actual # None
                  /\ t.price.price \in Nat
      <3> SUFFICES ASSUME NEW j \in DOMAIN settlements
                   PROVE  LET t == settlements[j]
                          IN  /\ Paid(t) /\ t.actual \in Nat /\ t.actual # None
                              /\ t.price.price \in Nat
        OBVIOUS
      <3>1. Paid(settlements[j])
        BY <1>1 DEF PayInv
      <3>2. settlements[j].price \in Breakdowns
        BY <3>1 DEF Paid, Current
      <3>3. settlements[j].price.price \in Nat
        BY <3>2 DEF Breakdowns
      <3>4. QED
        BY <3>1, <3>3, MeasuredType DEF Paid, Reading
    <2>2. Paid(s) /\ s.actual \in Nat /\ s.actual # None /\ price \in Nat
      BY <1>1, <2>1
    <2>3. s.hours # {}
      BY <2>2 DEF Paid, Reading
    <2>4. s.debit = s.credit + s.fee + s.charge
      <3> DEFINE c == Compare(s.actual)
      <3>1. c.settled \in Nat /\ c.balancing \in Nat
        BY <2>2, Compared
      <3> HIDE DEF c
      <3>2. LET a == Account(c, price) IN a.debit = a.credit + a.fee + a.charge
        BY <2>2, <3>1, AccountTypes
      <3>3. QED
        BY <2>2, <3>2 DEF Paid, Bill, c
    <2>5. s.debit <= Amount(Committed, price)
      BY <2>2, BillGrows DEF Paid
    <2>6. ASSUME NEW j \in DOMAIN settlements, price = settlements[j].price.price,
                 s.actual <= settlements[j].actual
          PROVE  s.credit <= settlements[j].credit
      <3> DEFINE t == settlements[j]
      <3>1. Paid(t) /\ t.actual \in Nat /\ t.actual # None
        BY <2>1
      <3>2. Bill(s.actual, price).credit <= Bill(t.actual, price).credit
        BY <2>2, <2>6, <3>1, BillGrows
      <3>3. QED
        BY <2>2, <2>6, <3>1, <3>2 DEF Paid
    <2>7. QED
      BY <2>3, <2>4, <2>5, <2>6
  <1>2. IInv /\ PayInv => LedgerBalances
    BY <1>1 DEF LedgerBalances
  <1>3. QED
    BY <1>2, PaidFromRecords, PTL

-----------------------------------------------------------------------------
(***************************************************************************)
(* The price that a settlement pays: domain/policies/dynamic_pricing.py.   *)
(***************************************************************************)
Facts ==
    /\ trade \in [base : BasePrices, start : Deliveries]
    /\ grid \in [status : {"safe", "unsafe", "unknown"}, line : LoadingFacts,
                 transformer : LoadingFacts]
    /\ points \in [1 .. 2 -> Reported]
    /\ parties \in [buyer : Feeders \cup {Unmeasured}, seller : Feeders, pv : BOOLEAN]

LEMMA FactsInit == PriceInit => Facts
  <1> SUFFICES ASSUME PriceInit
               PROVE  Facts
    OBVIOUS
  <1>1. grid \in [status : {"safe"}, line : LoadingFacts, transformer : LoadingFacts]
    BY DEF PriceInit
  <1>2. grid \in [status : {"safe", "unsafe", "unknown"}, line : LoadingFacts,
                 transformer : LoadingFacts]
    BY <1>1
  <1>3. QED
    BY <1>2 DEF PriceInit, Facts

LEMMA FactsStep == Facts /\ [PriceNext]_priceVars => Facts'
  <1> SUFFICES ASSUME Facts, [PriceNext]_priceVars
               PROVE  Facts'
    OBVIOUS
  <1>1. CASE LoadingRises
    <2>1. PICK element \in {"line", "transformer"}, loading \in Loadings :
             grid' = [grid EXCEPT ![element] = loading]
      BY <1>1 DEF LoadingRises
    <2>2. loading \in LoadingFacts
      BY DEF LoadingFacts
    <2>3. grid' \in [status : {"safe", "unsafe", "unknown"}, line : LoadingFacts,
                     transformer : LoadingFacts]
      <3>1. CASE element = "line"
        BY <2>1, <2>2, <3>1 DEF Facts
      <3>2. CASE element = "transformer"
        BY <2>1, <2>2, <3>2 DEF Facts
      <3>3. QED
        BY <3>1, <3>2
    <2>4. QED
      BY <1>1, <2>3 DEF Facts, LoadingRises
  <1>2. CASE ValidationWorsens
    <2>1. \/ grid' \in [status : {"safe", "unsafe", "unknown"}, line : {Unmeasured}, transformer : {Unmeasured}]
          \/ grid' = [grid EXCEPT !.status = "unsafe"]
      BY <1>2 DEF ValidationWorsens
    <2>2. Unmeasured \in LoadingFacts
      BY DEF LoadingFacts
    <2>3. grid' \in [status : {"safe", "unsafe", "unknown"}, line : LoadingFacts,
                     transformer : LoadingFacts]
      BY <2>1, <2>2 DEF Facts
    <2>4. QED
      BY <1>2, <2>3 DEF Facts, ValidationWorsens
  <1>3. CASE ConfidenceFalls
    <2>1. PICK k \in DOMAIN points, c \in Confidences : points' = [points EXCEPT ![k] = c]
      BY <1>3 DEF ConfidenceFalls
    <2>2. c \in Reported
      BY DEF Reported
    <2>3. points' \in [1 .. 2 -> Reported]
      BY <2>1, <2>2 DEF Facts
    <2>4. QED
      BY <1>3, <2>3 DEF Facts, ConfidenceFalls
  <1>4. CASE LocalityEnds
    <2>1. \/ parties' = [parties EXCEPT !.buyer = Unmeasured]
          \/ parties' = [parties EXCEPT !.pv = FALSE]
      BY <1>4 DEF LocalityEnds
    <2>2. parties' \in [buyer : Feeders \cup {Unmeasured}, seller : Feeders, pv : BOOLEAN]
      BY <2>1 DEF Facts
    <2>3. QED
      BY <1>4, <2>2 DEF Facts, LocalityEnds
  <1>5. CASE UNCHANGED priceVars
    BY <1>5 DEF Facts, priceVars
  <1>6. QED
    BY <1>1, <1>2, <1>3, <1>4, <1>5 DEF PriceNext

\* Of what is not negative, quantize_price takes the half up.
LEMMA QuantizeNat ==
    ASSUME NEW n \in Nat, NEW d \in Nat \ {0}
    PROVE  /\ Quantize(n, d) = (2 * n + d) \div (2 * d)
           /\ Quantize(n, d) \in Nat
  <1> DEFINE x == 2 * n + d
             y == 2 * d
  <1>1. x \in Nat /\ y \in Nat \ {0} /\ ~(n < 0)
    OBVIOUS
  <1>2. Quantize(n, d) = x \div y
    BY <1>1 DEF Quantize
  <1> HIDE DEF x, y
  <1>3. x \div y \in Nat
    BY <1>1, DivMod
  <1>4. QED
    BY <1>2, <1>3 DEF x, y

LEMMA QuantizeGrows ==
    ASSUME NEW m \in Nat, NEW n \in Nat, NEW d \in Nat \ {0}, m <= n
    PROVE  Quantize(m, d) <= Quantize(n, d)
  <1> DEFINE x == 2 * m + d
             y == 2 * n + d
             z == 2 * d
  <1>1. x \in Nat /\ y \in Nat /\ x <= y /\ z \in Nat \ {0}
    OBVIOUS
  <1>2. Quantize(m, d) = x \div z /\ Quantize(n, d) = y \div z
    BY QuantizeNat
  <1> HIDE DEF x, y, z
  <1>3. x \div z <= y \div z
    BY <1>1, QuotientsGrow
  <1>4. QED
    BY <1>2, <1>3

\* A common factor may be cancelled.
LEMMA QuantizeCancels ==
    ASSUME NEW n \in Nat, NEW d \in Nat \ {0}, NEW k \in Nat \ {0}
    PROVE  Quantize(n * k, d * k) = Quantize(n, d)
  <1> DEFINE x == 2 * n + d
             y == 2 * d
             a == k * x
             b == k * y
             p == x \div y
             r == x % y
             q == a \div b
             s == a % b
  <1>1. x \in Nat /\ y \in Nat \ {0}
    OBVIOUS
  <1>2. n * k \in Nat /\ d * k \in Nat \ {0} /\ 2 * (n * k) + d * k = a /\ 2 * (d * k) = b
    OBVIOUS
  <1>3. Quantize(n * k, d * k) = q
    <2> DEFINE v == n * k
               w == d * k
    <2>1. v \in Nat /\ w \in Nat \ {0}
      BY <1>2
    <2> HIDE DEF v, w
    <2>2. Quantize(v, w) = (2 * v + w) \div (2 * w)
      BY <2>1, QuantizeNat
    <2>3. QED
      BY <1>2, <2>2 DEF v, w
  <1>4. Quantize(n, d) = p
    BY QuantizeNat
  <1> HIDE DEF x, y
  <1>5. x = y * p + r /\ r \in 0 .. y - 1 /\ p \in Nat
    BY <1>1, DivMod
  <1>6. a \in Nat /\ b \in Nat \ {0}
    BY <1>1
  <1> HIDE DEF a, b
  <1>7. a = b * q + s /\ s \in 0 .. b - 1 /\ q \in Nat
    BY <1>6, DivMod
  <1> HIDE DEF p, q, r, s
  <1>8. a = b * p + k * r
    <2>1. k * x = k * (y * p) + k * r
      BY <1>1, <1>5
    <2>2. k * (y * p) = (k * y) * p
      BY <1>1, <1>5
    <2>3. QED
      BY <2>1, <2>2 DEF a, b
  <1>9. k * r \in 0 .. b - 1
    <2>1. k * r <= k * (y - 1)
      BY <1>1, <1>5, ProductGrows
    <2>2. k * (y - 1) = b - k
      BY <1>1 DEF b
    <2>3. k * r \in Nat
      BY <1>5
    <2>4. QED
      BY <1>6, <2>1, <2>2, <2>3
  <1> DEFINE t == k * r
  <1>10. t \in 0 .. b - 1 /\ a = b * p + t
    BY <1>8, <1>9
  <1> HIDE DEF t
  <1>11. p <= q
    BY <1>5, <1>6, <1>7, <1>10, QuotientGrows
  <1>12. q <= p
    BY <1>5, <1>6, <1>7, <1>10, QuotientGrows
  <1>13. QED
    BY <1>3, <1>4, <1>5, <1>7, <1>11, <1>12

LEMMA TariffMax ==
    ASSUME NEW S \in SUBSET Nat, IsFiniteSet(S), S # {}
    PROVE  Max(S) \in S /\ \A x \in S : x <= Max(S)
  <1>1. PICK m \in S : \A x \in S : x <= m
    BY MaxExists
  <1>2. \A x \in S : m >= x
    BY <1>1
  <1>3. Max(S) \in S /\ \A y \in S : Max(S) >= y
    BY <1>1, <1>2 DEF Max
  <1>4. QED
    BY <1>3

LEMMA TariffMin ==
    ASSUME NEW S \in SUBSET Nat, S # {}
    PROVE  Min(S) \in S /\ \A x \in S : Min(S) <= x
  <1>1. \E m \in S : \A x \in S : m <= x
    BY MinExists
  <1>2. QED
    BY <1>1 DEF Min

\* How far a loading is over the threshold, up to the rating.
Over(u) == Max({0, Min({u, 100}) - Threshold})

LEMMA OverGrows ==
    ASSUME Threshold \in 1 .. 99, NEW u \in Nat, NEW v \in Nat, u <= v
    PROVE  Over(u) \in 0 .. 100 - Threshold /\ Over(u) <= Over(v)
  <1>1. \A x \in Nat : /\ Min({x, 100}) \in {x, 100}
                       /\ Min({x, 100}) <= x /\ Min({x, 100}) <= 100
    BY TariffMin
  <1>2. \A x \in Int : /\ Max({0, x}) \in {0, x}
                       /\ Max({0, x}) >= 0 /\ Max({0, x}) >= x
    <2> SUFFICES ASSUME NEW x \in Int
                 PROVE  /\ Max({0, x}) \in {0, x}
                        /\ Max({0, x}) >= 0 /\ Max({0, x}) >= x
      OBVIOUS
    <2>1. \E m \in {0, x} : \A y \in {0, x} : m >= y
      <3>1. CASE x <= 0
        BY <3>1
      <3>2. CASE 0 < x
        BY <3>2
      <3>3. QED
        BY <3>1, <3>2
    <2>2. QED
      BY <2>1 DEF Max
  <1>3. PICK a \in Nat : a = Min({u, 100}) /\ a \in {u, 100} /\ a <= u /\ a <= 100
    BY <1>1
  <1>4. PICK b \in Nat : b = Min({v, 100}) /\ b \in {v, 100} /\ b <= v /\ b <= 100
    BY <1>1
  <1>5. a - Threshold \in Int /\ b - Threshold \in Int
    OBVIOUS
  <1>6. /\ Over(u) = Max({0, a - Threshold}) /\ Over(v) = Max({0, b - Threshold})
    BY <1>3, <1>4 DEF Over
  <1>7. /\ Over(u) \in {0, a - Threshold} /\ Over(u) >= 0 /\ Over(u) >= a - Threshold
        /\ Over(v) \in {0, b - Threshold} /\ Over(v) >= 0 /\ Over(v) >= b - Threshold
    BY <1>2, <1>5, <1>6
  <1>8. a <= b
    BY <1>3, <1>4
  <1>9. QED
    BY <1>3, <1>4, <1>7, <1>8

FullCharge(b) == Quantize(b * CongestionMax, 100)
Charge(b, u) == Quantize(b * CongestionMax * Over(u), 100 * (100 - Threshold))

LEMMA ChargeGrows ==
    ASSUME NEW b \in Nat, NEW u \in Nat, NEW v \in Nat, u <= v
    PROVE  /\ Charge(b, u) \in Nat /\ Charge(b, u) <= Charge(b, v)
           /\ FullCharge(b) \in Nat /\ Charge(b, u) <= FullCharge(b)
  <1> DEFINE x == b * CongestionMax
             k == 100 - Threshold
             d == 100 * k
  <1>1. x \in Nat /\ k \in Nat \ {0} /\ d \in Nat \ {0} /\ Threshold \in 1 .. 99
    BY ParametersAssumption
  <1>2. /\ Charge(b, u) = Quantize(x * Over(u), d)
        /\ Charge(b, v) = Quantize(x * Over(v), d)
        /\ FullCharge(b) = Quantize(x, 100)
    BY DEF Charge, FullCharge
  <1>3. Over(u) \in 0 .. k /\ Over(v) \in 0 .. k /\ Over(u) <= Over(v)
    <2>1. v <= v
      OBVIOUS
    <2>2. Over(u) \in 0 .. 100 - Threshold /\ Over(u) <= Over(v)
      BY <1>1, OverGrows
    <2>3. Over(v) \in 0 .. 100 - Threshold
      BY <1>1, <2>1, OverGrows
    <2>4. QED
      BY <2>2, <2>3
  <1>4. d = 100 * k
    OBVIOUS
  <1> HIDE DEF x, k, d
  <1>5. /\ x * Over(u) \in Nat /\ x * Over(v) \in Nat /\ x * k \in Nat
        /\ x * Over(u) <= x * Over(v) /\ x * Over(u) <= x * k
    <2>1. PICK m \in Nat : m = Over(u)
      BY <1>1, <1>3
    <2>2. PICK n \in Nat : n = Over(v)
      BY <1>1, <1>3
    <2>3. m <= n /\ m <= k
      BY <1>1, <1>3, <2>1, <2>2
    <2>4. x * m <= x * n /\ x * m <= x * k
      BY <1>1, <2>3, ProductGrows
    <2>5. x * m \in Nat /\ x * n \in Nat /\ x * k \in Nat
      BY <1>1
    <2>6. QED
      BY <2>1, <2>2, <2>4, <2>5
  <1>6. Charge(b, u) \in Nat /\ Charge(b, u) <= Charge(b, v)
    <2> DEFINE m == x * Over(u)
               n == x * Over(v)
    <2>1. m \in Nat /\ n \in Nat /\ m <= n
      BY <1>5
    <2> HIDE DEF m, n
    <2>2. Quantize(m, d) \in Nat /\ Quantize(m, d) <= Quantize(n, d)
      BY <1>1, <2>1, QuantizeNat, QuantizeGrows
    <2>3. QED
      BY <1>2, <2>2 DEF m, n
  <1>7. FullCharge(b) \in Nat
    BY <1>1, <1>2, QuantizeNat
  <1>8. Charge(b, u) <= Quantize(x * k, d)
    BY <1>1, <1>2, <1>5, QuantizeGrows
  <1>9. Quantize(x * k, 100 * k) = Quantize(x, 100)
    BY <1>1, QuantizeCancels
  <1>10. QED
    BY <1>2, <1>4, <1>6, <1>7, <1>8, <1>9

-----------------------------------------------------------------------------
\* The components as functions of the facts.
LoadingOf(g) ==
    LET observed == {g.line, g.transformer} \ {Unmeasured}
    IN  IF observed = {} THEN Unmeasured ELSE Max(observed)
CongestionOf(g, b) ==
    IF g.status # "safe" \/ LoadingOf(g) = Unmeasured THEN FullCharge(b) ELSE Charge(b, LoadingOf(g))

Grids == [status : {"safe", "unsafe", "unknown"}, line : LoadingFacts,
          transformer : LoadingFacts]

LEMMA LoadingTyped ==
    ASSUME NEW g \in Grids
    PROVE  /\ LoadingOf(g) \in Nat \cup {Unmeasured} /\ Unmeasured \notin Nat
           /\ {g.line, g.transformer} \ {Unmeasured} \in SUBSET Nat
           /\ IsFiniteSet({g.line, g.transformer} \ {Unmeasured})
  <1> DEFINE observed == {g.line, g.transformer} \ {Unmeasured}
  <1>1. observed \in SUBSET Nat /\ Unmeasured \notin Nat
    <2>1. Unmeasured \notin Nat /\ Loadings \subseteq Nat
      BY ParametersAssumption
    <2>2. g.line \in Loadings \cup {Unmeasured} /\ g.transformer \in Loadings \cup {Unmeasured}
      BY DEF Grids, LoadingFacts
    <2>3. QED
      BY <2>1, <2>2
  <1>2. IsFiniteSet(observed)
    <2>1. IsFiniteSet(({} \cup {g.line}) \cup {g.transformer})
      BY FS_EmptySet, FS_AddElement
    <2>2. observed \subseteq ({} \cup {g.line}) \cup {g.transformer}
      OBVIOUS
    <2> HIDE DEF observed
    <2>3. QED
      BY <2>1, <2>2, FS_Subset
  <1>3. LoadingOf(g) = IF observed = {} THEN Unmeasured ELSE Max(observed)
    BY DEF LoadingOf
  <1> HIDE DEF observed
  <1>4. observed # {} => Max(observed) \in Nat
    BY <1>1, <1>2, TariffMax
  <1>5. QED
    BY <1>1, <1>2, <1>3, <1>4 DEF observed

\* Where every loading is reached by another, the other maximum is not less.
LEMMA LoadingGrows ==
    ASSUME NEW g \in Grids, NEW h \in Grids,
           \A x \in {g.line, g.transformer} \ {Unmeasured} :
              \E y \in {h.line, h.transformer} \ {Unmeasured} : x <= y,
           LoadingOf(g) # Unmeasured
    PROVE  LoadingOf(h) # Unmeasured /\ LoadingOf(g) <= LoadingOf(h)
  <1> DEFINE A == {g.line, g.transformer} \ {Unmeasured}
             B == {h.line, h.transformer} \ {Unmeasured}
  <1>1. /\ A \in SUBSET Nat /\ IsFiniteSet(A) /\ B \in SUBSET Nat /\ IsFiniteSet(B)
        /\ Unmeasured \notin Nat
    BY LoadingTyped
  <1>2. /\ LoadingOf(g) = IF A = {} THEN Unmeasured ELSE Max(A)
        /\ LoadingOf(h) = IF B = {} THEN Unmeasured ELSE Max(B)
        /\ \A x \in A : \E y \in B : x <= y
    BY DEF LoadingOf
  <1> HIDE DEF A, B
  <1>3. A # {} /\ LoadingOf(g) = Max(A)
    BY <1>2
  <1>4. Max(A) \in A
    BY <1>1, <1>3, TariffMax
  <1>5. PICK y \in B : Max(A) <= y
    BY <1>2, <1>4
  <1>6. LoadingOf(h) = Max(B) /\ Max(B) \in B /\ y <= Max(B)
    <2>1. B # {}
      BY <1>5
    <2>2. QED
      BY <1>1, <1>2, <2>1, TariffMax
  <1>7. PICK m \in Nat : m = Max(A)
    BY <1>1, <1>4
  <1>8. PICK n \in Nat : n = Max(B)
    BY <1>1, <1>6
  <1>9. y \in Nat /\ m <= y /\ y <= n
    BY <1>1, <1>5, <1>6, <1>7, <1>8
  <1>10. m <= n /\ n # Unmeasured
    BY <1>1, <1>9
  <1>11. QED
    BY <1>3, <1>6, <1>7, <1>8, <1>10

LEMMA CongestionTyped ==
    ASSUME NEW g \in Grids, NEW b \in Nat
    PROVE  /\ CongestionOf(g, b) \in Nat /\ CongestionOf(g, b) <= FullCharge(b)
           /\ FullCharge(b) \in Nat
  <1>1. LoadingOf(g) \in Nat \cup {Unmeasured}
    BY LoadingTyped
  <1>2. FullCharge(b) \in Nat
    <2>1. 0 \in Nat /\ 0 <= 0
      OBVIOUS
    <2>2. QED
      BY <2>1, ChargeGrows
  <1>3. CASE g.status # "safe" \/ LoadingOf(g) = Unmeasured
    BY <1>2, <1>3 DEF CongestionOf
  <1>4. CASE ~(g.status # "safe" \/ LoadingOf(g) = Unmeasured)
    <2>1. LoadingOf(g) \in Nat /\ CongestionOf(g, b) = Charge(b, LoadingOf(g))
      BY <1>1, <1>4 DEF CongestionOf
    <2>2. LoadingOf(g) <= LoadingOf(g)
      BY <2>1
    <2>3. Charge(b, LoadingOf(g)) \in Nat /\ Charge(b, LoadingOf(g)) <= FullCharge(b)
      BY <2>1, <2>2, ChargeGrows
    <2>4. QED
      BY <1>2, <2>1, <2>3
  <1>5. QED
    BY <1>3, <1>4

LEMMA CongestionRises ==
    ASSUME Facts, Facts', [PriceNext]_priceVars
    PROVE  /\ Congestion \in Nat /\ Congestion' \in Nat
           /\ Congestion <= Congestion'
           /\ grid.status # "safe" => grid'.status # "safe"
  <1> DEFINE b == trade.base
             c == CongestionOf(grid, b)
             e == CongestionOf(grid', b)
  <1>1. trade' = trade
    BY DEF PriceNext, priceVars, LoadingRises, ValidationWorsens,
           ConfidenceFalls, LocalityEnds
  <1>2. Congestion = c
    BY DEF Congestion, Utilisation, CongestionOf, LoadingOf, Charge, FullCharge, Over
  <1>3. Congestion' = e
    BY <1>1 DEF Congestion, Utilisation, CongestionOf, LoadingOf, Charge, FullCharge, Over
  <1>4. grid \in Grids /\ grid' \in Grids /\ b \in Nat
    BY ParametersAssumption DEF Facts, Grids
  <1> HIDE DEF b
  <1>5. c \in Nat /\ e \in Nat /\ c <= FullCharge(b) /\ FullCharge(b) \in Nat
    BY <1>4, CongestionTyped
  <1>6. CASE UNCHANGED grid
    BY <1>2, <1>3, <1>5, <1>6
  <1>7. CASE LoadingRises
    <2>1. PICK element \in {"line", "transformer"}, loading \in Loadings :
             /\ grid[element] # Unmeasured /\ loading > grid[element]
             /\ grid' = [grid EXCEPT ![element] = loading]
      BY <1>7 DEF LoadingRises
    <2>2. grid'.status = grid.status
      BY <1>4, <2>1 DEF Grids
    <2>3. loading \in Nat /\ grid[element] \in Nat /\ loading # Unmeasured
      <3>1. loading \in Nat /\ Unmeasured \notin Nat /\ LoadingFacts \subseteq Nat \cup {Unmeasured}
        <4>1. Unmeasured \notin Nat /\ Loadings \subseteq Nat
          BY ParametersAssumption
        <4>2. QED
          BY <4>1 DEF LoadingFacts
      <3>2. grid[element] \in LoadingFacts
        BY <1>4, <2>1 DEF Grids
      <3>3. QED
        BY <2>1, <3>1, <3>2
    <2>4. \A x \in {grid.line, grid.transformer} \ {Unmeasured} :
             \E y \in {grid'.line, grid'.transformer} \ {Unmeasured} : x <= y
      <3>1. {grid.line, grid.transformer} \ {Unmeasured} \in SUBSET Nat
        BY <1>4, LoadingTyped
      <3>2. CASE element = "line"
        <4>1. grid'.line = loading /\ grid'.transformer = grid.transformer /\ grid.line <= loading
          BY <1>4, <2>1, <2>3, <3>2 DEF Grids
        <4>2. QED
          <5> SUFFICES ASSUME NEW x \in {grid.line, grid.transformer} \ {Unmeasured}
                       PROVE  \E y \in {grid'.line, grid'.transformer} \ {Unmeasured} : x <= y
            OBVIOUS
          <5>1. CASE x = grid.line
            BY <2>3, <4>1, <5>1
          <5>2. CASE x = grid.transformer
            <6>1. x \in Nat /\ x \in {grid'.line, grid'.transformer} \ {Unmeasured}
              BY <3>1, <4>1, <5>2
            <6>2. x <= x
              BY <6>1
            <6>3. QED
              BY <6>1, <6>2
          <5>3. QED
            BY <5>1, <5>2
      <3>3. CASE element = "transformer"
        <4>1. grid'.transformer = loading /\ grid'.line = grid.line /\ grid.transformer <= loading
          BY <1>4, <2>1, <2>3, <3>3 DEF Grids
        <4>2. QED
          <5> SUFFICES ASSUME NEW x \in {grid.line, grid.transformer} \ {Unmeasured}
                       PROVE  \E y \in {grid'.line, grid'.transformer} \ {Unmeasured} : x <= y
            OBVIOUS
          <5>1. CASE x = grid.transformer
            BY <2>3, <4>1, <5>1
          <5>2. CASE x = grid.line
            <6>1. x \in Nat /\ x \in {grid'.line, grid'.transformer} \ {Unmeasured}
              BY <3>1, <4>1, <5>2
            <6>2. x <= x
              BY <6>1
            <6>3. QED
              BY <6>1, <6>2
          <5>3. QED
            BY <5>1, <5>2
      <3>4. QED
        BY <3>2, <3>3
    <2>5. LoadingOf(grid) # Unmeasured => LoadingOf(grid') # Unmeasured /\ LoadingOf(grid) <= LoadingOf(grid')
      BY <1>4, <2>4, LoadingGrows
    <2>6. LoadingOf(grid) \in Nat \cup {Unmeasured} /\ LoadingOf(grid') \in Nat \cup {Unmeasured}
      BY <1>4, LoadingTyped
    <2>7. LoadingOf(grid) # Unmeasured
      <3>1. grid[element] \in {grid.line, grid.transformer} \ {Unmeasured}
        BY <2>1
      <3> DEFINE observed == {grid.line, grid.transformer} \ {Unmeasured}
      <3>2. observed # {} /\ observed \in SUBSET Nat /\ IsFiniteSet(observed) /\ Unmeasured \notin Nat
        BY <1>4, <3>1, LoadingTyped
      <3>3. LoadingOf(grid) = Max(observed)
        BY <3>2 DEF LoadingOf
      <3> HIDE DEF observed
      <3>4. QED
        BY <3>2, <3>3, TariffMax
    <2>8. c <= e
      <3>1. CASE grid.status # "safe"
        BY <1>5, <2>2, <3>1 DEF CongestionOf
      <3>2. CASE grid.status = "safe"
        <4>1. c = Charge(b, LoadingOf(grid)) /\ e = Charge(b, LoadingOf(grid'))
          BY <2>2, <2>5, <2>7, <3>2 DEF CongestionOf
        <4>2. Charge(b, LoadingOf(grid)) <= Charge(b, LoadingOf(grid'))
          BY <1>4, <2>5, <2>6, <2>7, ChargeGrows
        <4>3. QED
          BY <4>1, <4>2
      <3>3. QED
        BY <3>1, <3>2
    <2>9. QED
      BY <1>2, <1>3, <1>5, <2>2, <2>8
  <1>8. CASE ValidationWorsens
    <2>1. \/ grid'.status # "safe"
          \/ grid'.line = Unmeasured /\ grid'.transformer = Unmeasured
      <3>1. \/ grid' \in [status : {"safe", "unsafe", "unknown"}, line : {Unmeasured}, transformer : {Unmeasured}]
            \/ grid' = [grid EXCEPT !.status = "unsafe"]
        BY <1>8 DEF ValidationWorsens
      <3>2. QED
        BY <1>4, <3>1 DEF Grids
    <2>2. grid'.line = Unmeasured /\ grid'.transformer = Unmeasured => LoadingOf(grid') = Unmeasured
      BY DEF LoadingOf
    <2>3. e = FullCharge(b)
      BY <2>1, <2>2 DEF CongestionOf
    <2>4. grid.status = "safe"
      BY <1>8 DEF ValidationWorsens
    <2>5. QED
      BY <1>2, <1>3, <1>5, <2>3, <2>4
  <1>9. QED
    BY <1>6, <1>7, <1>8 DEF PriceNext, priceVars, ConfidenceFalls, LocalityEnds

ConfidenceOf(ps) ==
    LET reported == {ps[k] : k \in DOMAIN ps} \ {Unmeasured}
    IN  IF reported = {} THEN Unmeasured ELSE Min(reported)
Doubt(b, c) == Quantize(b * (100 - c) * Uncertainty, 100 * 100)
ImbalanceOf(ps, b) ==
    IF ConfidenceOf(ps) = Unmeasured THEN Quantize(b * Unknown, 100)
    ELSE Doubt(b, ConfidenceOf(ps))

LEMMA DoubtGrows ==
    ASSUME NEW b \in Nat,
           NEW c \in 0 .. 100, NEW e \in 0 .. 100, e <= c
    PROVE  Doubt(b, c) \in Nat /\ Doubt(b, e) \in Nat /\ Doubt(b, c) <= Doubt(b, e)
  <1> DEFINE x == b * (100 - c) * Uncertainty
             y == b * (100 - e) * Uncertainty
  <1>1. Uncertainty \in Nat
    BY ParametersAssumption
  <1>2. x \in Nat /\ y \in Nat /\ x <= y
    <2>1. PICK m \in Nat : m = 100 - c
      OBVIOUS
    <2>2. PICK n \in Nat : n = 100 - e
      OBVIOUS
    <2>3. m <= n
      BY <2>1, <2>2
    <2>4. b * m \in Nat /\ b * n \in Nat /\ b * m <= b * n
      BY <2>3, ProductGrows
    <2>5. PICK i \in Nat : i = b * m
      BY <2>4
    <2>6. PICK j \in Nat : j = b * n
      BY <2>4
    <2>7. i <= j
      BY <2>4, <2>5, <2>6
    <2>8. Uncertainty * i <= Uncertainty * j
      BY <1>1, <2>7, ProductGrows
    <2>9. Uncertainty * i = i * Uncertainty /\ Uncertainty * j = j * Uncertainty
          /\ i * Uncertainty \in Nat /\ j * Uncertainty \in Nat
      BY <1>1
    <2>10. x = i * Uncertainty /\ y = j * Uncertainty
      BY <2>1, <2>2, <2>5, <2>6
    <2>11. QED
      BY <2>8, <2>9, <2>10
  <1>3. Doubt(b, c) = Quantize(x, 100 * 100) /\ Doubt(b, e) = Quantize(y, 100 * 100)
    BY DEF Doubt
  <1> DEFINE d == 100 * 100
  <1>4. d \in Nat \ {0}
    OBVIOUS
  <1> HIDE DEF x, y, d
  <1>5. Quantize(x, d) \in Nat /\ Quantize(y, d) \in Nat
        /\ Quantize(x, d) <= Quantize(y, d)
    BY <1>2, <1>4, QuantizeNat, QuantizeGrows
  <1>6. QED
    BY <1>3, <1>5 DEF d

LEMMA ConfidenceTyped ==
    ASSUME NEW ps \in [1 .. 2 -> Reported]
    PROVE  /\ {ps[k] : k \in DOMAIN ps} \ {Unmeasured} \in SUBSET (0 .. 100)
           /\ ConfidenceOf(ps) \in 0 .. 100 \cup {Unmeasured} /\ Unmeasured \notin Int
           /\ {ps[k] : k \in DOMAIN ps} \ {Unmeasured} # {} => ConfidenceOf(ps) # Unmeasured
           /\ ConfidenceOf(ps) # Unmeasured =>
                 /\ ConfidenceOf(ps) \in {ps[k] : k \in DOMAIN ps} \ {Unmeasured}
                 /\ \A x \in {ps[k] : k \in DOMAIN ps} \ {Unmeasured} : ConfidenceOf(ps) <= x
  <1> DEFINE reported == {ps[k] : k \in DOMAIN ps} \ {Unmeasured}
  <1>1. Unmeasured \notin Int /\ Confidences \subseteq 0 .. 100
    BY ParametersAssumption
  <1>2. reported \in SUBSET (0 .. 100)
    <2>1. \A k \in DOMAIN ps : ps[k] \in Confidences \cup {Unmeasured}
      BY DEF Reported
    <2>2. \A x \in reported : x \in Confidences
      BY <2>1
    <2> HIDE DEF reported
    <2>3. QED
      BY <1>1, <2>2
  <1>3. ConfidenceOf(ps) = IF reported = {} THEN Unmeasured ELSE Min(reported)
    BY DEF ConfidenceOf
  <1> HIDE DEF reported
  <1>4. reported # {} => /\ Min(reported) \in reported
                         /\ \A x \in reported : Min(reported) <= x
    <2>1. reported \in SUBSET Nat
      BY <1>2
    <2>2. QED
      BY <2>1, TariffMin
  <1>5. reported # {} => ConfidenceOf(ps) = Min(reported) /\ ConfidenceOf(ps) \in 0 .. 100
                         /\ ConfidenceOf(ps) # Unmeasured
    <2>1. reported # {} => Min(reported) \in 0 .. 100
      BY <1>2, <1>4
    <2>2. \A x \in 0 .. 100 : x # Unmeasured
      BY <1>1
    <2>3. QED
      BY <1>3, <2>1, <2>2
  <1>6. reported = {} => ConfidenceOf(ps) = Unmeasured
    BY <1>3
  <1>7. QED
    BY <1>1, <1>2, <1>4, <1>5, <1>6 DEF reported

LEMMA ImbalanceTyped ==
    ASSUME NEW ps \in [1 .. 2 -> Reported], NEW b \in Nat
    PROVE  ImbalanceOf(ps, b) \in Nat
  <1>1. Unknown \in Nat
    BY ParametersAssumption
  <1>2. CASE ConfidenceOf(ps) = Unmeasured
    <2>1. b * Unknown \in Nat
      BY <1>1
    <2>2. Quantize(b * Unknown, 100) \in Nat
      <3>1. PICK n \in Nat : n = b * Unknown
        BY <2>1
      <3>2. Quantize(n, 100) \in Nat
        <4>1. 100 \in Nat \ {0}
          OBVIOUS
        <4>2. QED
          BY <4>1, QuantizeNat
      <3>3. QED
        BY <3>1, <3>2
    <2>3. QED
      BY <1>2, <2>2 DEF ImbalanceOf
  <1>3. CASE ConfidenceOf(ps) # Unmeasured
    <2>1. PICK c \in 0 .. 100 : c = ConfidenceOf(ps)
      BY <1>3, ConfidenceTyped
    <2>2. c <= c
      <3>1. c \in Int
        OBVIOUS
      <3>2. QED
        BY <3>1
    <2>3. Doubt(b, c) \in Nat
      BY <2>2, DoubtGrows
    <2>4. QED
      BY <1>3, <2>1, <2>3 DEF ImbalanceOf
  <1>4. QED
    BY <1>2, <1>3

LEMMA ImbalanceRises ==
    ASSUME Facts, Facts', [PriceNext]_priceVars
    PROVE  /\ Imbalance \in Nat /\ Imbalance' \in Nat
           /\ Imbalance <= Imbalance'
  <1> DEFINE b == trade.base
             c == ImbalanceOf(points, b)
             e == ImbalanceOf(points', b)
  <1>1. trade' = trade
    BY DEF PriceNext, priceVars, LoadingRises, ValidationWorsens,
           ConfidenceFalls, LocalityEnds
  <1>2. Imbalance = c
    BY DEF Imbalance, Confidence, ImbalanceOf, ConfidenceOf, Doubt
  <1>3. Imbalance' = e
    BY <1>1 DEF Imbalance, Confidence, ImbalanceOf, ConfidenceOf, Doubt
  <1>4. points \in [1 .. 2 -> Reported] /\ points' \in [1 .. 2 -> Reported] /\ b \in Nat
    BY ParametersAssumption DEF Facts
  <1> HIDE DEF b
  <1>5. c \in Nat /\ e \in Nat
    BY <1>4, ImbalanceTyped
  <1>6. CASE UNCHANGED points
    BY <1>2, <1>3, <1>5, <1>6
  <1>7. CASE ConfidenceFalls
    <2>1. PICK k \in DOMAIN points, f \in Confidences :
             points[k] # Unmeasured /\ f < points[k] /\ points' = [points EXCEPT ![k] = f]
      BY <1>7 DEF ConfidenceFalls
    <2> DEFINE A == {points[j] : j \in DOMAIN points} \ {Unmeasured}
               B == {points'[j] : j \in DOMAIN points'} \ {Unmeasured}
               p == ConfidenceOf(points)
               q == ConfidenceOf(points')
    <2>2. f \in 0 .. 100 /\ Unmeasured \notin Int
      BY ParametersAssumption
    <2>3. points[k] \in A /\ f \in B
      <3>1. DOMAIN points' = DOMAIN points /\ points'[k] = f
        BY <1>4, <2>1
      <3>2. f # Unmeasured
        BY <2>2
      <3>3. QED
        BY <2>1, <3>1, <3>2
    <2>4. A \in SUBSET (0 .. 100) /\ B \in SUBSET (0 .. 100)
      BY <1>4, ConfidenceTyped
    <2>5. p # Unmeasured /\ q # Unmeasured
      BY <1>4, <2>3, ConfidenceTyped
    <2>6. p \in A /\ q \in B /\ \A x \in B : q <= x
      BY <1>4, <2>5, ConfidenceTyped
    <2>7. \E y \in B : y <= p
      <3>1. PICK j \in DOMAIN points : p = points[j]
        BY <2>6
      <3>0. PICK m \in 0 .. 100 : m = p
        BY <2>4, <2>6
      <3>2. CASE j = k
        <4>1. f <= p
          <5>1. f < m
            BY <2>1, <3>0, <3>1, <3>2
          <5>2. f <= m
            <6>1. f \in Nat /\ m \in Nat
              BY <2>2
            <6>2. QED
              BY <5>1, <6>1
          <5>3. QED
            BY <3>0, <5>2
        <4>2. QED
          BY <2>3, <4>1
      <3>3. CASE j # k
        <4>1. points'[j] = p /\ j \in DOMAIN points'
          BY <1>4, <2>1, <3>1, <3>3
        <4>2. p \in B
          BY <2>5, <4>1
        <4>3. m <= m
          <5>1. m \in Int
            OBVIOUS
          <5>2. QED
            BY <5>1
        <4>4. QED
          BY <3>0, <4>2, <4>3
      <3>4. QED
        BY <3>2, <3>3
    <2>8. c = Doubt(b, p) /\ e = Doubt(b, q)
      BY <2>5 DEF ImbalanceOf
    <2> HIDE DEF A, B, p, q
    <2>9. p \in 0 .. 100 /\ q \in 0 .. 100 /\ q <= p
      BY <2>4, <2>6, <2>7
    <2>10. Doubt(b, p) <= Doubt(b, q)
      BY <1>4, <2>9, DoubtGrows
    <2>11. QED
      BY <1>2, <1>3, <1>5, <2>8, <2>10
  <1>8. QED
    BY <1>6, <1>7 DEF PriceNext, priceVars, LoadingRises, ValidationWorsens,
                      LocalityEnds

-----------------------------------------------------------------------------
Reward(b) == Quantize(b * Incentive, 100)

LEMMA RewardNat ==
    ASSUME NEW b \in Nat
    PROVE  Reward(b) \in Nat
  <1>1. b * Incentive \in Nat
    BY ParametersAssumption
  <1>2. QED
    BY <1>1, QuantizeNat DEF Reward

LEMMA RenewableRises ==
    ASSUME Facts, Facts', [PriceNext]_priceVars
    PROVE  /\ Renewable \in Int /\ Renewable' \in Int
           /\ Renewable <= Renewable'
  <1> DEFINE b == trade.base
  <1>1. trade' = trade
    BY DEF PriceNext, priceVars, LoadingRises, ValidationWorsens,
           ConfidenceFalls, LocalityEnds
  <1>2. /\ Renewable = IF LocalRenewable THEN -Reward(b) ELSE 0
        /\ Renewable' = IF LocalRenewable' THEN -Reward(b) ELSE 0
    BY <1>1 DEF Renewable, Reward
  <1>3. LocalRenewable' => LocalRenewable
    <2>1. CASE UNCHANGED parties
      BY <2>1 DEF LocalRenewable
    <2>2. CASE LocalityEnds
      <3>1. \/ parties' = [parties EXCEPT !.buyer = Unmeasured]
            \/ parties' = [parties EXCEPT !.pv = FALSE]
        BY <2>2 DEF LocalityEnds
      <3>2. parties'.buyer = Unmeasured \/ parties'.pv = FALSE
        BY <3>1 DEF Facts
      <3>3. ~LocalRenewable'
        BY <3>2 DEF LocalRenewable
      <3>4. QED
        BY <3>3
    <2>3. QED
      BY <2>1, <2>2 DEF PriceNext, priceVars, LoadingRises, ValidationWorsens,
                        ConfidenceFalls
  <1>4. b \in Nat
    BY ParametersAssumption DEF Facts
  <1> HIDE DEF b
  <1>5. Reward(b) \in Nat
    BY <1>4, RewardNat
  <1>6. QED
    BY <1>2, <1>3, <1>5

\* The deepest discount of a tariff band, in percent.
Deepest == Max({0} \cup Discounts)

LEMMA DeepestBounds ==
    /\ Deepest \in Nat /\ Incentive + Deepest < 100
           /\ \A k \in DOMAIN Bands : /\ Bands[k].percent \in Int
                                      /\ Bands[k].percent < 0 => -Bands[k].percent <= Deepest
  <1> DEFINE K == {j \in DOMAIN Bands : Bands[j].percent < 0}
             f == [k \in DOMAIN Bands |-> -Bands[k].percent]
             S == {0} \cup Discounts
  <1>1. Bands \in Seq([from : 0 .. 24, to : 0 .. 24, percent : Int])
    BY ParametersAssumption
  <1>2. \A k \in DOMAIN Bands : Bands[k].percent \in Int
    <2> DEFINE R == [from : 0 .. 24, to : 0 .. 24, percent : Int]
    <2>1. \A x \in R : x.percent \in Int
      OBVIOUS
    <2>2. Bands \in Seq(R)
      BY <1>1
    <2> HIDE DEF R
    <2>3. \A k \in DOMAIN Bands : Bands[k] \in R
      BY <2>2
    <2>4. QED
      BY <2>1, <2>3
  <1>3. IsFiniteSet(K)
    <2>1. DOMAIN Bands = 1 .. Len(Bands) /\ Len(Bands) \in Nat
      BY <1>1
    <2>2. IsFiniteSet(1 .. Len(Bands))
      BY <2>1, FS_Interval
    <2>3. K \in SUBSET (1 .. Len(Bands))
      BY <2>1
    <2> HIDE DEF K
    <2>4. QED
      BY <2>2, <2>3, FS_Subset
  <1>4. Discounts = {f[k] : k \in K}
    BY DEF Discounts
  <1>5. Discounts \in SUBSET Nat /\ \A k \in K : -Bands[k].percent \in Discounts
    BY <1>2, <1>4
  <1> HIDE DEF f, K
  <1>6. IsFiniteSet(Discounts)
    BY <1>3, <1>4, ImageFinite
  <1>7. IsFiniteSet(S) /\ S \in SUBSET Nat /\ S # {}
    <2>1. IsFiniteSet(Discounts \cup {0})
      BY <1>6, FS_AddElement
    <2>2. S = Discounts \cup {0}
      OBVIOUS
    <2>3. IsFiniteSet(S)
      BY <2>1, <2>2
    <2>4. S \in SUBSET Nat /\ 0 \in S
      BY <1>5
    <2> HIDE DEF S
    <2>5. QED
      BY <2>3, <2>4
  <1>8. Deepest = Max(S) /\ \A x \in Discounts : x \in S
    BY DEF Deepest
  <1> HIDE DEF S
  <1>9. Deepest \in Nat /\ \A x \in S : x <= Deepest
    BY <1>7, <1>8, TariffMax
  <1>10. Incentive + Deepest < 100
    BY ParametersAssumption DEF Deepest
  <1>11. QED
    BY <1>2, <1>5, <1>8, <1>9, <1>10 DEF K

LEMMA BaseNat ==
    ASSUME Facts
    PROVE  trade.base \in Nat
  <1>1. trade.base \in BasePrices
    BY DEF Facts
  <1>2. BasePrices \subseteq Nat
    BY ParametersAssumption
  <1>3. QED
    BY <1>1, <1>2

\* What a band gives back is at most the deepest discount of the price.
LEMMA TimeBounded ==
    ASSUME Facts
    PROVE  /\ TimeComponent \in Int
           /\ -Quantize(trade.base * Deepest, 100) <= TimeComponent
           /\ Quantize(trade.base * Deepest, 100) \in Nat
  <1> DEFINE b == trade.base
             within == {k \in DOMAIN Bands : /\ Bands[k].from <= LocalHour
                                             /\ LocalHour < Bands[k].to}
             k == Min(within)
             t == TimeComponent
             q == Quantize(b * Deepest, 100)
  <1>1. b \in Nat /\ 100 \in Nat \ {0}
    BY BaseNat
  <1>2. t = IF within = {} THEN 0 ELSE Quantize(b * Bands[k].percent, 100)
    BY DEF TimeComponent
  <1>3. within \in SUBSET DOMAIN Bands /\ DOMAIN Bands \in SUBSET Nat
    <2>1. Bands \in Seq([from : 0 .. 24, to : 0 .. 24, percent : Int])
      BY ParametersAssumption
    <2>2. QED
      BY <2>1
  <1> HIDE DEF b, within
  <1>4. b * Deepest \in Nat
    BY <1>1, DeepestBounds
  <1>5. q \in Nat
    <2>1. PICK n \in Nat : n = b * Deepest
      BY <1>4
    <2>2. Quantize(n, 100) \in Nat
      BY <1>1, QuantizeNat
    <2>3. QED
      BY <2>1, <2>2
  <1>6. CASE within = {}
    BY <1>2, <1>5, <1>6 DEF b
  <1>7. CASE within # {}
    <2>1. k \in DOMAIN Bands
      <3>1. within \in SUBSET Nat
        BY <1>3
      <3>2. k \in within
        BY <1>7, <3>1, TariffMin
      <3>3. QED
        BY <1>3, <3>2
    <2>2. PICK p \in Int : p = Bands[k].percent /\ (p < 0 => -p <= Deepest)
      BY <2>1, DeepestBounds
    <2>3. t = Quantize(b * p, 100)
      BY <1>2, <1>7, <2>2
    <2>4. CASE p >= 0
      <3>1. PICK n \in Nat : n = b * p
        BY <1>1, <2>4
      <3>2. Quantize(n, 100) \in Nat
        BY <1>1, QuantizeNat
      <3>3. QED
        BY <1>5, <2>3, <3>1, <3>2 DEF b
    <2>5. CASE p < 0 /\ b = 0
      <3>1. b * p = 0 /\ 0 \in Nat
        BY <2>5
      <3>2. Quantize(0, 100) \in Nat
        BY <1>1, <3>1, QuantizeNat
      <3>3. QED
        BY <1>5, <2>3, <3>1, <3>2 DEF b
    <2>6. CASE p < 0 /\ b # 0
      <3>1. PICK d \in Nat : d = -p /\ d # 0 /\ d <= Deepest
        BY <2>2, <2>6
      <3>2. PICK n \in Nat : n = b * d
        BY <1>1
      <3>3. b * p = -n /\ n > 0
        BY <1>1, <2>6, <3>1, <3>2
      <3>4. Quantize(-n, 100) = -((2 * n + 100) \div 200)
        <4>1. -n < 0 /\ -2 * (-n) = 2 * n /\ 2 * 100 = 200
          BY <3>3
        <4>2. QED
          BY <4>1 DEF Quantize
      <3>5. Quantize(n, 100) = (2 * n + 100) \div 200 /\ Quantize(n, 100) \in Nat
        <4>1. /\ Quantize(n, 100) = (2 * n + 100) \div (2 * 100)
              /\ Quantize(n, 100) \in Nat
          BY <1>1, QuantizeNat
        <4>2. 2 * 100 = 200
          OBVIOUS
        <4>3. QED
          BY <4>1, <4>2
      <3>6. t = -Quantize(n, 100)
        BY <2>3, <3>3, <3>4, <3>5
      <3>7. Quantize(n, 100) <= q
        <4>1. Deepest \in Nat
          BY DeepestBounds
        <4>2. n <= b * Deepest
          BY <1>1, <3>1, <3>2, <4>1, ProductGrows
        <4>3. PICK m \in Nat : m = b * Deepest
          BY <1>4
        <4>4. Quantize(n, 100) <= Quantize(m, 100)
          BY <1>1, <4>2, <4>3, QuantizeGrows
        <4>5. QED
          BY <4>3, <4>4
      <3> HIDE DEF t, q
      <3>8. t \in Int /\ -q <= t
        BY <1>5, <3>5, <3>6, <3>7
      <3>9. QED
        BY <1>5, <3>8 DEF t, q, b
    <2>7. QED
      BY <2>2, <2>4, <2>5, <2>6
  <1>8. QED
    BY <1>6, <1>7

\* A network that is more loaded, or not known to be safe, a forecast that is less certain
\* and a trade that is less local never make energy cheaper, nor soften the recommendation:
\* rounding included. (congestion_fraction, imbalance_component, local_renewable_component,
\* recommend, quantize_price.)
LEMMA WorseStep ==
    ASSUME Facts, Facts', [PriceNext]_priceVars
    PROVE  /\ FinalPrice' >= FinalPrice
           /\ Severity[Recommend]' >= Severity[Recommend]
  <1>1. trade' = trade
    BY DEF PriceNext, priceVars, LoadingRises, ValidationWorsens,
           ConfidenceFalls, LocalityEnds
  <1>2. TimeComponent' = TimeComponent
    BY <1>1 DEF TimeComponent, LocalHour
  <1>3. PICK t \in Int : t = TimeComponent
    BY TimeBounded
  <1>4. PICK b \in Nat : b = trade.base
    BY BaseNat
  <1>5. PICK c \in Nat, e \in Nat : /\ c = Congestion /\ e = Congestion' /\ c <= e
                                    /\ grid.status # "safe" => grid'.status # "safe"
    BY CongestionRises
  <1>6. PICK i \in Nat, j \in Nat : i = Imbalance /\ j = Imbalance' /\ i <= j
    BY ImbalanceRises
  <1>7. PICK r \in Int, s \in Int : r = Renewable /\ s = Renewable' /\ r <= s
    BY RenewableRises
  <1>8. FinalPrice = b + t + c + i + r
    BY <1>3, <1>4, <1>5, <1>6, <1>7 DEF FinalPrice
  <1>9. FinalPrice' = b + t + e + j + s
    BY <1>1, <1>2, <1>3, <1>4, <1>5, <1>6, <1>7 DEF FinalPrice
  <1>10. b + t + e + j + s >= b + t + c + i + r
    <2>1. c <= e /\ i <= j /\ r <= s
      BY <1>5, <1>6, <1>7
    <2>2. QED
      BY <2>1
  <1>11. PICK h \in Nat : h = RepriceAt
    BY ParametersAssumption
  <1> DEFINE Advice(status, x) == IF status # "safe" THEN "reject"
                               ELSE IF b > 0 /\ x > 0 /\ x * 100 > h * b THEN "reprice"
                               ELSE "accept"
  <1>12. Recommend = Advice(grid.status, c)
    BY <1>4, <1>5, <1>11 DEF Recommend
  <1>13. Recommend' = Advice(grid'.status, e)
    BY <1>1, <1>4, <1>5, <1>11 DEF Recommend
  <1>14. /\ Severity = [accept |-> 0, reprice |-> 1, reject |-> 2]
         /\ Severity[Recommend]' = Severity[Recommend']
    BY DEF Severity
  <1>15. Severity[Advice(grid'.status, e)] >= Severity[Advice(grid.status, c)]
    <2>1. CASE grid'.status # "safe"
      <3>1. Advice(grid'.status, e) = "reject"
        BY <2>1
      <3>2. Advice(grid.status, c) \in {"accept", "reprice", "reject"}
        OBVIOUS
      <3> HIDE DEF Advice
      <3>3. QED
        BY <1>14, <3>1, <3>2
    <2>2. CASE grid'.status = "safe"
      <3>1. grid.status = "safe"
        BY <1>5, <2>2
      <3>2. CASE b > 0 /\ c > 0 /\ c * 100 > h * b
        <4>1. e > 0 /\ e * 100 > h * b
          <5>1. PICK n \in Nat : n = h * b
            OBVIOUS
          <5>2. c * 100 <= e * 100 /\ c * 100 > n /\ c <= e /\ c > 0
            <6>1. c <= e
              BY <1>5
            <6>2. c > 0 /\ c * 100 > n
              BY <3>2, <5>1
            <6>3. c * 100 <= e * 100
              BY <6>1
            <6>4. QED
              BY <6>1, <6>2, <6>3
          <5>3. e > 0 /\ e * 100 > n
            BY <5>2
          <5>4. QED
            BY <5>1, <5>3
        <4>2. Advice(grid'.status, e) = "reprice" /\ Advice(grid.status, c) = "reprice"
          BY <2>2, <3>1, <3>2, <4>1
        <4> HIDE DEF Advice
        <4>3. QED
          BY <1>14, <4>2
      <3>3. CASE ~(b > 0 /\ c > 0 /\ c * 100 > h * b)
        <4>1. Advice(grid.status, c) = "accept"
          BY <3>1, <3>3
        <4>2. Advice(grid'.status, e) \in {"accept", "reprice", "reject"}
          OBVIOUS
        <4> HIDE DEF Advice
        <4>3. QED
          BY <1>14, <4>1, <4>2
      <3>4. QED
        BY <3>2, <3>3
    <2>3. QED
      BY <2>1, <2>2
  <1> HIDE DEF Advice
  <1>16. QED
    BY <1>8, <1>9, <1>10, <1>12, <1>13, <1>14, <1>15

\* A network that is more loaded, or not known to be safe, a forecast that is less certain
\* and a trade that is less local never make energy cheaper, nor soften the recommendation:
\* rounding included. (congestion_fraction, imbalance_component, local_renewable_component,
\* recommend, quantize_price.)
THEOREM WorseIsDearer == PriceSpec => WorseNeverCheaper
  <1>1. Facts /\ [PriceNext]_priceVars => Facts'
    BY FactsStep
  <1>2. Facts /\ Facts' /\ [PriceNext]_priceVars
          => /\ FinalPrice' >= FinalPrice
             /\ Severity[Recommend]' >= Severity[Recommend]
    BY WorseStep
  <1>3. QED
    BY <1>1, <1>2, FactsInit, PTL DEF PriceSpec, WorseNeverCheaper

\* Two discounts that together are under half of a price do not round up to it, nor do
\* discounts that leave more than a quantum.
LEMMA DiscountsLeave ==
    ASSUME NEW b \in Nat \ {0}, NEW d \in Nat, NEW i \in Nat,
           d + i < 50 \/ b * (100 - (d + i)) > 100
    PROVE  Quantize(b * d, 100) + Quantize(b * i, 100) < b
  <1>1. PICK x \in Nat : x = b * d
    OBVIOUS
  <1>2. PICK y \in Nat : y = b * i
    OBVIOUS
  <1> DEFINE p == (2 * x + 100) \div 200
             q == (2 * y + 100) \div 200
  <1>3. Quantize(x, 100) = p /\ Quantize(y, 100) = q
    <2>1. 100 \in Nat \ {0} /\ 2 * 100 = 200
      OBVIOUS
    <2>2. QED
      BY <2>1, QuantizeNat
  <1>4. p \in Nat /\ 200 * p <= 2 * x + 100
    <2>1. 2 * x + 100 \in Nat /\ 200 \in Nat \ {0}
      OBVIOUS
    <2>2. QED
      BY <2>1, DivMod
  <1>5. q \in Nat /\ 200 * q <= 2 * y + 100
    <2>1. 2 * y + 100 \in Nat /\ 200 \in Nat \ {0}
      OBVIOUS
    <2>2. QED
      BY <2>1, DivMod
  <1> HIDE DEF p, q
  <1>6. b * (d + i) = x + y
    BY <1>1, <1>2
  <1>7. p + q < b
    <2>1. CASE d + i < 50 /\ b = 1
      <3>1. x = d /\ y = i
        BY <1>1, <1>2, <2>1
      <3>2. 200 * p < 200 /\ 200 * q < 200
        BY <1>4, <1>5, <2>1, <3>1
      <3>3. p = 0 /\ q = 0
        BY <1>4, <1>5, <3>2
      <3>4. QED
        BY <2>1, <3>3
    <2>2. CASE d + i < 50 /\ b # 1
      <3>1. d + i <= 49 /\ d + i \in Nat
        BY <2>2
      <3>2. b * (d + i) <= b * 49
        BY <3>1, ProductGrows
      <3>3. x + y <= 49 * b
        BY <1>6, <3>2
      <3>4. QED
        BY <1>4, <1>5, <2>2, <3>3
    <2>3. CASE b * (100 - (d + i)) > 100
      <3>1. b * (100 - (d + i)) = 100 * b - (x + y)
        BY <1>6
      <3>2. QED
        BY <1>4, <1>5, <2>3, <3>1
    <2>4. QED
      BY <2>1, <2>2, <2>3
  <1>8. QED
    BY <1>1, <1>2, <1>3, <1>7

LEMMA PriceStays ==
    ASSUME Facts,
           \/ Incentive + Deepest < 50
           \/ \A b \in BasePrices : b = 0 \/ b * (100 - (Incentive + Deepest)) > 100
    PROVE  NeverFree
  <1> SUFFICES ASSUME trade.base > 0
               PROVE  FinalPrice > 0
    BY DEF NeverFree
  <1>1. PICK b \in BasePrices : b = trade.base
    BY DEF Facts
  <1>2. b \in Nat \ {0} /\ Incentive \in Nat /\ Deepest \in Nat
    <2>1. b \in Nat
      BY <1>1, BaseNat
    <2>2. b \in Nat \ {0}
      BY <1>1, <2>1
    <2>3. Incentive \in Nat
      BY ParametersAssumption
    <2>4. QED
      BY <2>2, <2>3, DeepestBounds
  <1>3. Deepest + Incentive < 50 \/ b * (100 - (Deepest + Incentive)) > 100
    <2>1. Deepest + Incentive = Incentive + Deepest
      BY <1>2
    <2>2. QED
      BY <1>2, <2>1
  <1>4. Quantize(b * Deepest, 100) + Reward(b) < b
    BY <1>2, <1>3, DiscountsLeave DEF Reward
  <1>5. PICK q \in Nat : q = Quantize(b * Deepest, 100)
    BY <1>1, TimeBounded
  <1>6. PICK t \in Int : t = TimeComponent /\ -q <= t
    BY <1>1, <1>5, TimeBounded
  <1>7. PICK w \in Nat : w = Reward(b)
    BY <1>2, RewardNat
  <1>8. PICK r \in Int : r = Renewable /\ -w <= r
    BY <1>1, <1>7 DEF Renewable, Reward
  <1>9. PICK c \in Nat : c = Congestion
    <2>1. grid \in Grids
      BY DEF Facts, Grids
    <2>2. CongestionOf(grid, b) \in Nat
      BY <1>2, <2>1, CongestionTyped
    <2>3. CongestionOf(grid, b) = Congestion
      BY <1>1 DEF Congestion, Utilisation, CongestionOf, LoadingOf, Charge,
                  FullCharge, Over
    <2>4. QED
      BY <2>2, <2>3
  <1>10. PICK i \in Nat : i = Imbalance
    <2>1. points \in [1 .. 2 -> Reported]
      BY DEF Facts
    <2>2. ImbalanceOf(points, b) \in Nat
      BY <1>2, <2>1, ImbalanceTyped
    <2>3. ImbalanceOf(points, b) = Imbalance
      BY <1>1 DEF Imbalance, Confidence, ImbalanceOf, ConfidenceOf, Doubt
    <2>4. QED
      BY <2>2, <2>3
  <1>11. FinalPrice = b + t + c + i + r
    BY <1>1, <1>6, <1>8, <1>9, <1>10 DEF FinalPrice
  <1>12. q + w < b
    BY <1>4, <1>5, <1>7
  <1>13. b + t + c + i + r > 0
    BY <1>2, <1>6, <1>8, <1>12
  <1>14. QED
    BY <1>11, <1>13

\* No discount brings the price of an energy that costs something to zero, if the deepest
\* discounts are together under half of it, or leave more than a quantum of every price. What
\* PricingParameters demands, that they are under the whole of it, is not enough when the
\* components are rounded. (__post_init__, quote, quantize_price.)
THEOREM PriceStaysPositive ==
    ASSUME \/ Incentive + Deepest < 50
           \/ \A b \in BasePrices : b = 0 \/ b * (100 - (Incentive + Deepest)) > 100
    PROVE  PriceSpec => []NeverFree
  <1>1. Facts /\ [PriceNext]_priceVars => Facts'
    BY FactsStep
  <1>2. Facts => NeverFree
    BY PriceStays
  <1>3. QED
    BY <1>1, <1>2, FactsInit, PTL DEF PriceSpec
=============================================================================
