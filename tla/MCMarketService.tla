-------------------------- MODULE MCMarketService --------------------------
(* Instances of MarketService. *)
EXTENDS MarketService

O(id, side, user, kwh, limit, from, to) ==
    [id |-> id, side |-> side, user |-> user, site |-> user, kwh |-> kwh, limit |-> limit,
     from |-> from, to |-> to, date |-> CHOOSE d \in Dates : TRUE]

\* A buy that two sells suit, the later of them at the better price, for hours that only
\* overlap; the buyer's own sell; a buy that is too low and late; and a sell beyond the
\* surplus, which is refused.
Evening == {O(1, "buy", "a", 2, 7, 0, 2), O(2, "sell", "b", 1, 6, 0, 2),
            O(3, "sell", "c", 2, 5, 1, 3), O(4, "sell", "a", 1, 4, 0, 2),
            O(5, "buy", "d", 1, 4, 2, 3), O(6, "sell", "d", 3, 5, 0, 2)}

\* One or two trades of any orders, in whole kWh.
AnyTrades(book) ==
    LET one == {TradeOf(b, s, q) : b \in DOMAIN book, s \in DOMAIN book, q \in 0 .. 2}
    IN  {{}} \cup {{t, u} : t \in one, u \in one}

Sites == {"a", "b", "c", "d"}
Ample == [s \in Sites |-> 2]
=============================================================================
