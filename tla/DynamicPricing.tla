--------------------------- MODULE DynamicPricing ---------------------------
(***************************************************************************)
(* The price of a trade (domain/policies/dynamic_pricing.py) as a function *)
(* of what services/pricing_service.py gathers for it: the verdict and the *)
(* metrics of the grid validation, the forecast that the seller's order    *)
(* cites, and the registry's facts about both sides.                       *)
(*                                                                         *)
(* A state is one set of such facts. A step makes one of them worse, so    *)
(* that properties compare the prices before and after. Prices are in      *)
(* quanta of 0.0001 INR/kWh and fractions in percent. Reasons and versions *)
(* are left out. Decimal arithmetic is exact here: see Loadings.           *)
(***************************************************************************)
EXTENDS Integers, Sequences, FiniteSetsExt

CONSTANTS
    Bands,         \* tariff bands [from, to, percent], local hours, in their order
    Offset,        \* local time less UTC, in half hours
    Threshold,     \* congestion_threshold_pct
    CongestionMax, \* congestion_max_fraction
    Uncertainty,   \* imbalance_fraction_per_uncertainty
    Unknown,       \* unknown_confidence_fraction
    Incentive,     \* local_renewable_fraction
    RepriceAt,     \* reprice_threshold_fraction
    BasePrices,    \* clearing prices of the trades
    Deliveries,    \* half hours of the day (UTC) in which deliveries start
    Loadings,      \* measured loadings in percent; (loading - Threshold) / (100 - Threshold)
                   \* is a finite decimal for those between the two
    Confidences,   \* confidences of forecast points in percent
    Feeders,
    Unmeasured     \* not measured, not reported, not known

Discounts == {-Bands[k].percent : k \in {j \in DOMAIN Bands : Bands[j].percent < 0}}

\* PricingParameters and TariffBand refuse anything else. Neither a price that quote takes
\* nor a loading is negative, and a confidence is a fraction.
ASSUME ParametersAssumption ==
    /\ Bands \in Seq([from : 0 .. 24, to : 0 .. 24, percent : Int])
    /\ \A k \in DOMAIN Bands : Bands[k].from < Bands[k].to
    /\ {CongestionMax, Uncertainty, Unknown, Incentive, RepriceAt} \subseteq Nat
    /\ Threshold \in 1 .. 99
    /\ Incentive + Max({0} \cup Discounts) < 100
    /\ BasePrices \subseteq Nat /\ Loadings \subseteq Nat /\ Confidences \subseteq 0 .. 100
    /\ Unmeasured \notin Int

VARIABLES
    trade,   \* its clearing price and the start of its delivery
    grid,    \* the validation run it cites: status and two loadings
    points,  \* confidences of the forecast points that cover the delivery window
    parties  \* the feeders of buyer and seller, and whether the seller has an active PV asset

priceVars == <<trade, grid, points, parties>>

-----------------------------------------------------------------------------
(***************************************************************************)
(* The request (pricing_service.build_request).                            *)
(***************************************************************************)
\* The lowest confidence that any covering point reports.
Confidence ==
    LET reported == {points[k] : k \in DOMAIN points} \ {Unmeasured}
    IN  IF reported = {} THEN Unmeasured ELSE Min(reported)

LocalRenewable ==
    /\ Unmeasured \notin {parties.buyer, parties.seller}
    /\ parties.buyer = parties.seller
    /\ parties.pv

-----------------------------------------------------------------------------
(***************************************************************************)
(* The components.                                                         *)
(***************************************************************************)
\* Fault: away from zero, whatever the digits.
QuantizeUp(n, d) == IF n < 0 THEN -((-n + d - 1) \div d) ELSE (n + d - 1) \div d

\* quantize_price of n/d: half up, which for a negative amount is away from zero.
Quantize(n, d) == IF n < 0 THEN -((-2 * n + d) \div (2 * d)) ELSE (2 * n + d) \div (2 * d)

LocalHour == ((trade.start + Offset) % 48) \div 2

TimeComponent ==
    LET within == {k \in DOMAIN Bands : Bands[k].from <= LocalHour /\ LocalHour < Bands[k].to}
    IN  IF within = {} THEN 0 ELSE Quantize(trade.base * Bands[Min(within)].percent, 100)

Utilisation ==
    LET observed == {grid.line, grid.transformer} \ {Unmeasured}
    IN  IF observed = {} THEN Unmeasured ELSE Max(observed)

\* Fault: no cap at the rating.
CongestionUncapped ==
    IF grid.status # "safe" \/ Utilisation = Unmeasured
    THEN Quantize(trade.base * CongestionMax, 100)
    ELSE LET over == Max({0, Utilisation - Threshold})
         IN  Quantize(trade.base * CongestionMax * over, 100 * (100 - Threshold))

\* The maximum unless the network was found safe and was measured.
Congestion ==
    IF grid.status # "safe" \/ Utilisation = Unmeasured
    THEN Quantize(trade.base * CongestionMax, 100)
    ELSE LET over == Max({0, Min({Utilisation, 100}) - Threshold})
         IN  Quantize(trade.base * CongestionMax * over, 100 * (100 - Threshold))

Imbalance ==
    IF Confidence = Unmeasured THEN Quantize(trade.base * Unknown, 100)
    ELSE Quantize(trade.base * (100 - Confidence) * Uncertainty, 100 * 100)

Renewable == IF LocalRenewable THEN -Quantize(trade.base * Incentive, 100) ELSE 0

FinalPrice == trade.base + TimeComponent + Congestion + Imbalance + Renewable

\* Fault: judged by how far the price has moved, not by congestion.
RecommendByPrice ==
    LET moved == IF FinalPrice > trade.base THEN FinalPrice - trade.base ELSE trade.base - FinalPrice
    IN  IF grid.status # "safe" THEN "reject"
        ELSE IF trade.base > 0 /\ moved * 100 > RepriceAt * trade.base THEN "reprice"
        ELSE "accept"

Recommend ==
    IF grid.status # "safe" THEN "reject"
    ELSE IF trade.base > 0 /\ Congestion > 0 /\ Congestion * 100 > RepriceAt * trade.base
         THEN "reprice"
         ELSE "accept"

-----------------------------------------------------------------------------
(***************************************************************************)
(* Facts, and how they get worse.                                          *)
(***************************************************************************)
LoadingFacts == Loadings \cup {Unmeasured}
Reported == Confidences \cup {Unmeasured}

PriceInit ==
    /\ trade \in [base : BasePrices, start : Deliveries]
    /\ grid \in [status : {"safe"}, line : LoadingFacts, transformer : LoadingFacts]
    /\ points \in [1 .. 2 -> Reported]
    /\ parties \in [buyer : Feeders \cup {Unmeasured}, seller : Feeders, pv : BOOLEAN]

LoadingRises ==
    /\ \E element \in {"line", "transformer"} : \E loading \in Loadings :
        /\ grid[element] # Unmeasured /\ loading > grid[element]
        /\ grid' = [grid EXCEPT ![element] = loading]
    /\ UNCHANGED <<trade, points, parties>>

\* The engine reports no loading any more, or the validation fails or condemns the trade.
ValidationWorsens ==
    /\ grid.status = "safe"
    /\ grid' \in [status : {"safe", "unsafe", "unknown"}, line : {Unmeasured}, transformer : {Unmeasured}]
                 \cup {[grid EXCEPT !.status = "unsafe"]}
    /\ UNCHANGED <<trade, points, parties>>

ConfidenceFalls ==
    /\ \E k \in DOMAIN points : \E c \in Confidences :
        /\ points[k] # Unmeasured /\ c < points[k]
        /\ points' = [points EXCEPT ![k] = c]
    /\ UNCHANGED <<trade, grid, parties>>

\* A node is taken off its feeder, or the last active PV asset is retired.
LocalityEnds ==
    /\ parties' \in {[parties EXCEPT !.buyer = Unmeasured], [parties EXCEPT !.pv = FALSE]}
    /\ UNCHANGED <<trade, grid, points>>

PriceNext == LoadingRises \/ ValidationWorsens \/ ConfidenceFalls \/ LocalityEnds

PriceSpec == PriceInit /\ [][PriceNext]_priceVars

-----------------------------------------------------------------------------
(***************************************************************************)
(* Properties.                                                             *)
(***************************************************************************)
Severity == [accept |-> 0, reprice |-> 1, reject |-> 2]

\* A network that is more loaded, or not known to be safe, a forecast that is less certain
\* and a trade that is less local never make energy cheaper, nor turn a refusal into a new
\* price or a new price into an acceptance: rounding included. (congestion_fraction,
\* imbalance_component, local_renewable_component, recommend, quantize_price.)
WorseNeverCheaper ==
    [][/\ FinalPrice' >= FinalPrice
       /\ Severity[Recommend]' >= Severity[Recommend]]_priceVars

\* No discount brings the price of an energy that costs something to zero: "The price may
\* never reach zero or turn negative", which PricingParameters means to guarantee "for every
\* possible input". (__post_init__, quote.)
NeverFree == trade.base > 0 => FinalPrice > 0
=============================================================================
