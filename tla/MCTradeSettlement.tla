------------------------- MODULE MCTradeSettlement -------------------------
(* Instances of TradeSettlement, in units of 0.01 kWh and 0.01 INR per kWh. *)
EXTENDS TradeSettlement

\* A shortfall beyond the tolerance, and an over-delivery beyond it when the reading of the
\* next hour is summed too.
Late == <<90, 30>>
Steep == [safe |-> 525, unsafe |-> 633, unknown |-> 633]
\* A fee and a multiplier that make amounts round.
Charging == [tolerance |-> 5, fee |-> 3, multiplier |-> 150]
=============================================================================
