-------------------------- MODULE MCDynamicPricing --------------------------
(***************************************************************************)
(* The default parameters of PricingParameters, and a band with which the  *)
(* discounts come to just under the whole price.                           *)
(***************************************************************************)
EXTENDS DynamicPricing

MCBands == <<[from |-> 18, to |-> 22, percent |-> 10], [from |-> 9, to |-> 16, percent |-> -5]>>
MCSteepBands == <<[from |-> 9, to |-> 16, percent |-> -50]>>
=============================================================================
