------------------------- MODULE ReceiptPublication -------------------------
(***************************************************************************)
(* What the receipt outbox promises of a settled trade: a receipt is       *)
(* issued, then recorded once by the contract, then confirmed; nothing is  *)
(* confirmed that is not recorded, and nothing is taken back.              *)
(***************************************************************************)
CONSTANT Receipts

VARIABLES
    issued,     \* receipts that settlements have issued
    recorded,   \* receipts whose digest the contract holds
    confirmed   \* receipts the database reports as confirmed

vars == <<issued, recorded, confirmed>>

Init == issued = {} /\ recorded = {} /\ confirmed = {}

Issue(r) ==
    /\ r \notin issued
    /\ issued' = issued \cup {r}
    /\ UNCHANGED <<recorded, confirmed>>

Record(r) ==
    /\ r \in issued \ recorded
    /\ recorded' = recorded \cup {r}
    /\ UNCHANGED <<issued, confirmed>>

Confirm(r) ==
    /\ r \in recorded \ confirmed
    /\ confirmed' = confirmed \cup {r}
    /\ UNCHANGED <<issued, recorded>>

Next == \E r \in Receipts : Issue(r) \/ Record(r) \/ Confirm(r)

Spec == Init /\ [][Next]_vars
=============================================================================
