---------------------------- MODULE MCForecasts ----------------------------
(***************************************************************************)
(* Forecasts with readings every two slots of a four-slot day, so that two *)
(* buckets make a day. The second meter measured generation only.          *)
(***************************************************************************)
EXTENDS Forecasts, TLC

Reading(meter, start, generation, load) ==
    [meter |-> meter, start |-> start, valid |-> TRUE, generation |-> generation, load |-> load]

MCObservations ==
    {Reading("m2", 0, 3, Absent), Reading("m1", 4, 5, 2)}

Ask(type, start, end, interval) == [type |-> type, start |-> start, end |-> end, interval |-> interval]

\* Horizons that start on one grid, and one in a narrower bucket that starts inside of theirs.
MCHorizons == {Ask("solar", 4, 7, 2), Ask("solar", 6, 8, 2), Ask("solar", 5, 6, 1), Ask("load", 4, 7, 2)}

\* The threads are alike.
MCSymmetry == Permutations(Forecasters)
=============================================================================
