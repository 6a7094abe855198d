---------------------------- MODULE MCWorkspace ----------------------------
(***************************************************************************)
(* Small communities on which TLC checks Workspace: the forecasts and      *)
(* meter profiles that the runs give it as constants.                      *)
(***************************************************************************)
EXTENDS Workspace

\* Every prosumer expects a surplus of two units in each slot, a consumer none.
MCSurplus == [k \in Sites \X Slots |-> IF k[1] \in Prosumers THEN 2 ELSE -2]

\* The day is worse than forecast: a prosumer exports one unit, none when cloudy;
\* another household imports two.
MCProfile ==
    [sc \in Scenarios \ {"missing"} |->
        [k \in Sites \X Slots |->
            IF k[1] \in Prosumers
            THEN [export |-> IF sc = "normal" THEN 1 ELSE 0, import |-> 0]
            ELSE [export |-> 0, import |-> 2]]]
=============================================================================
