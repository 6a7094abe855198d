----------------------------- MODULE MCRealtime -----------------------------
(* Instances of Realtime. *)
EXTENDS Realtime

GridAndTelemetry == {"grid_snapshot_updated", "telemetry_updated"}
OneChannel == [c \in Conns |-> "grid"]
=============================================================================
