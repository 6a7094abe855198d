---------------------------- MODULE MCTelemetry ----------------------------
(* Instances of Telemetry. *)
EXTENDS Telemetry

Sent(series, start, generation, load, energy) ==
    [series |-> series, start |-> start, end |-> None, unavailable |-> FALSE,
     values |-> [ch \in Quantities |-> CASE ch = "generation" -> generation [] ch = "load" -> load
                                       [] ch = "energy" -> energy [] OTHER -> None]]
Measured(series, start) == [Sent(series, start, 2, 1, start + 1) EXCEPT !.end = start + 1]
Empty(series, start) == Sent(series, start, None, None, None)
Silent(series, start) == [Empty(series, start) EXCEPT !.unavailable = TRUE, !.end = start + 1]
NoGrid(row) == [row EXCEPT !.values["grid_import"] = Blank, !.values["grid_export"] = Blank]
Impossible(series, start) == [Measured(series, start) EXCEPT !.end = start - 1]

Api(rs) == [via |-> "api", rows |-> rs]
Csv(rs) == [via |-> "csv", rows |-> rs]
Source(rs) == [via |-> "source", rows |-> rs]

\* Uploads that repeat, overlap and come out of order, of the site's meter and one asset.
Mixed == {
    Api(<<Measured("site", 0), Measured("site", 1)>>),
    Api(<<Measured("site", 1), Measured("site", 0)>>),
    Api(<<Measured("site", 1), Measured("asset", 0), Measured("site", 1)>>),
    Source(<<Impossible("site", 1), Measured("site", 1), Measured("site", 2)>>),
    Csv(<<NoGrid(Sent("asset", 2, 3, 1, Blank)), Sent("asset", 1, 1, 3, 2), Sent("asset", None, 1, 1, 1)>>)}

\* Sources that have nothing to report, also for an interval that has a row already.
Gaps == {Source(<<Silent("site", 0)>>), Api(<<Empty("site", 1), Measured("site", 1)>>)}

MixedAndGaps == Mixed \cup Gaps
=============================================================================
