------------------------------ MODULE Telemetry ------------------------------
(***************************************************************************)
(* Meter readings of one site, from the row a source sends to the row that *)
(* is stored: the CSV adapter and the request schema, the                  *)
(* classification of a reading against its series                          *)
(* (domain/policies/telemetry_quality.py), and ingestion in one            *)
(* transaction (services/telemetry_service.py).                            *)
(*                                                                         *)
(* Time counts metering intervals.  A reading of interval k has timestamp  *)
(* k, starts at k and ends at k + 1, unless its source says otherwise.     *)
(* The state of charge is one more value with bounds, and left out.        *)
(***************************************************************************)
EXTENDS Integers, Sequences, FiniteSets, FiniteSetsExt

CONSTANTS
    Workers,     \* threads that serve uploads
    Series,      \* (meter, asset) pairs: what a meter measures
    Uploads,     \* what may be uploaded: [via, rows]
    Strict,      \* TelemetryCSVAdapter.strict
    Threshold,   \* staleness_threshold
    MaxTime,     \* the last moment, a bound of the model
    MaxUploads,  \* uploads made, a bound of the model
    None,        \* what is not there
    Blank        \* an empty cell of a file

Quantities == {"generation", "load", "grid_import", "grid_export", "energy"}

Values == [Quantities -> Int \cup {None}]
Row == [series : Series, start : Int \cup {None}, end : Int \cup {None},
        unavailable : BOOLEAN, values : [Quantities -> Int \cup {None, Blank}]]
Reading == [series : Series, start : Int, end : Int, unavailable : BOOLEAN, values : Values]

\* Only a file may lack a timestamp or have empty cells, and a source reports readings.
ASSUME TelemetryAssumption ==
    /\ Strict \in BOOLEAN /\ Threshold \in Nat /\ MaxTime \in Nat /\ MaxUploads \in Nat
    /\ None \notin Int /\ Blank \notin Int
    /\ \A u \in Uploads :
          /\ u.via \in {"api", "csv", "source"} /\ u.rows \in Seq(Row)
          /\ u.via # "csv" => \A i \in DOMAIN u.rows :
                                  u.rows[i].start \in Int /\ u.rows[i].values \in Values
          /\ u.via = "source" => u.rows \in Seq(Reading)

VARIABLES
    now,      \* the time
    rows,     \* telemetry_readings, in commit order
    ingest,   \* ingest[w]: the upload that w classifies, or Free
    uploads,  \* uploads made
    failed    \* uploads that ended in a database error: [alone, refused], the latter the
              \* statuses of the readings that the database refused

ingestVars == <<now, rows, ingest, uploads, failed>>

-----------------------------------------------------------------------------
(***************************************************************************)
(* From rows to readings.                                                  *)
(***************************************************************************)
Known(v) == v \notin {None, Blank}
Negative(r) == \E ch \in Quantities : Known(r.values[ch]) /\ r.values[ch] < 0
Zero(v) == IF Known(v) THEN v ELSE 0

\* TelemetryCSVAdapter._parse_row raises for anything else.
Parses(row) ==
    /\ Known(row.start)
    /\ Known(row.end) => row.end > row.start
    /\ ~Negative(row)

\* A cell that is not given counts as zero, except of the energy; a row without grid cells
\* has the grid supply the balance, an empty one is a cell all the same.
Parse(row) ==
    LET v     == [ch \in Quantities |-> Zero(row.values[ch])]
        given == row.values["grid_import"] # None \/ row.values["grid_export"] # None
        energy == row.values["energy"]
        net   == v["load"] - v["generation"]
    IN  [row EXCEPT !.end = IF Known(@) THEN @ ELSE row.start + 1,
                    !.values = [v EXCEPT !["energy"] = IF Known(energy) THEN energy ELSE None,
                                         !["grid_import"] = IF given THEN @ ELSE Max({net, 0}),
                                         !["grid_export"] = IF given THEN @ ELSE Max({-net, 0})]]

\* TelemetryReadingCreate: a sample without an end is instantaneous.
WellFormed(row) == (Known(row.end) => row.end >= row.start) /\ ~Negative(row)
Normalized(row) == [row EXCEPT !.end = IF Known(@) THEN @ ELSE row.start]

\* The lines of a file in the order of their readings: sorted() keeps that of equal ones.
Earlier(file, i, j) ==
    file[i].start < file[j].start \/ (file[i].start = file[j].start /\ i < j)
OldestFirst(file, lines) ==
    CHOOSE order \in [1 .. Cardinality(lines) -> lines] :
        \A m, n \in 1 .. Cardinality(lines) : m < n => Earlier(file, order[m], order[n])

\* The readings of an upload, or <<>> when it is refused.  A request is refused for one bad
\* row, and so is a file in strict mode; an adapter reports the oldest first.
Readings(u) ==
    CASE u.via = "api" ->
           IF \A i \in DOMAIN u.rows : WellFormed(u.rows[i])
           THEN [i \in DOMAIN u.rows |-> Normalized(u.rows[i])] ELSE <<>>
      [] u.via = "csv" ->
           LET good  == {i \in DOMAIN u.rows : Parses(u.rows[i])}
               order == OldestFirst(u.rows, good)
           IN  IF Strict /\ good # DOMAIN u.rows THEN <<>>
               ELSE [n \in DOMAIN order |-> Parse(u.rows[order[n]])]
      [] u.via = "source" -> u.rows

-----------------------------------------------------------------------------
(***************************************************************************)
(* Classification.                                                         *)
(***************************************************************************)
\* What is known of a series: its rows, and what its batch has staged.
Starts(in, series) == {in[i].start : i \in {j \in DOMAIN in : in[j].series = series}}

\* classify_reading: the first that applies.
Status(r, at, starts) ==
    IF r.unavailable THEN "source_unavailable"
    ELSE IF r.end < r.start \/ Negative(r) THEN "invalid_value"
    ELSE IF \A ch \in Quantities : ~Known(r.values[ch]) THEN "missing"
    ELSE IF r.start \in starts THEN "duplicate"
    ELSE IF \E s \in starts : r.start < s THEN "out_of_order"
    ELSE IF at - r.end > Threshold THEN "stale"
    ELSE "valid"

\* NON_STORABLE_STATUSES
Storable(status) == status \notin {"duplicate", "invalid_value"}

\* Fault: only what is stored counts, not what the batch has staged.
ClassifyStored(r, at, staged) == Status(r, at, Starts(rows, r.series))

\* _classify_and_build, with staged_latest and staged_intervals.
Classify(r, at, staged) == Status(r, at, Starts(rows \o staged, r.series))

\* What is stored of a reading (_to_model).
ToModel(r, status) ==
    [series |-> r.series, start |-> r.start, end |-> r.end, values |-> r.values, status |-> status]

\* Fault: a reading that is not stored is staged all the same.
StageAll(staged, r, status) == Append(staged, ToModel(r, status))

Stage(staged, r, status) ==
    IF Storable(status) THEN Append(staged, ToModel(r, status)) ELSE staged

-----------------------------------------------------------------------------
(***************************************************************************)
(* Ingestion.                                                              *)
(***************************************************************************)
Free == [op |-> "free"]

IngestInit ==
    /\ now = 0
    /\ rows = <<>>
    /\ ingest = [w \in Workers |-> Free]
    /\ uploads = 0
    /\ failed = {}

Tick ==
    /\ now < MaxTime
    /\ now' = now + 1
    /\ UNCHANGED <<rows, ingest, uploads, failed>>

Others(w) == {x \in Workers \ {w} : ingest[x] # Free}

\* An upload is read; a refused one changes nothing.  evaluated_at is the time now.  alone
\* says that no other upload was being ingested at the same time.
Upload(w, u) ==
    /\ ingest[w] = Free /\ uploads < MaxUploads
    /\ Readings(u) # <<>>
    /\ ingest' = [x \in Workers |->
          IF x = w
          THEN [op |-> "classify", readings |-> Readings(u), at |-> now, outcomes |-> <<>>,
                staged |-> <<>>, alone |-> Others(w) = {}]
          ELSE IF x \in Others(w) THEN [ingest[x] EXCEPT !.alone = FALSE] ELSE ingest[x]]
    /\ uploads' = uploads + 1
    /\ UNCHANGED <<now, rows, failed>>

\* The next reading of the batch is classified against its series as it is now.
ClassifyNext(w) ==
    /\ ingest[w].op = "classify" /\ ingest[w].readings # <<>>
    /\ LET b == ingest[w]
           r == Head(b.readings)
           s == Classify(r, b.at, b.staged)
       IN  ingest' = [ingest EXCEPT
             ![w].readings = Tail(b.readings),
             ![w].outcomes = Append(@, [reading |-> r, status |-> s]),
             ![w].staged = Stage(@, r, s)]
    /\ UNCHANGED <<now, rows, uploads, failed>>

\* Fault: two readings without an asset do not collide.
TakenDistinct(new, i) ==
    /\ new[i].series # "site"
    /\ \/ \E j \in DOMAIN rows : rows[j].series = new[i].series /\ rows[j].start = new[i].start
       \/ \E j \in 1 .. i - 1 : new[j].series = new[i].series /\ new[j].start = new[i].start

\* The unique key, with NULLS NOT DISTINCT: a series has one reading of an interval.
Taken(new, i) ==
    \/ \E j \in DOMAIN rows : rows[j].series = new[i].series /\ rows[j].start = new[i].start
    \/ \E j \in 1 .. i - 1 : new[j].series = new[i].series /\ new[j].start = new[i].start

\* The CHECK constraints.
Accepted(r) == r.end >= r.start /\ ~Negative(r)

\* All that is storable is inserted and committed, or nothing is.
Store(w) ==
    /\ ingest[w].op = "classify" /\ ingest[w].readings = <<>>
    /\ LET new     == ingest[w].staged
           refused == {i \in DOMAIN new : ~Accepted(new[i]) \/ Taken(new, i)}
       IN  IF refused = {}
           THEN rows' = rows \o new /\ UNCHANGED failed
           ELSE /\ failed' = failed \cup {[alone |-> ingest[w].alone,
                                          refused |-> {new[i].status : i \in refused}]}
                /\ UNCHANGED rows
    /\ ingest' = [ingest EXCEPT ![w] = Free]
    /\ UNCHANGED <<now, uploads>>

IngestNext ==
    \/ Tick
    \/ \E w \in Workers : ClassifyNext(w) \/ Store(w) \/ \E u \in Uploads : Upload(w, u)

IngestSpec == IngestInit /\ [][IngestNext]_ingestVars

-----------------------------------------------------------------------------
(***************************************************************************)
(* Properties.                                                             *)
(***************************************************************************)
\* The statuses that readings get one by one: what is storable counts for the next.
OneByOne(outcomes, at) ==
    LET r(n) == outcomes[n].reading
        after[n \in 0 .. Len(outcomes)] ==
          IF n = 0 THEN rows
          ELSE IF Storable(Status(r(n), at, Starts(after[n - 1], r(n).series)))
               THEN Append(after[n - 1], r(n)) ELSE after[n - 1]
    IN  [n \in DOMAIN outcomes |-> Status(r(n), at, Starts(after[n - 1], r(n).series))]

\* A batch that meets no other is classified as its readings would be in separate calls
\* ("exactly as it would across two separate calls").
BatchLikeCalls ==
    \A w \in Workers :
        LET b == ingest[w]
        IN  b # Free /\ b.alone =>
              [n \in DOMAIN b.outcomes |-> b.outcomes[n].status] = OneByOne(b.outcomes, b.at)

\* No interval of a series is stored twice, also when two uploads of it meet; and an upload
\* that meets no other is never refused by the database for a reading that carries a
\* measurement: the service answers "duplicate" before uq_telemetry_readings is violated.
\* A reading without one is classified before it is compared (classify_reading).
StoredOnce ==
    /\ \A i, j \in DOMAIN rows :
          rows[i].series = rows[j].series /\ rows[i].start = rows[j].start => i = j
    /\ \A f \in failed : f.alone => f.refused \subseteq {"missing", "source_unavailable"}
=============================================================================
