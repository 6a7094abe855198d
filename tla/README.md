# UrjaSetu in TLA+

UrjaSetu is a marketplace in which the households of one feeder trade forecast solar
surplus in 15-minute slots. A FastAPI backend keeps everything in PostgreSQL, a background
worker moves the clock and settles what was delivered, and a local EVM node holds a digest
of each settlement. An older market of day-ahead sessions, with its own services for telemetry,
forecasts, grid validation, pricing, settlement and audit (the *phase services*), runs in the
same process over the same tables. These modules specify the backend's stateful core, check it
with TLC on small instances, and prove most of the safety properties with TLAPS for instances
of any size.

Paths are relative to `src/`; `app/` stands for `backend/app/`.

## The system

| Part | Code | State | Operations | Model |
|---|---|---|---|---|
| Connected marketplace | `app/services/workspace_service.py`, `app/api/v1/workspace.py` | sites, forecasts, readings, orders, trades, marketplace actions | register, place, cancel, clear the market, accept an offer | `Workspace` |
| Delivery and settlement | same | allocations, settlements, journal, receipt jobs | advance, reconcile, recover missing readings | `Workspace` |
| Clock and live mode | `app/services/experience_service.py`, `app/services/workspace_worker.py` | the single `Simulation` row | step, deliver, play, pause, live, scenario; the worker's cycle | `Workspace` |
| Matching engine | `app/domain/policies/market_matching.py` | none | match | inside `Workspace`'s clearing |
| Receipt outbox and contract | `app/adapters/ledger/evm.py`, `workspace_worker.py`, `blockchain/ReceiptRegistry.sol` | `blockchain_receipts`, the contract's map | publish, record | `Outbox`, `ReceiptPublication` |
| Refresh stream | `app/api/workspace_ws.py`, `frontend/src/lib/api.ts`, `ConnectedApp.tsx` | revision, each socket's last revision, the browser's fetches | bump, poll, notify, refetch | `RefreshStream` |
| Audit chain | `app/services/audit_service.py`, `app/domain/policies/audit_chain.py` | hash-linked events | record, verify, anchor | `AuditChain` |
| Realtime hub and gateway | `app/services/realtime_service.py`, `app/api/ws.py` | subscriptions, bounded queues | subscribe, publish, pump, disconnect | `Realtime` |
| Day-ahead market | `app/services/market_service.py`, `app/domain/policies/market_matching.py` | market sessions, orders, trades | open, place, cancel, close, clear | `MarketService` |
| Grid validation | `app/services/grid_validation_service.py`, `app/adapters/grid/`, `app/domain/policies/grid_limits.py` | digital twin, snapshots, validation runs | validate, record a snapshot | `GridValidation` |
| Pricing and settlement of a trade | `app/services/pricing_service.py`, `settlement_service.py`, `app/domain/policies/settlement.py` | breakdowns, reconciliations, settlements | price, reconcile, settle | `TradeSettlement`, `DynamicPricing` |
| Telemetry | `app/services/telemetry_service.py`, `app/adapters/meter/`, `app/domain/policies/telemetry_quality.py` | readings | parse, classify, ingest one or a batch | `Telemetry` |
| Forecasts | `app/services/forecast_service.py`, `app/adapters/forecast/`, `app/domain/policies/surplus.py` | runs and their points | run, read the surplus | `Forecasts` |
| Eligibility | `app/domain/policies/eligibility.py` | none | who may trade | a constant of `MarketService` |
| Sign-in and request protection | `app/services/auth_service.py`, `app/main.py` | sessions, attempts | sign in, resolve, limit | only that a session ends, in `RefreshStream` |
| Assets, identity, assistant, web client, scripts, schemas | the remaining files | records | create, read, render | not modelled |

**How the parts interact.** Every mutation of the connected marketplace is one database
transaction. It first locks the `Simulation` row (`state(db, True)`) and commits once at its
end, so the household requests, the operator's controls and the worker are serialised by that
lock. What is *not* serialised is what they read before it: the worker's cycle loads the row,
decides what to do, and only then locks it, and the session does not load it again. A
settlement writes a receipt job in its own transaction; the worker publishes the jobs
afterwards, one commit per receipt, over an unreliable call to the node. In live mode the
simulated clock follows the machine's; otherwise the operator or the worker moves it.

The phase services take no such lock. Each request is a READ COMMITTED transaction that reads what
it checks, computes, and writes at its end; two requests interleave between the two, and what keeps
them apart is unique keys, row locks of updates, and the audit chain: a request that records an
event flushes a row that names the head it read, and a second claim of that head waits for the first
and then fails. After the commit a service publishes to the realtime hub. Outside of test mode the
HTTP layer lets none of these writes through: unless `app_env` is `test` and `allow_legacy_test_api`
is set, `protect` (`app/main.py:161`) answers 410 to every write of a path that is neither
`/api/v1/auth/` nor `/api/v1/workspace`. The unlocked workers and the operators of `AuditChain`, and
the requests of `MarketService`, `TradeSettlement`, `GridValidation`, `Telemetry` and `Forecasts`,
therefore meet in test mode and where the services are called directly, as
`backend/scripts/import_telemetry.py` does; the modules specify the services, whoever calls them.

**What is hard.** A partly filled order may be rejected later in the same clearing. One meter
reading serves several trades, settled in passes far apart. A slot may pass with readings
missing, and the clock may jump backwards when live mode starts. A purchase may be retried
after its answer was lost. A chain transaction may be mined although nobody remembers its
hash. The worker writes a revision it read seconds ago. Two clearings of one session, two
settlements of one trade or two uploads of one interval meet between their reads and commits.
A queue drops messages and its client must still converge. A provider or an engine may fail,
or answer in a way that no one checks. `PROJECT.json` lists these hazards at their lines, with the
properties that watch them.

## Modules

`Workspace.tla` is the connected marketplace with the clock: one action per request, control
and cycle. `clear_market` and `reconcile_due` loop inside their transaction; each iteration is
a step (`MatchNext`, `ReconcileNext`) while `pairs` or `due` is not empty, which also says that
the lock is held. A transaction that raises is rolled back, so its conditions are guards.
Household actions are `Register`, `PlaceOrder`, `CancelOrder`, `AcceptOffer`; the operator's
are `ClearMarket`, `Step`, `DeliverTrades`, `EnableLive`, `RecoverMissing`, `SetScenario`,
`Play`; the worker's are `WorkerRead` (the load before the lock), `WorkerAdvance` and
`WorkerTick`. `seen` is the row the worker has loaded: `Deliver` writes a column only if the
new value differs from the one that was loaded, as the ORM does.

The abstractions are these:

* A slot is a natural number, energy and money are integers, and `Paisa` products of an
  energy and a price make 0.01 INR, rounded half to even like `Decimal.quantize`.
* `Surplus` (forecast solar minus load) and `Profile` (what a meter reads in a scenario) are
  constants: any forecast and any weather may be given.
* The power-flow verdict of a slot and the final price of a trade are chosen freely, for the
  solver and the price policy are not modelled. The invariants hold whatever they answer.
  The price a rejected trade was quoted is recorded as 0: no property reads it.
* `created_at` is the start of a transaction and not the order of the lock, so orders sort in
  any creation order (`CreationOrders`), as do trades of one slot in a settlement pass.
* A registration records `Backfill` slots of history; in the code the number is 7 days or, with
  a household setup, 30. The operator account and profile editing have no part in the market.
* Only *valid* readings are kept: other qualities are never settled on.

`MCWorkspace.tla` gives TLC a surplus and a profile. A prosumer expects two units per slot and
delivers one (none when cloudy), so that trades share a meter and fall short.

`Outbox.tla` is the publication of receipts, one call to the node per step (`Read`,
`ReadLogs`, `Send`, `ReadReceipt`), with the commit that ends each receipt's turn (`Save`).
`SendTimesOut` is a transaction whose answer is lost, `CallFails` a call the node does not
answer, and `Crash` the end of a process, with its session and its advisory lock. `Mine` and
`Record` are the node and the contract; the publisher's nonces make the node mine in the order
of sending. That a transaction may wait to be mined is what the code itself expects
(`submitted`); the development node mines at once, but a call may still be on its way when the
worker has given it up. Left out: payloads (the code never changes one), the read-only
`verify_receipt`, and a chain that is deleted and deployed anew.

`ReceiptPublication.tla` is what the outbox promises: receipts are issued, recorded and
confirmed, in that order, once. `Outbox` instantiates it with the table and the contract's map.

`RefreshStream.tla` is how an open browser learns of a change: a request's transaction is one
step (`Mutate`), the worker's cycle loads the row (`CycleBegins`), commits up to `MaxDue` times
(`CycleCommits`, the first time from the row it loaded) or fails; the socket connects, polls
and is lost; the browser receives a frame, fetches, and fetches again by itself. Content and
what a browser shows are counts of changes. Locking a row that a SQLAlchemy session already
holds does not read it again, which is why the first commit writes the loaded revision.

`AuditChain.tla` gives an appending request four kinds of step: `Stamp`, `ReadHead`, `Flush`
(or `Conflict`), `Commit` or `RollBack`. Workers in `Locked` serve the connected workspace and
are serial; the others are not. A fingerprint is the record that it covers, so equal ones cover
the same. `Alter` edits or removes a row outside the application; `ReadForAnchor` and `Anchor`
are the two halves of an operator's anchoring.

`Realtime.tla` has publishing threads (`CommitChange`, `CopyTargets`, `Deliver`, `Published`),
the event loop (`Enqueue`, of a put that a thread scheduled) and connections (`Subscribe`,
`SendReady`, `Pump`, `Notice`, `Close`). A change is its number; a client knows the changes
committed when it last fetched, which it does at the ready message and at every other.

`MarketService.tla` splits each request into its check and its commit, and clearing into
reading the session, matching, reading the orders again and inserting the trades (`Insert`),
flushing the fills (`Update`), and committing. The fills go to the rows that were read again, and
the table's CHECK refuses one that exceeds its order's energy (`WithinEnergy`). Prices count in
units of `PRICE_QUANTUM`, to which a midpoint is rounded half up.
Row locks and unique keys are PostgreSQL's. `overlapped` becomes true when a request begins
while another is being served: what only holds for requests that do not overlap says so.
`Engine` is what another engine may answer for a book; `AnyTrades` in `MCMarketService` lets it
propose any trades. `_validate_result`'s checks (`MatchingResult`, `Valid`) then decide.
Forecast surplus and eligibility are constants.

`TradeSettlement.tla` is one trade. `PriceTrade` quotes it, `Stamp` takes the time and
`PriceCommit` stores the breakdown, so that a later stamp may go with an older quote; then
`ReadPrice`, `Calculate`, `RecordReconciliation` and `Conclude`, or `Supersede` and
`SettleCommit`. The transaction that
has recorded an audit event holds the chain (`holder`), as `AuditChain` shows it does. Amounts
are integer paise, rounded half away from zero. The price of a breakdown is a constant for each
grid verdict; `DynamicPricing.tla` is that price as a function of the facts `build_request`
gathers, on decimals that are exact for the chosen loadings. A step of `DynamicPricing` makes
one fact worse.

`GridValidation.tla` reads the twin (`ValidateTrade`), solves (`Answer`, `InvalidAnswer`,
`EngineFails`), and records the run. The power-flow library is external; its solution is a
lossless radial flow: an element carries the power of the nodes that reach the source through
it, which `Path` finds by going up. `EditTwin` and late `RecordSnapshot`s happen in between. The adapter's
handling of missing ratings, of a baseline that cannot be solved and of violations that exist
without the trade is the code's.

`Telemetry.tla` takes rows of three kinds of source through parsing or the request schema, the
classification of one reading after the other against what is stored and staged (`Classify`,
`Stage`), and one transaction for the batch. `sorted()` of a file is any order by start that keeps
the order of equal ones, of which there is one. An empty cell (`Blank`) has no value but counts as
given where the adapter asks whether a file has grid columns. The timestamp of a reading is the start of its
interval; the state of charge is left out.

`Forecasts.tla` stamps a run (`RunForecast`), commits it (`CommitRun`), gathers history, asks the
provider, and stores points or a failure; the process may crash between. Runs are ordered by their
stamps, as `created_at` orders them, and may be committed in another order. `Predict` is the
baseline's same-period mean. Any provider may raise or distort its answer in the ways named in
`Faults`, which include a value that is open (`unknown`), negative, or too large for its column
(`huge`): `_validate_result` looks at none of these. `Surplus` is what the market reads from the
newest predictions, and `Offered` its power in a slot.

`WorkspaceProofs.tla`, `OutboxProofs.tla`, `AuditChainProofs.tla`, `MarketServiceProofs.tla`,
`TradeSettlementProofs.tla` and `GridValidationProofs.tla` hold the proofs about the modules they
are named after; that of the settlement also those about `DynamicPricing`, where
its prices come from. `InformationProofs.tla` is about what participants are told and decide on:
`Realtime`, `Forecasts` and `Telemetry`, which it extends together. Modules that are extended with
others have names of their own for their specification (`ForecastSpec`, `IngestSpec`, `PriceSpec`)
and, where they need it, for what is `None` in the code (`Absent`, `Unmeasured`).
`ArithmeticTheorems.tla` has what several of them need of products, quotients, maxima, orders of
and sums over finite sets. The `MC` modules hold the instances.

Definitions preceded by a `Fault:` comment are not part of the specification. Each is the
named definition as a plausible bug would change it, and shows that a property notices.

## Runs

| Run | What it explores | Properties | States |
|---|---|---|---|
| `market` | two households, one registering late, two quantities and prices, three orders, two trades, a request id; clearing with unsafe slots and unsuitable prices; missing readings, recovery, steps to delivery | `TypeOK`, `ReservedWithinSurplus`, `FilledByTrades`, `TradeTerms`, `RequestBuysOnce`, `SettledOnce`, `JournalBalances`, `MeterSpentOnce`, `PaidWithinLimits`, `EvidencePermanent` | 1,369,469 |
| `live` | playing and live mode, with the simulated clock behind or ahead of the machine's, after slots went missing | `LiveSettlement` | 1,711,236 |
| `outbox` | two workers, two receipts, three faults, a node that stops | `ConfirmedIsRecorded`, `SentAgainOnlyAfterFault`, `PublicationKept`, `Published` | 147,566 |
| `chain` | three workers, two of them locked, two operators, three events, one alteration | `ChainIsLine`, `RequestsWhole`, `IntactUnlessAltered`, `HistoryKept`, `RequestsEnd` | 159,418 |
| `clearing` | two workers, one session, six orders, the baseline engine and any other | `PairTradedOnce`, `EnergyCommittedOnce`, `BestFirst`, `SessionMovesOn` | 917,776 |
| `verdicts` | two workers, three states of the twin, an edit, late snapshots, the adapter and any other engine | `AcceptedIsCleared`, `LatestJudgesNewest` | 575,958 |
| `settling` | two workers that price, reconcile and settle one trade, late readings | `OneStands`, `LedgerBalances`, `PaysCurrentPrice` | 5,334,665 |
| `told` | a browser, requests, a worker with up to three commits per cycle | `EventuallyShown`, `EventuallyTold` | 86,999 |
| `fanout` | two threads, four events of two channels, a queue of two | `InOrder`, `Converges` | 1,035,628 |
| `uploads` | two threads, three of seven uploads that repeat, overlap, report gaps or contain bad rows | `StoredOnce`, `BatchLikeCalls` | 266,234 |
| `horizons` | two threads, three of four overlapping horizons in two bucket widths, runs stamped and committed in any order, eleven kinds of bad provider, a crash | `NoMoreThanForecast`, `FailureRecorded`, `NeverOlder` | 942,644 |
| `tariff` | the default parameters, every tariff band, three prices, four loadings, three confidences | `NeverFree`, `WorseNeverCheaper` | 39,168 |

**Bounds.** *Connected marketplace*: `Horizon` stops the clocks, `MaxOrders` and `MaxTrades`
bound the tables, and `MaxFaults` the crashes and lost answers. Three orders are the least with
which an order meets two others in one clearing, is partly filled by one and rejected with the
other; two trades share a meter; a prosumer's surplus of two units and quantities of one and two
make both the exact fit and the excess. Two prices against `Paisa = 2` make rounding happen.
`Backfill = 3` covers the horizon in `live`, as 30 days cover a normal outage in the code.
`Controls` selects which controls a run explores.
*Chain*: three events let one request record two while another waits and a third has read a
stale head. *Market*: six orders make a split, a skipped order of one's own, an overlap in time
and a refused offer, and two workers any pair of requests. *Settlement*: an hour whose
neighbour's reading is summed too, a shortfall and an over-delivery beyond the tolerance, and
three rows of each table. *Verdicts*: a missing rating, a missing node, and an overload that
exists without the trade. *Realtime*: four events overflow a queue of two while one is being
sent. *Forecasts*: three runs overlap pairwise and in different buckets. *Telemetry*: three
uploads, two at once, and a threshold that the last moment passes.
Workers that are alike are a symmetry in `verdicts` and `horizons`, which check invariants and,
`horizons`, a property of steps; elsewhere sites differ by role, or liveness is checked, and none
is used.

CHECK_DEADLOCK is off where the bounds stop the system: a full book at the last slot, or tables
that are full, have no next step. `told` is checked for deadlock.

**Fairness.** `Workspace!FairSpec` assumes that the machine's clock goes on, that a transaction
that holds the lock reaches its commit, and that the worker's loop runs (`run_worker` starts a
cycle every five seconds and survives every exception). Nothing is assumed of households or
the operator. `Outbox!FairSpec` assumes the same loop, calls that return within their timeout,
and a node that mines what it accepted; that the node stays up is the hypothesis of
`Published` itself (`<>[]up`). Crashes are bounded, so a worker is eventually not crashed.
`AuditChain!FairSpec` assumes that a worker takes its request's next step whenever it can: a
thread is scheduled, and PostgreSQL wakes a waiting insert when the other transaction ends.
`RefreshStream!Fairness` assumes that the browser reconnects (its timer), the socket polls once
a second, frames are read, a fetch ends, and the browser refetches at its interval; the
connection may be lost again and again. `Realtime!Fairness` assumes that a thread finishes its
loop over the targets, that the event loop runs what is scheduled, and that sockets are
written; nothing is assumed of who connects or goes. No fairness is assumed of users.

### Where the code departs from what its docs promise

These are the conditions under which the properties above hold, and what the modules show
happening outside them.

* **Stale worker cycle.** The cycle (`workspace_worker.py:62`) loads the row before the lock and
  acts on it afterwards. A delivery that commits in between moves the clock on, and the worker's
  advance puts it back. A cycle that had read a playing simulation moves a *live* clock past a
  slot without readings; the trade of that slot is then settled only with the operator's help.
  `LiveSettlement` therefore assumes that no loaded row contradicts live mode, and
  `EventuallyTold` that no request commits between the loading and the first commit of a cycle:
  otherwise the revision counts two changes as one and an open stream never reports the second.
  The browser shows it all the same, by its refetch interval (`EventuallyShown`).
* **Late registration.** `validate_grid` needs a forecast of every site for the order's day, and
  a household registered after that day's forecasts were due has none. Clearing a book with a
  compatible pair then raises, for everyone.
* **A receipt sent twice.** If a transaction's hash is lost and the retry looks before it is
  mined, a second one is sent, which reverts; the row keeps the hash of the second, and `publish`
  raises on it for ever although the contract holds the receipt. `Published` excludes receipts
  that were sent twice. The cycle takes a bounded batch in no order, so such receipts can also
  keep others out; the batch of the run holds them all.
* **Order of audit events.** `recorded_at` is taken before the head is read. Two overlapping
  requests may commit in the opposite order of their stamps; verification then reports a break
  in an untouched log, and every later append names a head that is already claimed and fails.
  `IntactUnlessAltered` assumes stamps in order. Removing the newest rows is not noticed, for
  nothing outside the table counts them, and the anchors' publications are not compared with it.
* **Overlapping market requests.** Between a clearing's second look at its orders and its flush
  another transaction may commit: a withdrawn order is filled, a fill overwrites another one's, for
  nothing locks the rows or compares their version. The unique key (`PairTradedOnce`) and the CHECK
  that no row is filled beyond its energy hold under every interleaving; an order's trades together
  may come to more than its row says, so `EnergyCommittedOnce` and `SessionMovesOn` are about
  requests that do not overlap. Each sell order is compared with the forecast surplus by itself, so
  several may offer it together.
* **Overlapping validations and prices.** Of two validations that overlap, the later record may
  judge the older twin. A trade across feeders is judged at the end that is on its feeder. An
  engine's answer that is not valid raises before anything is recorded, and the status is not
  compared with the metrics that come with it.
* **Settling early or for an unsafe trade.** The service settles what was measured so far, also
  before the window has ended, and does not ask for the verdict; a correction supersedes the
  settlement. A window that was measured in part is settled at the sum of its readings
  (`settlement_service.py:125`); only one without any reading is not. The energy of the reading
  that starts at the window's end is summed too.
* **A price that changes while it is paid.** Settlement reads the newest breakdown once, and
  nothing holds the price until it commits: a trade that is priced again in between is settled at
  the older one. `PaysCurrentPrice` is about the breakdown that was the newest when it looked. A
  quote may also be older than its stamp, so the newest breakdown need not be of the newest verdict.
* **Realtime.** A connection whose ready message fails leaves its subscription behind
  (`ws.py:113`). Messages of two threads may overtake each other; `InOrder` is about one thread.
* **Telemetry.** A second report of a gap for the same interval violates the unique key and fails
  its whole batch, because a reading without measurement is classified before it is compared:
  `StoredOnce` exempts `missing` and `source_unavailable`. A CSV cell that is missing or empty
  counts as zero, except of the energy; and a file with grid columns whose cells are empty has no
  import derived from its balance, unlike a file without such columns.
* **Forecasts.** Points whose bounds are crossed, or whose numbers exceed their columns, pass
  validation and are refused by the database while the failure path is over: the run stays
  `running`, as after a crash, and nothing looks for such runs later. `surplus.py:90` says that
  the two forecasts share a bucket grid, "which the orchestration service guarantees", but the
  interval is a field of each request: intervals that overlap and start apart are all served, and
  their overlap is counted twice. A negative load, which nothing refuses, adds to the surplus.
  `NoMoreThanForecast` is therefore about slots whose solar intervals start together and whose
  loads are not negative. A reading stamped at the horizon's start is part of the history.
* **Pricing.** "The price may never reach zero or turn negative. Only two components can subtract,
  so bounding their sum below 1 guarantees it for every possible input"
  (`dynamic_pricing.py:172`). It does for exact products; but each component is rounded half up to
  0.0001 INR, and half of 0.0001 is 0.0001 again. With a band of -50% and an incentive of 49%, which the check
  accepts, a price of 0.0001 becomes 0: `tariff` shows it with `Bands <- MCSteepBands` and
  `Incentive = 49`. With the default parameters no price does; `PriceStaysPositive` says which
  parameters are safe. A forecast of unknown confidence costs a fixed fraction, which may be less than
  that of a known poor one, so hiding a confidence can pay: `ConfidenceFalls` compares known
  ones.

## Proofs

All theorems are of the form `Spec => []P` or `Spec => Property`, from the named assumptions of
the modules: `SitesAssumption`, `TimeAssumption` and `DataAssumption` (roles and founders are
sites; a day has slots; quantities and prices are positive; the profile is a function of site
and slot), `OutboxAssumption`, `ChainAssumption`, `MarketAssumption`, `SettlementAssumption`,
`GridAssumption`, `RealtimeAssumption`, `ForecastsAssumption`, `TelemetryAssumption` and
`ParametersAssumption`. Sets are assumed finite
where something is summed over them or counted in them: the threads of `TradeSettlement` and the
nodes of a twin. Sites, slots, offers, connections, uploads, prices and the other threads may be of
any number. Two theorems have a hypothesis besides, named with them below.

**Connected marketplace.** `WorkspaceProofs` proves all nine invariants and the action property
that `market` checks. `TypeOK`, `TradeTerms`, `SettledOnce`, `JournalBalances`,
`RequestBuysOnce` and `EvidencePermanent` follow from `IInv`, which adds to the first five

* `BookSound`: what an order has matched fits its energy and its status. Without it a fill could
  exceed the order, and a cancelled order could have matched something;
* `RoundSound`: during a clearing, the engine's remaining quantities never exceed the orders',
  and the pairs still to be visited are matchable and not cancelled. It carries the book across
  the steps of the loop, where rejections intervene;
* `DueSound`: what a settlement pass still has to settle is committed, hence not settled yet;
* `SettlementSound`: settlements refer to existing trades.

Most actions change only the clock, readings, forecasts or `due`; one lemma (`SimulationStepInv`)
serves them all. Placing, cancelling, opening a clearing, visiting a pair, buying directly and
settling one trade each have a lemma of their own.

`FilledByTrades`, `ReservedWithinSurplus`, `MeterSpentOnce` and `PaidWithinLimits` say that energy
and money add up. On top of `IInv`, `EnergyInv` adds `HeldWithinSurplus` (what sell orders hold,
traded or on offer, fits the forecast surplus) and `SettledAtPrice` (a settlement is for no more
than its trade's energy, at its final price). Each step changes one summand of each sum; that
`Rounded` grows with its argument gives the limits from the prices.

**Receipts.** `OutboxProofs` proves `TypeOK`, `ConfirmedIsRecorded`, `SentAgainOnlyAfterFault`, and
that `Outbox` implements `ReceiptPublication`. Its `IInv` adds `ChainSound` (the contract's entries
are mined transactions of issued receipts), `PlaceSound` (what each call of `publish` knows of the
row, and that loaded receipts are unconfirmed) and `SendsCounted` (each transaction that neither
the table nor a session remembers was lost by a fault). `TypeOK` says that only the holder of the
advisory lock has receipts loaded, which the other parts need at every step.

**Audit chain.** `AuditChainProofs` proves `ChainIsLine` and `HistoryKept`, while no row is
altered outside the application. `IInv` is `Shape` (what transactions and rows consist of) and,
unless something was altered, `Sound`: the rows each transaction sees are a line with one
unclaimed hash, its tail; at most one transaction has flushed rows, and the first of them claims
the tail of the committed rows; a head that was read is a hash of the rows it was read from; the
row an operator anchors is still there. A transaction that would flush first has read a hash of
the committed rows, and the unique constraint lets it pass only if that hash is unclaimed: it is
the tail too, so it waits for the one that has it.

`RequestsWhole` (a request's events are in the log together or not at all), `UntouchedIntact`
(verification finds nothing in an untouched log whose stamps are in order) and
`IntactUnlessAltered` need what the rows say: `Told`, that each row matches its hash and that the
rows of a request that committed are all of its events, each claiming the one before; `TxnWhole`,
how far an open request has got. After an alteration `Found` takes its place: a changed row does
not match its hash (`ChangeFound`), and the hash of a removed one is still named by a row and will
never be a row's again (`RemovalFound`). `AlterationsAreFound` therefore assumes
`MaxAlterations <= 1`, and the hypothesis is needed: with two alterations the last row can be
changed and then removed, and nothing is left to be found. The other two hold for any bound.

**Day-ahead market.** `MarketServiceProofs` proves `PairTradedOnce` under every interleaving and
with any engine. Its `KeyInv` says that the trades that open transactions have inserted differ in
their keys from each other and from the committed ones; the insert waits for a key that another
transaction holds, so the commit adds keys that are new. `SessionMovesOn` follows from `TurnInv`:
until two requests overlap only one is being served, and what it found when it began, the status
of its session and the rows of its orders, is still in the tables when it writes.

`BestFirst` is about the baseline engine itself, on every book that a run can produce. That there
is a merit order to follow is proved first (`Better` is a strict order of the offers of a side, and
a finite set of them can be listed by it); the double loop of `match` then visits pairs of a buy and a sell, a
better order before a worse one; `SweptOK` says what holds after each pair: of an order that suits
both, something is left only if nothing is left of what came before. `RowInv` says that a clearing's
book is made of placed orders with no more matched than they have. `EnergyCommittedOnce` adds
`EnergyInv`: until requests overlap, the rows a clearing has read are those of the table, before
and after it reads them again, a fill that the CHECK accepts fits its order, and an order's trades
add up to what its row says is matched.

**Settlement of a trade.** `TradeSettlementProofs` proves `OneStands`. `settle_trade` lists the
settlements that stand after it has recorded the comparison's audit event, and a transaction that
has recorded one holds the chain until it ends; so between the list and the commit no other
settlement is committed, and the list is complete (`Held`). That the chain keeps such transactions
apart is `ChainIsLine`. `PaysCurrentPrice` and `LedgerBalances` rest on `PayInv`: a request keeps
what it has read until it has written its row, so a settlement is the bill of the hours it names at
the breakdown it names; that breakdown was the newest of those committed when it was read, and the
settlement counts them (`priced`), so breakdowns that follow change nothing. That a bill's
charge, fee and credit balance is arithmetic.

**Grid validation.** `GridValidationProofs` proves `AcceptedIsCleared` for any twin, baseline and
limits: `VerdictInv` says that a verdict has the property before it is recorded, for only a
network in which the adapter found nothing is called safe, and where no number exceeds its limit
each keeps it, since sums over the network are integers. `LatestJudgesNewest` rests on `OrderInv`:
edits, runs and snapshots only grow (`Grows`), so what a thread has read is at least as new as what
every run recorded before it began had read (`Reads`), and remains so while it solves.

**Realtime.** `InformationProofs` proves `InOrder`. `OrderInv` follows a thread's messages to a
connection along their way, the event loop, the queue, the socket: they are in order in each and
from each to the next, and the change that the thread has yet to hand to the connection is later
than all of them. A full queue loses its oldest message, which leaves the rest in order.

**Forecasts.** `InformationProofs` proves all three properties of `horizons` from `ForecastInv`:
the rows and what each thread holds are typed, a thread's run is its own and is not yet over
(`OwnRun`), and a run that is stamped or running has a thread or is lost. Typing is where the work
is: that whatever a provider answers, in each of the eleven ways, is refused or a set of points
with numbers, or gaps, in them, and that the baseline's mean of what is left of a history is a
number. `ServedIsNeverOlder` needs that points are only added, and added to one run.
`NothingOfferedTwice` compares, slot by slot, what the surplus offers with what the newest solar
run for that slot predicts. Where the solar intervals over a slot start together, at most one
point of the surplus that offers anything covers it, and that point's generation is of the newest
run with a prediction for that start, which is the newest with one for the slot; what the load
takes away is not negative.

**Ingestion.** `IntervalsAreStoredOnce` and `BatchesAreLikeCalls` rest on `MeterInv`, which speaks
of the batch that meets no other (`Alone`). `Vetted`: what it has staged is accepted by the table's
constraints and is of intervals that neither the table nor what was staged before it has, unless
it has no measurement. `Replayed`: there is a sequence of tables, one after each of the calls that
its readings would have been, and the last has the intervals of the table and what is staged; it
is extended with each reading, and the one that `OneByOne` defines by recursion is equal to it. A
batch that meets another keeps neither, and the unique key alone keeps the table.

**Pricing.** `TradeSettlementProofs` proves `WorseIsDearer` and `PriceStaysPositive` for all
parameters, prices, loadings and confidences. `quantize_price` keeps the order of what it rounds
(`QuantizeGrows`), so each component need only be shown to grow before rounding: congestion with
the measured loading up to the rating, where it meets the maximum that stands for the unknown;
imbalance with the lowest confidence. `PriceStaysPositive` needs more than the code checks. It
assumes that the two deepest discounts together are under 50%, or that they leave more than one
quantum of every price: then what rounding can add to both, half a quantum each, is still there.

**Arithmetic.** `SumFunctionOnSet` is the value of a function defined by recursion on the subsets
of a set. `ArithmeticTheorems` proves its laws (it is a number, it splits, it grows with its
summands, changing one summand changes it by as much) from one principle: strict inclusion is well
founded on the subsets of a finite set, so of those for which something fails one is smallest. It
also proves that a finite set with a strict order can be listed in it (`OrderExists`), for the
merit order and for the lines of a file.

**Only model-checked:** all liveness (`LiveSettlement`, `Published`, `RequestsEnd`,
`EventuallyShown`, `EventuallyTold`, `Converges`), for which TLAPS has no rules for fairness and
`ENABLED`. Every invariant and action property that a run checks is proved. Type invariants are
stated where proofs use them.

## Plan

1. An abstract ledger of trades (agreed, settled or refused, once) that `Workspace` and
   `TradeSettlement` implement.
2. Sign-in sessions with their expiry and the rate limiter as small modules; eligibility as an
   operator that `MarketService` takes its constants from.

## Not modelled, and why

The power-flow solver and the models of load, sun and weather are numerical; the specification
gives the first a lossless radial solution and lets the others answer anything. Password
hashing, cookies and the rate limiter, identity and assets (records without a protocol),
household aggregates and settings, the energy assistant, rendering, formatting, seeding,
evaluation scripts and migration are outside what these properties speak of. Reads (snapshots,
aggregates, timelines) change no state.
