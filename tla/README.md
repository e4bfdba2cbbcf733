# Claire de Binare: TLA+ models of the trading path

The specification covers the services between a trade on the market and an
order at a venue, as far as they keep state that a restart, a second thread or
another service can disturb: candles, regime, signal, allocation, risk,
execution, the kill switch, the reduce-only unwind with db_writer, and the
stop-loss protection. One offline tool with a recovery protocol of its own, the
sensitivity campaign, is modelled too. Line numbers of the code each definition
models are in `PROJECT.json` under `map`.

## Inventory

| Component | State | Operations | Interacts through | Module |
|---|---|---|---|---|
| Candles, `services/candles` | open window per symbol | `process_trade`, sweep of expired windows, market state | trades topic, candle stream, `market_state` key | Candles, Regime |
| Regime, `services/regime` | current regime, candidate and count, last emission | candle handler, heartbeat, missing prices | candle and regime streams | Regime |
| Signal, `services/signal` | price history, last entry, open position | one handler per strategy | trades topic, `market_state` key, signals topic | Signal |
| Allocation, `services/allocation` | stable regime, cooldowns, shutdown ids, last ids | bootstrap; regime, fill and shutdown handlers | three input streams, decision stream | Allocation |
| Risk, `services/risk/service.py` | `risk_state`, allocations, shutdowns, `risk_off` | `process_signal`, `handle_order_result`, one listener thread per stream | Redis topics and streams | RiskGate, Regime, Allocation |
| Risk: unwind, `services/risk/service.py` | attempt in hand | proactive and reactive unwind, `send_order` | database, Redis | ReduceOnly |
| Reduce-only contract, `reduce_only.py`, `database.py` | rows of `reduce_only_executions`, positions | prepare, attempt decision, bind, finalise | called by risk (claim) and execution (bind, finalise) | ReduceOnly |
| db_writer, `db_writer.py` | position read but not yet written | `process_trade_event`, `update_position_from_trade` | positions table, autocommit | ReduceOnly |
| Execution, `services/execution/service.py` | order in hand, `bot_shutdown_active`, stream cursor | `process_order`, `_handle_bot_shutdown`, `main` | Redis orders and `order_results`, shutdown stream, kill file | KillCancel |
| Open-order registry, `open_order_registry.py` | records by order id, ledger file | `register`, `update_status`, `mark_cancel_outcome`, `list_open`, `load_from_ledger` | called by all three threads under its own lock | KillCancel |
| Kill-cancel coordinator and supervisor, `kill_cancel.py` | lock, active kill event, fills after kill, last manifest; hold, accepted, last kill state | `reconcile`, `_cancel_one`, `note_fill_after_kill`; startup gate, transition, poll | registry, adapter, kill file | KillCancel |
| Adapters, `external_adapter_registry.py`, `mock_executor.py`, `live_executor.py` | orders at the venue | `execute`, `cancel_order`, `get_open_order` | called by `process_order` and by `reconcile` | KillCancel, ReduceOnly |
| Kill switch, `core/safety/kill_switch.py` | one state file, one temporary file | construct, `activate`, `deactivate`, read | risk's HTTP endpoints write, risk and execution read | KillSwitch |
| Stop-loss protection, `core/safety/stop_loss` | two-phase record file | evaluate, consume, prepare, finalize, initialize | caller's positions and prices, intent sink | StopLoss, OneShot |
| Sensitivity campaign, `tools/arvp_vacation` | lock, campaign and run envelopes, results, markers, comparisons | execute, resume, adopt | files | Campaign |
| Market data, websocket, replay, validation, reports, other tools | files and sockets | batch and I/O | | none |

What is hard here: threads that share dicts and counters without a lock (risk,
candles) or with locks taken at different times (execution); a kill file
changed by another process between any two reads; adapter calls made while
holding the coordinator's lock; streams read in any order relative to each
other and re-read after a restart; crashes between two writes of what only
together is consistent; orders delivered to several instances; claims decided
and made in different transactions; a positions row that two services update,
one of them without a lock. `hazards` in `PROJECT.json` lists each at its line,
with the property that watches it.

## Modules

**KillCancel** models one process. `pc` says where each thread is: `order`
(message loop and `process_order`), `sup` (startup, then the supervisor's
poll), `shut` (shutdown listener). A step is one critical section, one read of
the kill file or one adapter call. `Receive`, `KillGate`, `HoldGate`,
`RegisterPreSubmit`, `Recheck`, `Submit`, `ApplyRead`, `NoteFillAfterKill`,
`ApplyUpdate` and `Publish` are `process_order` in its order. `ReconcileStart`,
`PreRead`, `CancelCall`, `Readback`, `ReconcileFinish` are `reconcile` by
whichever thread holds the lock, `Post` is what the supervisor does with the
manifest. `Boot`, `PollRead`, `PollAct` are the supervisor. `mode` is the
configured adapter: the mock resting or filling, MEXC, or the dry run. A record
is its status: every stored record has `residual_open` set. `kill_event_id` is
derived from a fresh timestamp on every call, so the set of orders confirmed
under an id is empty at the start of every reconcile and not modelled. A
reconcile that a thread waits for is `wait`, then `reconcile`, then `post`.
`closed`, `confirmed` and `calm` are history variables.

**KillSwitch** models the state file below the level at which KillCancel uses
it: paths, inodes and descriptors, because all writers share one temporary
path. KillCancel's `kill` is the answer of `ReadsActive`.

**ReduceOnly** models one symbol: risk threads that claim an attempt and
publish its order, execution instances that bind, submit and finalise it, and
db_writer's two-step update of the same row. A step is one transaction, one
publish or one adapter call. `gate` stands for the gates of KillCancel.
Quantities are whole units; prices and profit are left out. `QUANTITY_CLAMPED`
is treated as `READY`, as the code's reason sets do. The paper account is long
only (db_writer opens no short), so the runs start flat or long.

**RiskGate** models the exposure accounting. `Screen` is `process_signal` up to
the reservation, `MainStep` the reservation, the publish and its failure path
read by read, `ListenerStep` is `handle_order_result` read by read: `x += y` on
shared state is a read and a write, so the two threads can lose an update.
`Execute` is the execution service as the risk service sees it: it answers, or
the order or its result is lost. `Crash`, `Subscribe`, `Bootstrap` are a
restart. A `client_id` is symbol and second, as in the code, so two orders may
share one. What is held at the venue is the sum of its fills (`venue`).

**Candles** models the aggregator: the main thread closes, opens and updates a
window in three steps, the sweep iterates over the dict, copies, emits and
deletes. A candle is the set of trades in it. The sweep dies where Python
raises (dict changed size, deleted key).

**Regime** models the way of a regime through three services. `CandleClosed`
and `UpdateMarketState` are the candles service, `RegimeStep` handles one
candle in the regime service (confirmation, change, heartbeat, missing prices,
failed emission), `RegimeThreadStarts`, `RegimeBootstrap`, `RegimeUpdate`,
`RegimeMissed` are the risk service's listener. `Admits` is `decide_trade` as
far as it depends on this state.

**Allocation** models `ServiceStart` (bootstrap), the three handlers with the
recomputation they end in, `ServiceCrash` also between two emissions of one
recomputation, and the risk service's two listeners. The performance rule is
its three verdicts. `Order` is the order of the rules, in which the loop
emits its decisions; `Emission` is what the loop has emitted after each of them.

**StopLoss** models the trigger arithmetic exactly, over three integer grids,
and the consumer step by step: `Consume` evaluates and looks up the record,
`Prepare`, `Accept`, `Finalize` are record, hand-over and commit, each of which
may fail. `Damage` loses or corrupts the file. **OneShot** is the abstract
specification it implements, with `claimed` mapped to the events that have a
record (`Recorded`) and `done` to the events in the sink (`Delivered`).

**Signal** models both breakout strategies on one symbol: a tick is judged
(`Exit`, `Enter` or `Pass`) and then added to a history that is pruned.

**Campaign** models `execute_campaign` as a runner whose every file write is a
step, with the budget, the reproduction loop, the phases and the adoption tool.

Several modules have a history variable `odd` or `faults`: the set of
circumstances that have happened and that the code's bookkeeping does not
survive (a shared `client_id`, a lost update, a dead sweep). A property that
needs their absence names them, so it is seen what each one costs; the action
that meets the circumstance still does all that the code does.

The `MC` modules hold symmetry sets and the values that a `.cfg` cannot
express. RiskGate and KillSwitch share proof modules with ReduceOnly and
KillCancel; where the names would be the same, theirs say which module they
belong to (`GateSpec`, `GateNext`, `SwitchSpec`, `kpc`, `lpc`).

Definitions introduced by "Mutation" are deliberately broken variants of the
definition after them; no specification uses them. Each one makes the property
it belongs to (`mutants` in `PROJECT.json`) fail.

## Runs

| Run | States | Shows |
|---|---|---|
| `KillCancelSafety` | 1.2 M | custody of open orders over threads and a crash (`CustodyKept`, `NoSilentRemoval`), nothing submitted under an active switch (`KillRespected`), honest PASS, no second cancel of a confirmed order, REJECTED means never traded |
| `KillCancelLiveness` | 254 k | hold and acceptance follow the kill switch, `process_order` returns |
| `KillSwitchFile` | 248 k | without failing writes an activation sticks and only a deactivation opens, whatever the writers do to their temporary file |
| `ReduceOnlySafety` | 1.5 M | one submission per attempt, one active claim per symbol, retries only behind rejected attempts with nothing filled, exact books, no increase or side flip, finalised rows stay |
| `RiskGateSafety` | 959 k | what is under way is reserved in full (`ReservedInFlight`), losses never let the exposure past the limit by more than one order (`OvershootBounded`), nothing is left over when all is quiet (`DrainedWhenQuiet`) |
| `CandlesSafety` | 104 k | each trade in one candle, candles of a symbol in order, expired windows close while the sweep lives |
| `RegimeSafety` | 7.3 M | a change is confirmed by consecutive candles, risk-off follows the announcements, a chaotic or unknown regime stops trading even if the risk service is behind |
| `AllocationSafety` | 9.9 M | the risk service grants what was last decided, a handled shutdown bars by the allocation alone, cooldowns hold |
| `StopLossSafety` | 72 k | at most one intent per event, honest outcomes, no late trigger, and the refinement of OneShot |
| `SignalSafety` | 1.9 M | pruning changes no decision, signals have their whole lookback behind them, entries keep their distance |
| `CampaignSafety` | 204 k | a COMPLETED campaign is earned, attempts stay within the budget over restarts, evidence is written once |
| `ReduceOnlyLostUpdate` (violated) | | db_writer overwrites a finalised reduction, against its comment that the positions table is the source of truth (`findings`) |

**Bounds.** Two orders are enough for one in hand and one under reconcile; the
message loop handles one at a time. One activation with either initial state of
the switch, one shutdown and one crash give every pair of them in every order;
liveness runs two activations, since the second needs the edge detection to
have been reset. Three callers and four requests let two activations overlap
around a deactivation; five inodes let every open find a free one.
Two risk threads and two executors give every race for a claim and a bind; two
attempts and two keys give a retry and a competing producer. Crashes in
ReduceOnly are not bounded. Three signals of size two against a limit of four
let one be booked, one be under way and one be checked; two seconds let two of
them share a `client_id` or not. Candles' clock passes two whole windows
while two trades arrive, late by up to one window. The regime run has one
symbol and a confirmation of two, with a failed emission and a restart in
between. Allocation needs five regime entries for a stable change, its end
and its return within a cooldown of two. The stop-loss grids are coarse (three
raw units to a step of price, two to a step of ratio), so that every direction
of rounding occurs; the proofs cover all grids. The signal run has four ticks
in four units of time with lookbacks of two and one. Three run keys, two of
them reproduced, and two crashes give a crash before and after each write of an
item and one during recovery.

Every bound is a guard of the action it bounds and named `Max...`;
`MaxAttempts`, `MaxStreak`, `MaxFailures`, `MaxExposure`, `MaxPosition` and
`MaxAge` are parameters of the code. KillCancelSafety runs with
`PositionsKnown = TRUE`, the configuration of the coordinator's tests:
otherwise PASS is unreachable and `PassIsHonest` empty. It runs without ledger
write errors, under which custody does not hold and is not promised; the
liveness run has them. Runs turn deadlock checking off where their bounded
inputs run out.

**Fairness.** KillCancel assumes that each of the three threads keeps running
(weak fairness of its steps): they are loops that the process never suspends,
adapter calls return or raise, and the lock is released on every path. Candles
assumes the same of its two threads, while they live. Nothing is assumed of the
operator, the venue, Redis, the clock or crashes. The other modules state only
safety properties.

## Proofs

`KillCancelProofs` proves, for every set of orders, every adapter
configuration and every bound, from `ConstantsAssumption` alone unless stated:

* `TypeCorrect`: the type invariant. Inductive only with `Held`: a thread that
  is not idle holds an order, `_cancel_one` has a target, and whoever owns the
  lock is in `reconcile`.
* `KillSwitchRespected`: `KillRespected`. Needs `Once` (an order still in the
  inbox, or in hand before its submission, is absent at the venue) and `Calm`
  (between the second read of the kill file and the adapter call there was an
  inactive moment since registration).
* `CustodyOfOpenOrders` and `RecordsNeverLost`, assuming that ledger writes do
  not fail: `CustodyKept` and `NoSilentRemoval`. The invariant `CustodyInv`
  adds `Alone` (only main runs before the ledger is loaded), `Mirrors` (the
  registry is the ledger once loaded, empty before) and `Custody` (orders open
  at the venue and the order in hand from its registration on are recorded or
  closed). `MirrorStep` shows action by action that no step but the booking of
  an end takes a record away, `DutyStep` that no step brings an order to the
  venue unrecorded.
* `ManifestHonest`, `CancelledOnce` and `RejectionFinal`: `PassIsHonest`,
  `NoDuplicateCancel` and `RejectedNeverTraded`, ledger write errors included.
  `HonestInv` (theorem `Honest`) adds `Seen` and `Answered` (a confirmation
  stands for an end at the venue), `Accounted` (an order the reconcile listed is
  still to be handled, ended or counted as residual) and `RejectionTrue` (a
  rejection in hand is of an order not at the venue). They rest on the lemma
  `VenueStep`: but for a crash an end at the venue is final.

The same module proves of KillSwitch, the file that KillCancel polls, for any
number of callers, requests, inodes and contents of the file, from
`KillSwitchAssumption`:

* `SwitchTypeCorrect`: the type invariant.
* `ActivationHolds` and `OpensByDeactivation`: `ActivationSticks` and
  `CleanOnlyDeactivateOpens`. The invariant (theorem `Steady`) needs `Fresh` (an
  INACTIVE temporary file belongs to a deactivation that still runs, whoever
  renames it) and `Achieved` (what an activation has reached by each of its
  steps, by itself or through the writer that took its temporary file away).

`ExposureProofs` proves of ReduceOnly, for any operations, attempts, risk threads,
execution instances, positions and adapter answers, with unbounded crashes and
failing transactions, from `ReduceOnlyAssumption`:

* `TypeCorrect`: the type invariant, with `Busy` (whoever is at work has an
  attempt in hand).
* `ClaimsExclusive` and `FinalisedForGood`: `OneActiveClaim` and
  `FinalisedStays`. Both follow from `RowStep`: a transaction moves at most one
  row, and only by a claim while none is active, a block, a hand-over of an
  unbound claim, or a finalisation.
* `SubmittedOnce`: `AtMostOneSubmission`. Needs `Ownership`: an instance past
  its bind is the only one working on its attempt, the row is bound, nothing was
  submitted before its adapter call, and an attempt once submitted can never be
  bound again.
* `NeverIncreases`: `ReduceOnlyNeverIncreases`, from the lemma
  `ApplyNeverIncreases` about `apply_reduce_only_result` alone and the check
  that the position has not moved since the claim.
* `LineageKept`: `AttemptLineage`. `LineageInv` follows an attempt through the
  thread that decided on it, the wire, the instance and the table, and says of
  each place that the attempts before it are spent (`Lined`); `Fills` says that
  a row that may be retried has nothing filled at the venue. The decision is
  made in one transaction and used in another, which is sound because a
  rejected row never changes again (`BehindStays`).
* `BooksAddUp`: `BooksExact`. `BooksInv` adds `Writer` (db_writer writes what it
  read, and adds the fill exactly, unless the history variables say otherwise).
  Every step is followed through the sum over the attempts (`Unbooked`): a
  submission adds to one attempt what it adds to the holdings, a finalisation
  takes from one attempt what it books.

and of RiskGate, for any symbols, signals, sizes, limits, answers and restarts,
from `RiskGateAssumption`:

* `GateTypeCorrect`: the type invariant.
* `InFlightReserved`: `ReservedInFlight`. `ReservedInv` adds that no two orders
  under way share a `client_id` unless `odd` says so, that the order in hand is
  reserved from `Reserve` on, and that what the listener has released is gone.
* `OvershootIsBounded`: `OvershootBounded`. `Accounted` is the heart: the
  pending exposure, or the value the listener is about to store, covers all that
  is reserved for orders on their way, answered or in hand (`UnderWay`) and all
  fills the listener will never hear of (`Missing`). A lost result moves its
  notional from the first to the second, and its reservation, never released,
  pays for it. `OvershootInv` adds the order that has passed the gate.
* `QuietIsDrained`: `DrainedWhenQuiet`. When nothing went wrong both sides are
  equal (`Balanced`), the signed quantities likewise (`QtyBalanced`), and every
  reservation belongs to something under way (`NoStray`).

The sums are folds, and the library's induction theorems are out of the
provers' reach. The first part of the module therefore states induction with a
set in place of a predicate, from the well-foundedness of the naturals
(`LeastNatural`, `Induction`, `SubsetInduction`), and derives from it that the
recursive function behind `SumFunctionOnSet` exists and is unique (`SumExists`,
`SumUnique`), its equation, how a sum changes with one term, and sums along a
sequence (`Weigh`). It needs the domains of the sums to be finite, hence
`IsFiniteSet(Ops)` in `ReduceOnlyAssumption` and `IsFiniteSet(Symbols)` and
`IsFiniteSet(Sizes)` in `RiskGateAssumption`: operations that were ever begun,
symbols configured, and quantities of a bounded budget.

`StopLossProofs` proves, for any positions, observations, grids, percentages
and stops and any number of crashes, from `StopLossAssumption`:

* `TypeCorrect`: the type invariant.
* `ExactlyOnceAtMost` and `OutcomesHonest`: `AtMostOnce` and `OutcomeHonest`.
  Neither is inductive: `IInv` adds `HandOver`, which says what the record file
  and the sink can be at each step of the consumer (an event about to be handed
  over is recorded as prepared and not delivered, one about to be committed is
  delivered, and nothing is delivered without a record). `Protected` proves `IInv`.
* `RoundingNeverLate`: `NeverLate`. `LongNeverLate` and `ShortNeverLate` are
  the inequalities between the exact stop and the stop rounded in four places,
  from `DivBounds` (what integer division returns) and three lemmas on products.
* `Implements`: the consumer implements `OneShot`. A step that writes the
  record claims, the sink's acceptance hands over, all others stutter.

`CampaignProofs` proves, for any number of run keys, sample, budget, results and
crashes, from `CampaignAssumption`:

* `TypeCorrect`: the type invariant.
* `CompletionEarned`, `BudgetKept` and `EvidenceWrittenOnce`:
  `CompletedEarned`, `AttemptsBounded` and `EvidenceFrozen`. The invariant
  (theorem `Recoverable`) says what the files are at every step of the runner,
  since a crash may follow each: `Counted` (an attempt is counted in the
  envelope before it begins), `InHand`, `Agreement` (a PASS is written once, on
  a final primary result) and `Progress` (the phase never runs ahead of the
  files).

`SignalProofs` proves, for any bars, lookbacks, channel lengths, buffer,
cooldown, lateness of ticks and restarts, from `SignalAssumption`:

* `PruningSafe`, `BreakoutsReal` and `CooldownKept`: `PruningExact`,
  `SignalsJustified` and `EntriesSpaced`. In the invariant (theorem `Sound`) the
  history is a tail of what was handled (`Suffix`), and what was dropped is
  older than every lookback as seen from some tick handled since (`Outdated`) or
  lies behind enough bars (`LongEnough`). Ticks may be late, so the history is
  not sorted, and "as seen from some tick since" is what pruning from the front
  leaves. That the pruning loop stops where it does is shown by the least
  position that is not outdated.

`RegimeProofs` proves, for any symbols, readings, confirmation, warm-up,
heartbeat, staleness, failed emissions and restarts, from `RegimeAssumption`:

* `SwitchesConfirmed`: `SwitchConfirmed`, from `Counting` (a candidate was read
  by the last `count` candles and is not confirmed yet).
* `RiskOffTracks`: `RiskOffFollows`, from `Announced` (the stream of regimes
  ends with what the regime service holds) and `Followed` (the risk service holds
  what it read last).
* `ChaosHalts`: `ChaosStopsTrading`, which relates the clocks of three services:
  candles of a symbol are in order, so are its announcements, which follow the
  candles handled, and a market state that allows trading is no younger than the
  last announcement that forbids it (`MarketOlder`). `Coherent` proves the whole
  invariant.

`CandlesProofs` proves, for any symbols, interval, delay of trades and restarts,
from `CandlesAssumption`:

* `CandlesInOrder`: `StreamOrdered`. `InOrder` puts what is emitted of a symbol
  before what a thread has in hand, that before the open window, and that before
  the window of the trade that ends it; `Ended` says that a window becomes a candle only
  when the clock has passed it, so a trade that is in time opens a later window
  than any candle's. `AlignLater` is the arithmetic of `_align_timestamp`.
* `TradesOnce`: `EveryTradeOnce`. `Kept` says of every number whether it is a
  trade that is somewhere, and nowhere twice; each step moves a trade from one
  kind of place to the next (`WindowToMain`, `WindowToSweep`, `MainToStream`,
  `SweepToStream`) or leaves it.
* Both need `Apart`: as long as the threads have not overlapped, each finds the
  windows as it left them, the expired symbols are distinct and still keys, and
  the size of the dict is the one the sweep began with. `Consistent` proves the
  whole invariant.

`AllocationProofs` proves, for any strategies and order of the rules, regimes,
percentages, times, look-back and restarts, from `AllocationAssumption`:

* `AllocationTypeCorrect`: the type invariant.
* `RiskFollowsDecisions` and `ShutdownBarsByAllocation`: `DecisionsFollowed` and
  `ShutdownBarsTwice`. Both services are compared with the stream between them,
  which outlives each: it ends with what the allocation service computed
  (`Recorded`), and the risk service grants what the part it has read ends with,
  or nothing (`Granted`). `ShutOff` says that a shutdown read since the start is
  computed in.
* `CooldownHolds`: `CooldownRespected`, an action property. `Cooling` says that
  every cooldown decided on is over or still running in the service, and that
  none runs beside an allocation; it needs `InPast`, since an entry handled later
  may carry an earlier time, but none a later one than now.
* They rest on `Emitted`: the loop over the rules emits an entry for each
  strategy that has something to say, and no other (by induction over the rules).

The bounds (`Max...`) are constants like the others: a theorem holds for all
their values. The invariants were checked by TLC on the runs' instances before
they were proved.

Only model-checked: liveness (`AcceptanceResumes`, `HoldComesUp`,
`OrderFinishes`, `ExpiredWindowsClose`), since fairness and ENABLED are out of
the prover's reach. Every other property of the passing runs is a theorem.

## Known deviations

What the models show of the code beside the one finding; the properties above
are stated so that they hold with these behaviours in place, or name the
circumstance they exclude.

* Execution. A resting order submitted after the one reconcile of an activation
  is never cancelled (`kill_cancel.py:875`); the kill event is never cleared, so
  fills long after a deactivation are booked as fills after kill
  (`kill_cancel.py:225`); such a fill never makes a batch FAIL
  (`kill_cancel.py:196`); an `AttributeError` on MEXC's result books a live
  order as REJECTED (`live_executor.py:176`).
* Kill switch. Constructing it over a missing file writes INACTIVE first, so an
  activation opens the switch for a moment (`kill_switch.py:83`).
* Reduce-only. A claim whose order is turned away by a gate stays PREPARED and
  blocks its symbol (`services/execution/service.py:797`).
* Risk. The listener releases a reservation before it books the fill; a signal
  checked in between passes the limit by one order
  (`services/risk/service.py:2790`). `risk_off` is one flag for all symbols.
* Candles. The sweep thread ends at once if it starts before `running` is set,
  and dies on a dict that changes under it; windows then close only by trades.
* Allocation. The early-live cap holds only until the first allocation: the
  performance is checked when the allocation was zero.
* Signal. Warm-up in time needs a tick exactly as old as the lookback, as
  `docs/onboarding/core-eventflows/signal_decision_flow.md` describes.
* Campaign. The lock's token is the fingerprint of the authorization, so a
  second runner is let in (`state.py:187`); a lock created and not yet written
  when the runner dies stays; a crash between the FAILED envelope of a
  reproduction and the BLOCKED phase lets a mismatch be tried again
  (`docs/strategy/CDB_SENSITIVITY_CAMPAIGN_EXECUTION_CONTRACT_V1.md:138`); a
  crash between the SUCCEEDED envelope and the marker needs the operator; the
  failure counters start again on a resume.

## Not modelled

Prices, slippage, profit and loss, floating-point comparison of quantities;
persistence of orders and correlation events; metrics, health endpoints and log
text; evidence manifests beyond their verdict. In the risk service the circuit
breaker's drawdown is computed from a `daily_pnl` that nothing writes, and
`emergency_stop.py` is not called by the service.

Most of the repository's lines are tools, importers, query layers, evidence
harvesters, validation runners and report generators (`tools/mcp`,
`tools/surrealdb`, `tools/evidence_harvester`, `services/validation`). They
transform documents and files in a single pass of a single process and keep no
state that two steps share: there is nothing in them for a state machine to get
wrong, and a model of their text handling would be a transliteration. The map
therefore covers the services on the trading path closely and a small share of
all lines. Components with status `not_modelled` are listed in `PROJECT.json`
with the reason.

## Plan

Composition of KillCancel and ReduceOnly: a resting reduce-only order that
finalisation turns into FAILED drops out of `list_open`.
