# Formal models of deployquant

deployquant (`dqengine`) runs trading strategies in backtests and against live
broker accounts. Bars come in over a stream or REST and are stored and exported;
a worker runs the strategy over them in a sandboxed engine and publishes what it
wants to hold; the executor's sweeps make the account match, behind a write-ahead
journal. The same simulation runs the backtests. This directory holds TLA+ models
of that path from the vendor's candle to the order at the venue, their TLC
instances and TLAPS proofs.

Paths below are relative to the repository (`dqengine/...` is
`src/dqengine/...` in `PROJECT.json`).

## Inventory

| component | state | operations | talks to |
|---|---|---|---|
| Write-ahead journal, `live/journal.py`, table `order_journal` | a row per client order id: state, filled quantity, broker id, note, time | `begin`, `mark_submitted`, `mark_rejected`, `mark_canceled`, `fold_execution`, `mark_folded`, `resolve_stale`, `gates` | called by the sweep around every wire call, and by the executions store |
| Audit sweep, `live/executor.py` (`sync_broker_account`, `reconcile`) | nothing between sweeps but the database, the book and the gather cache | gather, lock, poll, read again, fetch, decide, submit, cancel, resolve | journal, executions, book, adapters |
| Live book, `live/book.py` | positions, open orders, own recent submissions, freeze, last audit | `note_submit`, `note_ack`, `note_fills`, `apply_audit`, `freeze`, `clean` | written by sweeps, polls and submissions; read by the fast pass |
| Fast pass, `handle_intent` in `live/executor.py` | the gather cache | serve gates from the cache, lock, trade from the book, fall back to the sweep | book, journal, adapters |
| Executions, `live/executions.py`, table `executions` | stored fills, a cursor per connection | `poll`, `store`, `attribute`, `recover_earlier_fills` | the venue, the journal, the book |
| Bus and consumers, `live/bus.py`, `live/consumer.py` | streams `intents` and `sync`, consumer groups | publish, read, acknowledge, claim | one thread reads intents, another syncs |
| Worker loop, `live/driver/loop.py`, `tick.py`, `deployment.py` | wake time, feed state, heartbeats, the deployment's row | tick, fold executions, publish an intent and a sync | warm engine, bus, database |
| Warm engine, `live/driver/engine.py`, `runtime/warm.py` | a live simulation and its snapshot | step, rebuild, mark stale | the simulation |
| Execution ledger, `runtime/core/ledger.py` | stored executions not yet taken | `take`, `take_rule_fill` | warm engine |
| Simulation, `runtime/orders.py`, `core/fills.py`, `core/portfolio.py`, `backtester.py` | tickets, pending orders, positions, cash | submit, update, cancel, match against a bar | strategies |
| Scheduling, consolidators, second bars | next fire, partial bar | advance, aggregate | simulation and tick |
| Bar store, `live/feed_runner.py`, `live/history.py`, `live/bar_source.py` | tables `bar_days` and `hist_bars`, coverage, minute and daily files with sidecars | write, refresh, backfill, export | tick, replay |
| Feeds, `feeds/`, Schwab's plugin | a socket, subscriptions, back-off, last frame and bar | connect, subscribe, poll, publish state | bar store, worker loop |
| Adapters and venue plugins | an HTTP session | `submit`, `cancel`, `positions`, `open_orders`, `fills` | the venue |
| Adoption and mode ladder, `live/adopt.py`, `setup.py` | truth mode of a deployment, adopted positions | off, observe, enforce | database |
| Sandbox, `sandbox/`, `runtime/engine_*.py` | registry of sessions, a container or thread each | start, call, stop, kill on timeout | simulation |
| Indicators, `runtime/indicators.py`, `core/indicators.py` | windows and running values | `update`, `update_bar`, `update_symbol`, read | strategies, simulation |
| Frames, status, capabilities, vault, CLI, codegen | recordings, tables, text | | |

Who runs when: one thread consumes `intents` and calls `handle_intent` (a fast
pass, and the full sweep when that did not submit); another consumes `sync` and
runs audits; several worker processes may do the same for one broker connection.
They meet at the connection lock (a thread lock plus a Postgres advisory lock),
in the database and, within a process, in the book and the gather cache. The
venue answers late, once, twice or not at all.

What makes each of them correct:

* feeds and bar store: a reader never finds half a minute's frame, a minute once
  stored stays, nothing unfinished reaches a replay, what is claimed is there,
  and a dead stream is noticed, retried with back-off and made up for over REST;
* engine sessions: a payload comes off an engine that saw every bar; a lost answer
  ends the session; every call ends;
* simulation: no order fills on a bar that ended before it existed, the sleeve is
  the sum of its fills, an order ends once, skipping quiet bars skips nothing;
* indicators: what an algorithm compares with a level reads inside its range, and
  the two implementations of one indicator agree;
* worker and warm engine: the live decisions are those a replay would make, nothing
  is taken back, and the executor is told;
* sweep and fast pass: the orders sent never add up to more than was wanted,
  whatever was read late, and exits the payload wants are resting;
* journal: an order at most once per client id, a row before the wire call, a
  row outstanding as long as its order may trade, fills counted once, no
  `sending` row and no freeze for ever;
* book: when it may be traded from, it agrees with the account.

## Modules

| module | models | composes |
|---|---|---|
| `OrderJournal`, `MCOrderJournal` | the journal, the sweeps that write and read it, the venue, crashes | |
| `OrderJournal_proofs` | theorems about it | `OrderJournal`, `TLAPS` |
| `DirectSubmit`, `MCDirectSubmit` | live book, fast pass, audit, settle window, gather cache | `OrderJournal` by `INSTANCE` (`J!`), for its operators on rows |
| `DirectSubmit_proofs` | theorems about it | `DirectSubmit`, `TLAPS` |
| `AuditSweep`, `MCAuditSweep` | one sweep of `reconcile` from inside, with its venue and payloads | |
| `AuditSweep_proofs` | theorems about it | `AuditSweep`, `TLAPS` |
| `WarmSession`, `MCWarmSession` | worker loop, tick, warm engine, feed and stale marker through one day | |
| `WarmSession_proofs` | theorems about it | `WarmSession`, `TLAPS` |
| `EngineSession`, `MCEngineSession` | engine sessions and the callers that share them | |
| `EngineSession_proofs` | theorems about it | `EngineSession`, `TLAPS` |
| `FeedSession`, `MCFeedSession` | streaming feeds, their runner, the worker's verdict and REST cycle | |
| `FeedSession_proofs` | theorems about it | `FeedSession`, `TLAPS` |
| `BarTables` | rules of the bar tables, as functions of a day's rows | |
| `BarExports`, `MCBarExports` | the writers of the bar tables, backfill, the worker's exports | `BarTables` |
| `BarExports_proofs` | theorems about it | `BarExports`, `TLAPS` |
| `FillRules` | price rules of limit, stop, touch and trailing orders | |
| `SimSession`, `MCSimSession` | order book, sleeve, execution ledger and the event loop of a session | `FillRules` |
| `SimSession_proofs` | theorems about it and about `FillRules` | `SimSession`, `TLAPS` |
| `Rational` | exact fractions | |
| `Indicators`, `SmoothedIndicators`, `CompositeIndicators` | the streaming indicators | `Rational` and one another |
| `DailySeries` | the daily-series implementations of seven of them | `Rational` |
| `IndicatorStream`, `MCIndicatorStream` | how bars, sessions and a second symbol reach registered indicators | `CompositeIndicators`, `DailySeries` |

### OrderJournal

Every gate of the journal is kept per symbol, so the model has one symbol of one
connection, in truth mode `enforce`. `rows` is the journal table, keyed by client
id; the id of a market delta is `market_cid`'s hash of the intent and of the
*epoch* (the number of rows of the symbol today), here the pair itself; the id
of a resting order (an exit or an entry) is the intent and a fresh number. `venue`
is what became of the order: unsent, in flight (its call failed but the request
may still arrive), working, filled or closed, and how much of it traded. `stored`
is the executions table, `sleeve` what the deployment's payload has folded,
`wired` a history variable.

A pass is a program counter and what it has read: `Gather` (gates and payload
before the lock) -> `Acquire` -> `PollAnswered`/`PollUnanswered` (poll, store,
fold into rows, gates read again) -> `FetchAnswered`/`FetchUnanswered` (open
orders) -> `MarketDelta`/`NoDelta` (section 2 of `reconcile`) ->
`RecordSending` (`_journal_before`) -> `Submit` (the wire) ->
`MarkSubmitted`/`MarkRejected` (`_journal_after`; an acknowledgement may come
with or without the broker's id and with any status `journal.py` tells apart,
`rejected` included) -> `PlaceResting`, `Cancel`,
`CancelUnanswered` (sections 3 and 4) -> `ResolveStale`. Inside the close window
the poll comes after the orders (`LatePollAnswered`). `Crash` ends a pass
anywhere. Which delta is wanted is left open: any intent of the symbol may be the
one a sweep computes, so the gates alone have to hold it back.

Client ids are not reused across epochs but may be *computed* again: two sweeps
that read the same epoch compute the same id, and the unique row decides.

Wall-clock ages are three classes, fresh (inside `ACK_DEADLINE_S`, 10 s), suspect,
old (past `ABANDON_S`, 60 s). Two facts about time are guards of `Age`, because the
code relies on them: a request on the wire arrives or is lost within the ack
deadline, and a sweep is short beside a minute.

Four flags describe the setting: `Locked` (the connection lock excludes the other
sweeps; without Postgres it does not), `FillsCarryCid` (the venue's fill rows
name the client id), `AckMayFill`, `CancelSwallowed` (the adapter hides a
refused cancel, as the Alpaca adapter does).

### DirectSubmit

A strategy that changes its mind (`want`), threads of one process, the book, the
cache and the account. Positions are written per order (how much of each order's
fills they contain), so that "counted twice" is visible; the number of shares is
`Net`. Fast passes refuse a book that is not clean, read gates from the cache or
the database, look at the book again under the lock, and trade on it; audits poll,
fetch positions and open orders in two steps, trade on the fetch unless the fast
path owns transmission (then a would-be order is drift, which freezes the book),
and write the fetch into the book (`Audited`, the settle rule of `apply_audit`).
A submission is `Submit` (journal row, `note_submit`, wire) and `Ack`
(`note_ack`, `mark_submitted`).

Clock windows may end at any moment, with one exception: the settle window
`RECENT_S` outlives the gather cache (`GATHER_TTL_S` is the shorter) and the pass
that submitted. `SlowLock` drops the assumption that a fast pass does not wait at
the lock for longer than that. An order fills whole, at once: what a partial fill
does to the *journal* is in `OrderJournal`.

Over-approximations: `SYNC_FLOOR_S`, the pacing of audits, is not modelled, so audits
may come closer together than they do. `regime` is fixed for a behaviour: either a stretch of
the day with refused or unanswered orders, or unanswered reads, near the close or away
from it, with a book that may be lost or stale; each with its bounds on epochs, signals
(orders of the fast path) and restarts. `book.based` is history: whether an audit has
replaced the whole book since its process started. Left out of both modules:
several symbols (allocation between deployments, batches), short positions, prices,
exits and entries of the fast path, `recover_earlier_fills`, the retry timer of the
close window; what a sweep does besides market deltas is `AuditSweep`'s.

### WarmSession

Where the payload comes from that the sweeps obey. One minute-resolution
deployment, one trading day and the next morning. `clock` counts bar ends
(`1..Close`), then `Roll` (close + 60 s), `Morning` (the pre-open window) and
`Tomorrow`. `stored` is the bar store; `zip` what the last export wrote for the
sandbox, `zipFresh` the five seconds in which exports are deduped. `engine` is the
driver's registry entry together with the engine it names (the driver drops the
entry whenever a call fails, so its mirror of the engine is exact): bars held,
`frontier` (`_prev_t`), `primed` (`_primed_through`), how often each scheduled event
`ran`, and the ledger version it was built on. `row` is the payload, reduced to the
scheduled decisions in it and the broker rows it was computed from; a scheduled
decision stands for the fills it leads to, and each batch of broker rows changes
the book.

`Wake` (causes, events, the tick's ledger) -> `Tick` -> `Publish` (flags, intent) ->
`Ack` (deferred export, acknowledgement). `Tick` is one of `MarkerReplay`,
`PostRoll`, `LiveTick` (build if needed, advance, prime, roll, audit), `Declined`
(the unopened-session guard) and `EngineFails`; the last two and the first serve a
replay, which may itself fail and leave the row alone. A tick is one step from the
marker to the commit: what other processes do during it, they do to the store
(bars), the marker and the executions, which a tick reads once. Between its ledger
read and the marker (`Wake` to `Tick`) anything can happen. A sweep sets the marker
(`Ingest`) before it commits (`CommitRows`) or rolls back.

`Refuses` are the symbols with per-bar code or a resting order
(`late_bar_refusal`); the set is fixed for the day. `Prints` says which bars each
symbol prints: thin symbols have gaps, the feed may deliver in any order or never.

Left out: prices, daily and second resolution, cash events, quit, heartbeats, the
supervisor's fleet poll (the comments name a `tick_all` that is not in this
repository), and tomorrow's bars beyond the lone first one.

### AuditSweep

What `OrderJournal` leaves open -- which delta a sweep computes -- is the subject here.
One connection, one sweep at a time, in the order of `reconcile`: `Gather`, `Poll`,
`Refresh` (the gates read again), `Positions` and `Orders` (two calls), the on-close
tickets (`CloseSkips`, `CloseSends`), the release of what no payload wants
(`Releases`), market deltas (`Trade`, `Launches` in waves under the order budget),
exits and entries in turn (`Placing`: fresh, replaced, cancelled and resubmitted, left
resting, suppressed), the late poll, recovery and `Finish`, or `Abort` out of an
exception. `orders` is the venue's order with its journal row; between any two steps
orders fill, ticks fold stored fills and decide anew, and the clock passes the
native cutoff, the minute before the close and the close (`caps`, `ClockTurns`). A
venue is a record of the capabilities its adapter declares; Alpaca, Webull and Schwab
are three values. Only Schwab takes a market-on-close order itself (`Schwab.native`),
so only there does a ticket rest; elsewhere the shares are traded at market a minute
before the close. Schwab's orders carry no client ids, so the rule that freezes a
symbol with a hidden order is inert there. `OrdersTowardTarget` excepts what a sweep
cannot see: a fill after it listed the open orders (`surprised`), at Schwab a fill the
poll has not put in a row (`Untold`), an order whose row a cancel closed though it
trades (`Misfiled`), and a resting on-close order the payload no longer lists
(`Delisted`, the subject of `TicketNetted`). Fills
are whole here (partial ones are `OrderJournal`'s), prices are tenths of a cent.

Left out: allocation between several deployments, the quote-breach exit,
`max_position_notional`, `stop_limit` and `trailing` exits, self-healing of kept
shares.

### EngineSession

`box` is an engine that was launched, with its registry entry: transport, lock,
sequence numbers, last served number, bars held. A caller is a thread in the middle of
`warm_tick_python`: it looks the session up, starts one if there is none
(`StopAsks` .. `Launch` .. `Ready`), takes the lock, sends a numbered request with the bars
it believes are missing, and gets an answer, an error or nothing. The rows are read
before the call, a tick follows every bar, and a read that fails leaves the rows there
were. A lone first bar is left out on both sides (`Shown`), and an engine with nothing
held may decline a tick (`Declines`: nothing to open the day with, or another symbol is
awaited within the grace); the tick is answered all the same and its payload is the
close before. `WholePayload` allows these two payloads, all of the caller's bars or
none, and nothing between. `mode` is the
transport: socket (a container), file (request files polled by the container) or
in process (a thread behind a queue, whose watchdog cancels the future, marks the session
and then the engine in three steps: `Cancelled`, `Marks`, `Voids`). `Serve`,
`BoxDies`, `ServiceRestarts`, `IdleExit` are the other side.

### FeedSession

The feed object, the wire, the runner's turn (`Poll`: store, announce, publish), the
state key with its lifetime, and the worker's cycle with its verdict. Epoch
instants are ages, capped just past the largest timeout they are compared with.
`lost` is the venue going away for good. Both vendors run through the same actions;
their differences are disjuncts (`ConnectRefused` and the token path are Schwab's, the
acknowledged set is Alpaca's). A store that fails drops the frame with a log line and
announces nothing (`StoreFails`). Schwab's answers carry no list of keys: its state
claims what was last asked, and keeps the claim when the request is refused, so
`FeedIsHonest` says less of it than of Alpaca's, whose state claims what the venue
carries.

### BarTables and BarExports

A day's rows are a function from minutes to what the row says (partial, final,
corrected). `flight` holds the two writers between read and commit; `cover` and
`hist` are the coverage ledger and the days behind it; `pass` is an export in
progress (`ExportReads`, then per day `ExportDay` and `ExportSidecar`, then
`ExportDaily`), `exported` the process's memory of it, `side` the sidecars that outlive
it. The vendors differ in one operator: Alpaca's refresh merges, Schwab's replaces a
thinner day. `regime` fixes for a behaviour how many corrections, refreshes and crashes
there are, and how many days back a candle may come late or be restated (`reach`).
`FilesSettle` is claimed while that is less than the days whose daily rows are derived
anew, as in the code (a refresh asks for 5, 10 are derived).

### FillRules and SimSession

`SimSession` is the session loop with every callback as a choice: while `user.acting`,
the algorithm may place, change or cancel orders, quit or return, in whichever
handler it is. Because each book method emits its event last, a callback is simply
the next step, with the rest of the loop in `ses.snap`. `mode` says how the run was
started; the fast path is the step `NextBar` takes when `Upcoming` finds no bar that
`CouldAct`. `book.taken` is which ledger rows were given out, and by whom. Whether a run takes the
fast path and whether it has a ledger are independent, as they are in the code
(`backtester.py:356` does not ask for a ledger, and a live replay has one,
`build.py:55`).

### Indicators

Indicators are functions of a state and a bar in exact rationals; `IndicatorStream`
drives them as `register_indicator` does. Recursive quantities are folds. Square roots
are compared squared (Bollinger, regression channels, correlation). The modules are
long because the library is: each indicator is one definition. What the properties do
not claim of an indicator, or except, their comments name (see also Known limits);
several that nothing is claimed of are there for the ones built on them.

## Runs

| run | question | bounds |
|---|---|---|
| `journal_two_processes` | Two sweeps that overlap (the lock is lost), one crash, one journal write that fails: is a client id sent once, after its row, and do the gates see every live order? | one order of 2 shares (so that it can fill in part), one epoch |
| `journal_recovers` | After a crash, lost answers, swallowed cancels: does every `sending` row resolve and the freeze lift, is nothing overcounted, reopened or called folded early? | a market order and a resting one, one crash |
| `direct_submit` | Fast passes and audits interleaved: do the orders ever add up to more than was wanted, is the book right whenever it may be traded from? | eight regimes. By day: a refused or unanswered order and a second epoch (buy, then sell), with one signal or two, in one thread that has the fast lane; each of the two alone with a second thread. Unanswered reads: near the close, or after a restart, with two threads and one order; with one thread, near the close and over a restart, or over two restarts, and an order after each |
| `audit_sweep` | Inside a sweep: does every market order bring the account nearer to what is wanted, does a clean sweep leave the wanted exits, is a re-levelled stop ever dropped? | one symbol, five payloads (long with a stop raised, bracket, short, resting entry, on-close ticket), three venues with their adapters' capabilities, kept shares; 4 orders, 2 sweeps, 2 decisions, 1 fault |
| `sweep_doubles_on_close` | Is a resting on-close ticket always netted? (at Schwab it is not) | the same, 1 decision, no fault |
| `warm_session` | A day of one worker with one crash, failed call, lost marker or rolled back ingest anywhere: does each scheduled event run once, does per-bar code get its bars in order, does the payload ever go back, is the executor told before the night? | two symbols, one thin and one that refuses late bars, three bars, two scheduled events, one batch of executions |
| `warm_converges` | Are broker rows folded and does the payload settle on the replay of all bars, whatever was lost? | one symbol, two bars, one event |
| `engine_session` | Is a payload ever published off an engine short of a bar, or after a lost answer; is a healthy engine killed by numbers out of order; does every call end? | two callers, two launches, three bars of which the first alone opens nothing, two ticks, one fault; three transports |
| `feed_session` | Are stored frames whole, is the state true, does the worker notice a dead stream in time, does the feed back off and resubscribe, does REST make up for it? | two symbols of which one is needed, two vendors (one starts with the needed symbol, one with both), one minute printed, one fault (a failing store among them) and one change of the set, a venue that may die; timeouts of 0 to 3 ticks, in the order of the code's |
| `bar_exports` | Does an unfinished minute reach a file, is a stored minute dropped, a day covered and not fetched; do the files settle on the table? | two sessions of two minutes, complete after the first, both vendors, three regimes: a candle restated the day after and a crash; a refresh of both days around a late candle and a crash; a refresh of a day that is restated under it |
| `sim_session` | Lookahead, the sleeve against its fills, each order, row and event once, the quiet-bar path | three sessions (one partial), five bar ends of which the first may be missing, two events, the second of them before the last three bars, so that one or two bars are skipped at once; two tickets, one user operation beyond them, nine modes (three mixes of orders on the fast path, moved levels and both legs among them, a fast live replay with a ledger, and five that walk), one broker order in two parts |
| `indicator_stream` | Ranges of the indicators that have one, agreement of the two implementations, consolidation and pairing, stops | every tape of six minute bars in two sessions, two shapes for each minute (rising, falling, engulfing, flat, without volume); period 2 |

Why small instances say something: the gates of the journal and the sweep look at
emptiness, sums and one order at a time, so the hazards need two orders, one fault
and two readers to appear; the bar store's hazards need two writers of one day and
one day after it; a session needs the bar an order is placed on, the one before and
the one after. Every property has a mutated definition in `PROJECT.json` (`mutants`)
that TLC refutes inside the same bounds. `SentOnce`, `WrittenAhead` and
`OutstandingCovered` are claimed only while no journal write has failed, because the
code prints that failure and sends the order.

Where a property has exceptions, its comment names them and "Known limits" below
says what happens there.

Deadlock is checked in `WarmSession` and `IndicatorStream`. The others say
`CHECK_DEADLOCK FALSE`: their bounds on orders, faults, days or ticks let a run stop.

## Fairness

`FairSpec` of `OrderJournal` assumes that sweeps keep taking steps (each tick of a
deployment publishes a sync event, and the sweep's steps are straight-line code),
that the deployment ticks, that a request in flight arrives or is lost, that a
`sending` row ages (strong fairness: age moves between sweeps, and sweeps come and
go) and that an outage of the venue is over in the end (`<>[][~Outage]_vars`): with
a venue that never answers a poll nothing can be resolved, by design. Crashes are
bounded; a process that always crashes resolves nothing.

`WarmSession` assumes that the worker takes its steps and is restarted after
a crash (it is supervised; ticks have timeouts and a watchdog), that time passes,
that an ingest commits in the end and that the next day has bar events. Bars are
under no fairness: a symbol may never print. Nothing is assumed of the dedupe
window or of the sweeps.

`FeedSession` assumes that time passes, that pump and worker take their turns (both
loops block for a second at most), that a feed process that died is started again,
that sessions open, and that a venue which is there sends something on an open
stream (quotes or heartbeats). Bars are under no fairness.

`BarExports` assumes that time passes, that a writer which has read commits, that the
backfill runs and that the worker's ticks export. A candle the stream owes may never
come, and refreshes need not happen.

`EngineSession` assumes that a caller's thread runs (its waits have deadlines), that one
which waits at a session's lock gets it or its deadline (strong fairness of
`Acquire`: the lock is handed from caller to caller), that a box serves, and that an
idle one reaches its idle exit.

`SimSession`, `DirectSubmit`, `AuditSweep` and `IndicatorStream` state no liveness.

## Proofs

`OrderJournal_proofs`, for every set of intents, sides and quantities, number of
sweeps, bound and flag:

* `TypeCorrect`: `Spec => []TypeOK`. A row's `filled` is a natural number only
  because the executions store never holds more than the venue traded (the poll
  folds the difference), so types and counts are proved together
  (`TypesAndCounts`).
* `LedgerNeverOvercounts`: `Spec => []NeverOvercounted`.
* `DuplicateGate`: `Spec => []SentOnce` and `WriteAhead`: `Spec => []WrittenAhead`. Neither
  is inductive. The invariant `IInv` adds that a pass between its journal row and
  its acknowledgement has a client id (`CidKnown`); that, as long as no journal
  write failed, a pass about to call the wire has inserted its row, no other
  pass is there with the same id, and nothing has been sent under it
  (`AtTheWire`). `OtherSteps` reduces the other actions to steps that add no
  sending pass and remove no row (`PresentStays`), so only `RecordSending` and
  `Submit` need an argument. The lock is not used: the proofs hold with `Locked`
  false, which is the point of the journal.

* `Outstanding` and `Covered`: without an adapter that swallows a refused cancel,
  `Spec => []OutstandingCovered`: whatever lock is lost and wherever a sweep dies, an
  order that can still trade is in the set the gates read. What every step may do is
  said once, for a row (`RowEffect`), an order (`VenueEffect`) and a sweep
  (`PassEffect`). The invariant `OutInv` then says what each way out of the open set
  stands on: an order works only until it is filled and only after a wire call
  (`VenueInv`: no fold closes the row of a live order); what a sweep fetched had
  reached the venue (`ListedInv`: no cancel precedes the order); the order being sent
  has a fresh `sending` row and a refused one is not at the venue (`HandInv`); and a
  suspect row's order is not on its way any more, while an old row's order that a
  sweep did not find working does not work (`OldInv`: nothing live is abandoned).
  The lock is not used here either; the two facts about time in `Age` are.
* `Final`: `Spec => FilledIsFinal`, if the lock excludes other sweeps and no journal
  write fails. The holder is the only sweep past the lock (`LockInv`), so the row of
  the order in its hand is still `sending` when the answer is written (`HeldInv`).
  Without the lock an ack can overwrite a fill.

`DirectSubmit_proofs`, for any wants, order sizes, number of threads of either kind and
bounds:

* `Types` (`Spec => []TypeOK`), `Journaled` (`Spec => []JournalKept`) and `FilledStays`, in
  every regime: near the close, with reads or orders unanswered, over restarts. A
  working market order always has an open row, no abandoned one traded, nothing is
  counted before it traded, and no ack, poll or recovery reopens a filled row. The
  invariant `IInv` says what venue, row and stored fills of one order say of one
  another (`Order`), who holds the lock (`Locks`), and what the pass that holds it relies
  on (`InHand`: the order it is acknowledging still has its `sending` row, and a row
  too old to wait for had no fill when this pass polled). `AbandonedNeverTraded` is
  part of it because these orders are market orders, which have traded by the time
  their row is old; for orders that rest it is not so, see Known limits.
* `OrdersFit`: on an ordinary stretch of the day (`Plain`: no close window, every read
  and order answered, the book never lost), and unless a fast pass waits at the lock
  past the settle window, orders of fast passes and audits never add up to more than was
  wanted (`NeverMisorders`). `BookTold`: under the same hypotheses `BookTrusted` holds.
  The other regimes are TLC's (`NeverMisorders` for refused and unanswered orders of a
  single quantity, `BookTrusted` in all of them). Both follow from
  `PlainInv`. For each order it says which of six things the book makes of it
  (`BookKnows`): unknown, on the wire, pending, counted, filled between the two reads
  of an audit and not pending, or that and polled by the next audit, which counts it
  twice until it rebuilds the book. The last two are why the gates matter: an order of
  the fifth kind has an open row, and gates a fast pass may still use name every open
  row unless a later order is in its settle window (`GatesCurrent`); one of the
  sixth freezes the audit through the fold check, since the payload never folded more
  of any order than is stored (`FreshFillFreezes`, which is about sums and not one
  order). `Fetched` relates an audit's two reads to the venue as it moves on, so that
  what it decides by is the account (`FetchedIsAll`, `FetchAddsUp`), and `Sends` says
  that an order about to go out leads to a wanted position and finds a book that knows
  all others, which is what its wire call needs. That a book which knows every order
  adds up (`BookAddsUp`) is about sums over client ids; `NetIs` and the lemmas on
  `Total` carry them to the folds of the model.

`BarExports_proofs`, for every number of sessions and minutes, set of curated days and
bound:

* `Types`: `Spec => []TypeOK`, which includes the derived daily rows and what the two
  writers and the export carry between read and write.

* `StoreHonest`: `Spec => []StoreIsHonest`. `IInv` adds to it what is in flight: a
  vendor's answer has partial rows only at the minute in progress when it was asked
  (`AnswerClean`, which is what cutting by the asking time needs although the clock
  has moved on by the commit), the candle the stream carries and the rows the
  refresh and the export read have none, candles owed are on the vendor's record
  (`LateOnTape`), and what is covered is over (`Covered`: today is never recorded, so
  no candle can still be added to a covered day).
* `MinutesKept`: `Spec => MinutesSurvive`, from the lemmas on `Put` and `Merged` that
  neither drops a minute of the day it starts from.

`EngineSession_proofs`, for every set of callers, transport, tape of bars and bound:

* `Types`, `Whole` (`Spec => []WholePayload`) and `Exact` (`Spec => []AnswersAreExact`):
  the payload a tick commits is of all the bars its caller read or, before the engine
  opened the day, of none, and an answer is that of the request that was sent, once. One invariant
  carries all three. Per engine
  (`Good`): its served numbers do not pass the sent ones (`Numbered`), and a box
  that lost an answer gives no other (`Silenced`: its socket is closed or its engine
  dead). Per caller (`Turn`,
  `Own`, `Launched`): the lock is its own while it is in its turn, the request in
  flight is the one it sent, the engine it is starting is nobody else's. `SessionStep`
  reduces a step of one caller and one engine to those parts, so that each action
  shows only what it does to them.

`FeedSession_proofs`, for every vendor, timeout and bound:

* `Types`, and `Honest` (`Spec => []FeedIsHonest`): whoever an announcement wakes finds
  the minute stored, and Alpaca's state claims what the venue carries (Schwab's, what is
  wanted). `HonestInv`
  adds that what was said is stored (`SpokenIsStored`), that a dead feed has nothing
  left to say (`DeadIsEmpty`), and where the last acknowledgement is on the wire.
* `BackingOff`: after n attempts without a frame the next one comes no sooner than
  2^(n-1) ticks, capped, whatever failed in between.
* `Noticed`: `Spec => []DeadIsSilent`, the worker takes a dead stream for alive for less
  than `LateCap` ticks: the frame timeout, the key's lifetime and the grace of a
  missing key, however deaths follow one another.

`SimSession_proofs`, for any days, bars, events, tickets and broker rows:

* The price rules of `FillRules`, for every bar and price: a limit never fills worse
  than its limit and a stop never better than its stop, both inside the bar
  (`LimitNeverWorse`, `StopNeverBetter`); there is a fill price exactly when the trigger
  of the same side says so (`FillIsBreach`); a touch is no fill (`TouchIsNoFill`); a
  trailing stop moves in the protecting direction only (`RatchetProtects`).

* `Types`, `Lookahead` (`Spec => []NoLookahead`), `Filled` (the filled tickets are the ones
  with a fill, one each), `Once` (`Spec => OnceEach`) and `Quiet` (`Spec => QuietBars`).
  `IInv` says where the loop may stand and what the clock is there (`Shape`, `Where`,
  `Tape`), which events have run by then (`Happened`), when and by whose callback a
  ticket was stamped (`InTime`: one stamped with the end of the bar that is being
  stepped was placed by a callback ahead of the pass that looks), and that the fills
  record the book (`Booked`, `Recorded`). What a book method does is said once
  (`Outcome`: it touches one ticket, and fills it at most once; `Adds`), then what each
  action does to the session, then each part of `IInv` is shown from those.
* `Sleeve` (`Spec => []SleeveIsItsFills`): the position and the cash are the sums over all
  fills. The invariant is a predicate of one book, `Sound`: its tickets carry numbers,
  its fills are of filled tickets, and `qty` and `cash` are `Total`s over them. Each
  method is shown to turn a sound book into a sound one (`StatusSound`, `AdoptSound`,
  `ModelFillSound`, `MarketSound`, `RestingSound`, ...), so the steps of the session
  follow by naming their method. An update may change the quantity of an open ticket
  and not of a filled one, which is why old fills go on counting what they did
  (`FillsKept`). `Total` is a sum of a first-class function, so that what the proof
  needs of sums (`SumUnique`, `TotalSame`, `TotalMore`) is shown by an induction over
  subsets (`SubsetInduction`: a smallest counterexample has none) and carried to the
  library's folds (`RowsTraded`, `RowsPaid`, `SleeveVolumes`, `SleeveCosts`).
* `Quiet` has no hypothesis on the mode: with a ledger on the fast path a broker's fill
  that a skipped bar would have adopted (`Reported`) is excepted, and nothing else.

`WarmSession_proofs`, for any symbols, bars, scheduled events and bounds:

* `Types`, `Matches` (`Spec => []LiveMatchesReplay`), `Forward`
  (`Spec => NeverBackwards`) and `Settled` (`Spec => SettledOvernight`). The heart is
  `Sound`: where the two cursors of a live engine are, that exactly the events they
  passed have run, and that the bars it holds are bars the store knows, delivered in
  the slice of their end if the symbol may not be late. A build, an advance, a prime
  and the end of the session keep it (`BuiltSound`, `AdvanceSound`, `PrimeSound`,
  `EndSound`). The invariant adds what the parts are to one another: an export has only
  stored bars, and the new day starts with a new one (`BarsInv`: what lets the
  audit's replay reproduce the engine's events); an engine was built from no less
  truth than the payload, and a passed audit's payload is still its own
  (`EngineInv`); a tick reads the ledger before it can commit (`TruthInv`: the marker
  alone would not do, since its signal can be lost and comes before the commit); once
  the roll was given, what a later tick commits is told before the worker idles
  (`SettleInv`). The ways a tick can go share one effect (`TickEffect`), so that the
  action properties are shown once.

`AuditSweep_proofs`, for any symbols, payloads, venues, rails and bounds:

* `Types`: `Spec => []TypeOK`. `DbInv` types the account, the payloads and the orders with
  their rows, `SweepOK` what a sweep carries from its reads to its last order. Both
  speak of sums and folds over the day's orders, which are typed by an induction over
  finite sets (`FoldTyped`, `FoldExists`: a smallest counterexample has none).
* `PutBack`: `Spec => NeverStripped`. `CutInv` says where the pairs stand: before the
  placing sections nothing is cancelled in order to be sent again; in them and after,
  each such order is put back, turned down, overtaken by a fill, out of budget, or
  the one pair in hand (`Underway`), whose second half is what the sweep does next,
  since a pair is only started with the gateway up and only its own answer can trip it;
  and a sweep that stops short has raised. `Stand` is what all other steps leave alone:
  the orders this sweep did not find resting. The budget is the one exception left
  (`PairsStayWhole`, see Known limits).

Assumptions: those of the modules (`IntentsAssumption`, `BoundsAssumption`,
`FlagsAssumption`, `ExportAssumption`, `SessionAssumption`, `FeedAssumption`,
`WarmAssumption`, `SweepBounds`, of `DirectSubmit` `WantsAssumption`,
`LimitsAssumption`, `LanesAssumption`, `WindowsAssumption`, `RegimesAssumption`, and of
`SimSession` `ModesAssumption`, `EndsAssumption`, `OrdersAssumption`,
`TimesAssumption`, `DataAssumption`, `LedgerAssumption`), which TLC
evaluates in each run, and the hypotheses named in a theorem's `ASSUME`.

Only model-checked: all liveness (`GatesLift`, `Settles`, `FilesSettle`, `Quiesces`,
`Reconnects`, `SilenceIsServed`: fairness is out of the prover's reach);
`MarkedIsFolded`, the other half of `LedgerStands` (two sums that agree by accident
satisfy the code's test, see Known limits, so it is a fact about the bounded
instance); `AuditSweep`'s `CleanSweepArms` and `OrdersTowardTarget` (facts about the payloads
that are published: two exits of one kind, say, share one resting order);
`DirectSubmit`'s `NeverMisorders` for unanswered orders of a single quantity and its
`BookTrusted` outside ordinary stretches of the day (a book that was lost, or an audit
that got half an answer, has more ways to be wrong than `PlainInv` lists); and all of
`IndicatorStream`: the indicators' values are recursive over a tape of any length.

## Finding

`sweep_doubles_on_close`: at a venue that takes market-on-close orders itself (of the
three, Schwab: `adapter.py:96-104`, `146-151` of its plugin), between the native
cutoff (12 minutes before the close)
and the close the payload no longer lists an on-close ticket that rests at the venue.
A minute before the close its shares are in `holdings` all the same -- meant for an
order that never went out -- so the sweep, whose netting looks at listed tickets
only (`executor.py:2163`; the pending orders it counts later are those of type `market`,
`executor.py:2487`), trades them at market while the ticket trades them too.

## Known limits

Cases the models reach and the properties except, or that reading the code for the
models turned up. They are not among the runs. Some have a property of their own in a
module, stated and not claimed (named in parentheses).

Orders:

* `resolve_stale` combines a poll with a later open-orders fetch; an order that fills
  in between is abandoned although it traded (`journal.py:206`; `AbandonedNeverTraded`).
  A later fill can then make the two sides' totals agree by accident.
* A resting order filled in part keeps the folded and the filled totals apart: the
  symbol's market deltas stay frozen for the day (`executor.py:1509`). So does an
  Alpaca fill, which carries no client order id (`executor.py:1473`), an entry's fill,
  which is folded and not summed, and a quote-breach exit, which has no journal row.
* In the close window the poll runs after the audit rebuilt the book and adds fills
  to positions that contain them (`executor.py:3759`; `CountedOnce`).
* The first audit after a restart that submits an order drops the fetched position of
  its symbol, because the settle rule trusts a book that never had one; the fast
  pass buys it again (`book.py:171`; `NeverMisorders` with restarts). The run reaches
  this; `BookTrusted` excepts the book until an audit outside the settle window has
  replaced it (`based`).
* An open order counts with the quantity ordered, not the quantity left
  (`alpaca.py:111`): a partly filled market order makes the delta wrong by what has
  filled. Partial fills inside a sweep are not modelled.
* With `SlowLock` (a wait at the lock longer than the settle window) `NeverMisorders`
  fails; nothing in the code bounds the wait.
* An audit that polls and then gets no answer to its fetch leaves the fill it polled
  added to a position that an earlier audit had fetched with it; a fast pass then sells
  too much, until the next audit (`executions.py:377`; `NeverMisorders` with `silent`).
* After an unanswered order, a fast pass that gathered before it is held back by the
  client id alone, which names the quantity: if the strategy changed its mind in
  between, it sends another quantity (`NeverMisorders` with faults and `MaxQty` > 1).
* A cancel and its resubmission can be separated by the order budget
  (`PairsStayWhole` with a budget of 1). A cancel whose refusal the adapter hides closes the row of an
  order that traded (`CanceledIsGone`). A Webull acknowledgement without a broker id
  leaves a row that a pair's cancel never closes.
* A market sell toward a smaller position is refused while a larger stop rests; a
  quote-breach exit in the middle of a sweep is bought back by its market delta.

Worker:

* A tick that consumes the stale marker replays the last export, up to five seconds
  old, and can take back a scheduled decision for one tick (`engine.py:1180`;
  `Rederives`).
* At the roll a day that never opened counts as completed; if the audit's replay then
  fails, yesterday's snapshot is published.
* A roll tick whose audit could not run is not retried without an event
  (`loop.py:437`): the payload of before the roll stays overnight. `Settles` and
  `SettledOvernight` do not tell.

Engine sessions: over files a session stays usable after a timeout; two starts at
once orphan a container until its idle exit (in process: a thread, for good);
`session_stop` numbers its request without the lock; one caller's failed start stops
whichever engine the registry names by then.

Bars: the stream and a refresh that overlap lose the older reader's candle; Schwab's
refresh stores the minute in progress and, the day then having as many rows, never
replaces it; two workers on one data root can leave a stale zip its sidecar vouches
for; the span between the first and the last curated day counts as covered whatever
is missing inside; daily rows older than `DERIVE_RECOMPUTE_DAYS` keep what they
said, so that bound has to exceed the reach of late candles, as it does; a day for which
the vendor answers nothing is recorded as covered, and not asked for again if it has the
day later (not reached in the model).

Feeds: the worker prints "feed back" when a session ends with the stream still dead
(`BackMeansFrames`), and calls a feed silent at the open for want of a bar that could
not have come yet (`OpenIsNotSilent`); a subscription Schwab refuses leaves its
claim standing and a symbol that is never reported (`feed.py:382-387`, `549` of its
plugin; `FeedIsHonest` asks only that it claims the wanted set); minutes lost in a drop shorter than the frame timeout are
not fetched again.

Simulation: late bars that land behind a prime, and orders placed by the events of a
market-on-open fill, can meet a bar that ended first (`BarsFillTheLiving`). On a daily
run an on-close order placed by the event of a fill at the close is filled at that very
close, where the comment (`backtester.py:728`) sends it to the next session's
(`PlacedAhead` in `NoLookahead`). The quiet-bar path does not ask for a ledger
(`backtester.py:356`), and a live replay has one (`build.py:55`): a skipped bar then puts
off the adoption of a broker's row to the next bar that is visited, where
`fastpath.py:14` says a miss is impossible and `ledger.py:144-147` that a replay applies
the fill at the bar a live step did (`Reported` in `QuietBars`). Stop-limit
and touched orders trigger in pass 1 and fill on the same bar in pass 2; withdrawal
sales are not placed on fast-path sessions; a pumped partial fill closes its ticket.
In the indicators, `BalanceOfPower` can leave -1 .. 1 on a gap; the double and triple
exponential averages call themselves ready with their first stage and average in the
warm-up zeros of the later ones (`indicators.py:28`, `441-473`); `RateOfChange` calls
itself ready one sample before `cum_return` does (`indicators.py:311-324`,
`core/indicators.py:232-236`); and a daily pair fed by
a market-on-close takes the session's close once more (`DailyPairsOncePerSession`,
`SpanHonoured`).

## Not modelled

* The bus, its consumers and their pacing; adoption and the mode ladder; the
  allocation of one account between several deployments; attribution of fills to
  deployments, recovery of earlier days and the poll cursor. These are within reach
  and would come next, in this order.
* One-shot runs of the sandbox and its container limits; second-resolution bars; the
  calendar rules behind scheduled times; price adjustment.
* Wire formats, HTTP, tokens, cryptography, code generation, frames and status,
  command-line handling: they keep no state the order path decides on.
* Indicators on logarithms, exponentials and trigonometry, or whose exact values
  outgrow the integers (T3, McGinley, Hurst, ValueAtRisk, ALMA, FRAMA, Augen,
  Rogers-Satchell, LogReturn), and floating-point rounding everywhere.
