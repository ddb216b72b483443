# FOMO Control Engine: a TLA+ verification project

This directory holds TLA+ specifications of the parts of the engine whose
correctness is a matter of order, failure and concurrency, the TLC
configurations that check them, and TLAPS proofs about them.  All paths below
are relative to `src/`.

    tlc -config LifecycleAlerts_faults.cfg MCLifecycleAlerts.tla   # one run
    tlapm LifecycleAlertsProofs.tla                                # one proof module

`PROJECT.json` lists the runs, the code lines each definition stands for
("map"), for each checked property a mutant of the model that breaks it, the
hazards of the code, the findings and the theorems.

## 1. The system

A trader's positions live on an exchange (Bitget).  The engine reads them, keeps
a ledger of its own, analyses the market around them, trades on paper, and sends
Telegram alerts.  The actors share one SQLite file:

* the **worker** (`backend/app/worker/manager.py`): one process, one asyncio
  event loop, an APScheduler job per task; blocking handlers run in threads;
* the **API** (`backend/app/api`, `backend/app/main.py`): every request of the
  dashboard runs a handler in a thread, any time, several at once;
* the **shell scripts** of `scripts/local`, which restart the worker.

### Components

| Component | State it keeps | Operations | Correct when |
|---|---|---|---|
| **Lifecycle alert pipeline** - `manager.deliver_alerts`, `AlertEngine.evaluate_lifecycle`, `positions_owing_*_alert` | queues `_pending_created/_closed` and the running batch (memory); rule states (memory and `notification_state.json`); alert ledger (SQLite) | sync, queue, drain, collect debts, evaluate, fire, send, record, requeue | each opening and each close is told once: never lost, never twice |
| **Position ledger** - `http_handlers._sync_bitget_positions`, `_record_exit`, `_live_position_payload` | tables `positions`, `trades` | sync, count an absence, record an exit (automatic or by hand), write a row back | one live row per position on the exchange, one trade per exit, exits only after consecutive absences, ghosts closed in the end |
| **Redelivery and pulse** - `_fire_if_allowed`, `maybe_send_pulse` | `pending_redelivery`, in memory and in the state file | append and trim, merge, clear, save, reload | an alert Telegram refused is on the list until a pulse has told of it |
| **Job scheduler** - `_schedule_job`, `_run_job`, `_run_hook`, `_bounded_thread` | a trigger, a lock, a failure count and an interval per job; two thread pools | tick, hook, fill, time out, back off, restore, revive | every job runs again; a hung thread harms its own pool only; backoff goes when failure goes |
| Worker liveness, heartbeat, hang probe | heartbeat table | judge, report, revive | not modelled, except revival |
| Local supervisor, dead man's switch | pid and stamp files | restart, stop, alarm | not modelled |
| SQLite write lock (`db/sqlite_utils.py`) | a process-wide lock | take at the first write, release at commit, time out | planned |
| Whale collection and batches | event list, follow signals | collect, batch, send, fill | planned |
| **Paper trading of stocks** - `stock_paper/service.py`, `store.py`, `broker.py` | orders, fills, positions, lane positions, exit plans | resubmit, exit, enter (two lanes), place, fill, follow up | the position is what the fills say, a lane keeps to its target, exits are not lost |
| **Paper trading of prediction markets** - `poly_paper/service.py`, `store.py` | estimates, resolutions, scores, positions | list, settle, observe, order | a bet is paid once and always within reach of a settlement |
| **Crypto paper engine** - `paper/service.py` | paper trades, engine states, gate funnel | scan, exit, enter, save state, fill validation slots | a trade is not judged by prices older than its entry |
| **Entry intents** (part of the scout) - `scout/monitor.py`, `services/scout_handlers.py` | intents, judgments, scores | register, cancel, judge, score, announce | a trigger is announced; a cancellation stays |
| **Trade flow** (part of the Bitget access) - `exchange/bitget/provider.py`, `trade_cache.py` | fills and fetch states (SQLite), a lock per key | look, wait, look again, fetch, store, prune | callers share one fetch; what is called complete is complete |
| **Toss access token** - `toss/client.py` | token cache and lock of an event loop | use, refresh, retry | a rejected token costs one new token, not one a request |
| The rest of the exchange access | caches | fetch, parse | not modelled: I/O |
| The rest of the scout, setup monitor | candidate lists, tracked setups | scan, track, expire | not modelled |
| Telegram bot, condition alerts | mute flag, rule states | commands, rules | mute only |
| Analysis, scoring, validation, review | none | functions of market data | not modelled: numerical, no protocol |
| API and dashboard, language-model agents | none of their own | call handlers | their calls and delays are steps of the ledger module |

### How they interact

    exchange --listing--> sync handler --rows, trades--> SQLite <-- browser's sync, exits, memos
                              | result of the worker's own sync only
                              v
                    _pending_created / _pending_closed
                              | drain                      SQLite (rows without a record)
                              v                                  | debts, at most 5 a cycle
                     deliver_alerts  <---------------------------+
                              | _fire_if_allowed: rule state, send, record
                  delivered   v        refused
        Telegram <----- send_to_all ----------> pending_redelivery --> next pulse --> Telegram

    APScheduler --tick--> _run_job --lock, budget--> event loop or a thread of one of two pools
    deliver_alerts --_run_hook--> eight hooks in turn, one of them the pulse

The paper engines, the scout and the caches meet these only through the scheduler,
and each other not at all:

* Each paper engine is a job of the worker *and* has a `POST /run`, which starts a run
  of its own whatever the job is doing.  The request of the stock engine brings no
  market payload: it finds every session closed and has no candidates.
* The scout scan is a job whose thread goes on when its budget is over; users
  register and cancel intents in requests while it runs.
* The trade flow is asked for by the threads of every analysis, each with an event
  loop of its own (`asyncio.run`); they meet in a process-wide table of locks.
* The Toss client keeps its token and lock per event loop, shared by the requests
  gathered on it.

### What is hard here

* **Read, wait, write.**  A handler reads a row, asks the exchange or a language
  model for minutes and writes the *whole* row back.  No transaction spans this.
* **Set, await, record.**  An alert's rule state is set before its send is
  awaited; everything that accounts for it is written after.  A budget may cut
  the await.
* **Two sources for one alert.**  The queue (memory) and the debts (SQLite) both
  name the same opening or close and must be told apart or merged.
* **Shared lists across awaits.**  Jobs are coroutines of one loop and share
  `NotificationState`.
* **Threads cannot be stopped.**  A run that is given up frees its lock, and its
  thread keeps the pool's slot.
* **Restarts** lose the queues and, in part, the rule states.
* **Chains of transactions.**  Order, fill and what follows from it; resolution, score
  and payout; chunks of fills and the row that calls them complete: each link commits
  alone, and what a later run takes up again is decided by one of the links.
* **Two paths to one effect.**  An order filled when it is placed and one filled from
  the queue do different things afterwards.

`PROJECT.json` lists the hazards line by line with the properties that cover them.

## 2. The modules

| Module | Models | Extends / instantiates |
|---|---|---|
| `OpenDebt` | what entry alerts promise: a debt incurred once, settled once | |
| `LifecycleAlerts` | the alert pipeline | instantiates `OpenDebt` |
| `PositionLedger` | the ledger and all its writers | |
| `PulseRedelivery` | the redelivery list and the pulse | |
| `JobRunner` | the scheduler | |
| `StockPaper` | a run of the stock paper engine and its account | |
| `PolyPaper` | runs on the prediction-market account | |
| `CryptoPaper` | runs of the crypto paper engine, the bootstrap included | |
| `EntryIntents` | intents between users and scout scans | |
| `TradeFlow` | the cached trade flow of one key and its callers | |
| `TossToken` | the token of one event loop and its requests | |
| `MCLifecycleAlerts`, `MCPositionLedger`, `MCPulseRedelivery`, `MCJobRunner` | instances of the first four for TLC | extends the component |
| `MCEngines` | the other six side by side: one of them runs, chosen by `part` at the start | extends the six |
| `LifecycleAlertsProofs`, `PulseRedeliveryProofs`, `JobRunnerProofs`, `PositionLedgerProofs`, `EntryIntentsProofs`, `StockPaperProofs` | theorems about one component | extends the component and `TLAPS` |
| `PaperProofs`, `CacheProofs` | theorems about `PolyPaper` and `CryptoPaper`, `TradeFlow` and `TossToken` | extends both components and `TLAPS` |

`LifecycleAlerts` abstracts `PositionLedger` to "a row opens, a row closes, by the
worker or by somebody else", and `PulseRedelivery` to "a refused alert is on the
list".  `PulseRedelivery` in turn sees of the pipeline only that its hooks run one
by one.  `JobRunner` is where the cuts come from that the other modules take as
possible at every await.

Definitions named "Mutant" in a comment are not part of any specification: each
is a wrong version of the definition that follows it, kept to show that a
property would notice.

### LifecycleAlerts

* `status`, `recent` - rows of the ledger and whether their dates are inside the
  backfill window (`alert_open_backfill_hours`); `records` - the alert ledger, per
  rule key.
* A rule key is `AlertCandidate.state_key`: the position and the identity chosen
  by `created_candidate` (`opened_at`) or `closed_candidate` (`trade.id`, or
  `closed_at` if the event has no trade).
* `WorkerOpens/Closes` and `OthersOpen/Closes` are the same handler called by the
  worker's sync and by anybody else; only the worker's result (`sync`) reaches
  `SyncReturns`, which is `_queue_lifecycle`.
* `Drain`, `CollectOpen`, `CollectClose`, `Evaluate`, `FireDropped`, `FireStarts`,
  `Transmit`, `Record`, `EvaluateEnds` are `deliver_alerts` from await to await.
  `HookCut` is the budget of the hook or an exception (the batch is requeued),
  `JobCut` the budget of the whole job (it is not).
* `Restart` loses memory; with `"evict"` it may lose any rule state too
  (`_retained_rule_states`, an unreadable file).
* Left out: the other hooks' alerts, the text, the order of a queue.  Which
  entries an overflow deletes is therefore any choice (the code: the oldest),
  and which debts are the first five is any choice (the code: the newest rows).

### PositionLedger

* `held` is the exchange; `rows` and `trades` are the tables; `caller` is what
  each thread is doing and the copies it holds; `unseen` is a history variable.
* One action is one access to the database and the memory it changes.  The sync
  is `SyncFetch` (listing), `SyncRead` (the existing rows), `MergeListed` for each
  listed position, `Miss...` for each live row the listing lacks, then `SyncEnds`
  and the analysis of the open rows (`ViewWrites`), which writes them back.
* `_record_exit` is `ExitReads` (the guard), `ExitCloses` (the row is written),
  `TradeAdded`; `ReportFails` and `ExitRefused` are its error paths.  Called by the
  sync, a failure goes on to `ExitFailed` and `CounterSaved`.
* With `Serial = TRUE` a handler starts only when no other runs.  The code does not
  enforce that; it is the case of a worker without a browser, and it separates what
  the logic guarantees from what interleaving takes away.

### PulseRedelivery

`pending` is the list, `saved` the file; `fired` and `sending` are the rule states
and the sends under way; `pulse` and `merged` are `maybe_send_pulse`.  `Others` are
the alerts fired by other jobs of the loop, which may be sent during a pulse.
The pulse counts all entries and names five of them (`pulse_candidate`); the
model counts an entry as told when its pulse was delivered.

### JobRunner

`trigger`, `interval` (in base intervals), `failures`, `holder` (who has the job's
lock: a tick, a hook, a fill), `work` (none, queued, in a thread) and `abandoned`
(threads nobody awaits).  `Reschedule` is `_schedule_job`, which replaces the
trigger; `Revived` is `_revive_paused_jobs`.  Time is abstracted: a tick may come
and a budget may end at any moment.  `Pause` is external: the current code does not
pause a job, an earlier version did, and the reviver is written against it.

### StockPaper

* `orders` is `stock_paper_orders` in the order of creation, `shares` the quantities of
  `stock_paper_positions`, `laneShares` those of `stock_paper_mode_positions`, `excluded`
  the symbols whose coverage row there is marked `excluded_from_stats`, `exitPlan`
  the plan of a position and the levels it has taken.  `engineRun` is what a run is
  doing and the copies it works from.
* A run is `BeginRun` (reads the waiting orders), `Resubmit`, `ListPositions`, `ExitRow`,
  `EnterStrict`, `EnterCoverage`, with `EndPhase` between; `Place` is `PaperBroker.place`,
  which saves the order; `SaveFill` is `save_fill`; `Follow` is `set_exit_plan` or
  `record_realized_level`.  These are three transactions, and `StockCrash` may come
  between them.
* `VoidOrphan` is `mark_excluded_from_stats`, called by the operator's script
  (`scripts/void_orphan_stock_positions.py`; migration 0033 made the same marks once)
  for positions that are held without a stop.  A marked position no longer counts for
  its lane (`CoverageHeld`, the query of `mode_position_count`).
* Which exits are due, how much a level below the last sells (`SaleQuantities`; the shares
  of the ladder are settings), which candidates pass and how the market answers is free; a
  fill whose invariant breaks stops the track and ends the run (third branch of
  `Place`).

### PolyPaper

* `estimates`, `resolutions`, `scores` and `bets` are the tables, `final` is Polymarket.
* A run is `PolyBegin` (listing), `DueMarkets` (`unresolved_market_ids`), for each of these
  `SkipMarket` or `SettleMarket`, `WriteResolution`, `AddScore`, `ReadPosition`, `PayOut`
  (`settle_market`, `_settle_position`), then `SaveEstimate`, `NoCapacity` or
  `SaveExecution` for the listed markets.  `PolyDies` ends it between two of these.

### CryptoPaper

* `paperTrades`, `lastBar` and `funnel` are `paper_trades`, `paper_engine_states` and
  `paper_gate_funnel`; `bar` is the last confirmed bar.
* A scan is `LoadCoin`, then `JudgeExit` (or `HaltTrack`) or `JudgeEntry` and `OpenPaper`,
  then `SaveState`; `CoinFails` is the `except` around one symbol.  `BeginSeeding`,
  `SeekSeed`, `OpenSeed` are the bootstrap of the validation slots.  `ClearHalt` is done
  by hand.

### EntryIntents

* `intents` are the rows by id; a zone gets a new id at each registration, a watch has
  the id of its symbol and timeframe and may be registered again.
* `Admit` and `Register` are `create_entry_intent` on both sides of its simulation;
  `ReadToCancel` and `Cancel` are `cancel_entry_intent`.  `BeginScan`, `JudgeIntent`,
  `RecordTrigger` are `evaluate_entry_intents`, `Score`, `ScoreIntent`, `ScoringRaises` are
  `score_entry_intents`, `SendAlerts` is the worker that gets the scan's result.
* `ScanTimesOut` leaves the thread running unheard, `ScanDies` is the end of the process.

### TradeFlow

* `rows` and `covered` are `bitget_trade_fills` and the fetch state, in hours of a fixed
  span; `flowLock` is the key's lock; `from` is where a caller's window begins and `got`
  what it has fetched and not yet stored.
* `AskFlow`, `AcquireFlow`, `FilledMeanwhile` or `BeginFetch`, `FetchAnswers`, `StoreChunk`,
  `StoreState` are `get_trade_flow` from lock to release; `FlowFails` is its `finally`.
  `FetchBlindly` is a cache that cannot be read at the second look.  `PruneFills` is the
  retention of the database, `FlowExpires` the TTL.

### TossToken

* `cached` and `tokenLock` are the shared token and its lock, `issued` and `revoked` what
  Toss knows.  `TakeCached`, `LockToken`, `ReuseToken`, `IssueToken`, `TokenIssued`,
  `IssueFails` are `_access_token`; `Answered`, `Throttled` (a 429) and `Rejected` (a 401,
  the second of which stops the collection) are `_request`; `NextRequest` is the caller's
  next call.
* A disturbance is anything that makes a new token necessary: Toss revokes it, the cache
  gives it up, it runs out, or the answer that carried it was lost.

## 3. What is checked

| Run | Question | Instance | Result |
|---|---|---|---|
| `lifecycle_faults` | message and record at most once, batch kept, refinement of `OpenDebt` | 1 position, queue 1, all cuts and troubles, 1 restart, 2 faults | holds |
| `lifecycle_debts` | nothing suppressed without account, debts paid | 2 positions for 1 queue slot and 1 debt a cycle; cuts outside sends | holds |
| `lifecycle_close_twice` | a close is announced once | 1 position, no faults | **violated** |
| `lifecycle_cut_send` | a suppressed alert was sent or is recorded | 1 position, one cut of a send | **violated** |
| `ledger_serial` | one row, one trade, consecutive absences, ghosts, tracking | 2 keys, 1 caller at a time, deaths at long waits, 6 rows, 6 events | holds |
| `ledger_races` | closed rows have trades, ghosts close | 1 key, worker and browser interleaved freely, 4 rows, 4 events | holds |
| `ledger_stale_count` | consecutive absences with a browser | 1 key, 2 rows, 4 events | **violated** |
| `pulse_alone` | failed alerts stay listed and saved, and arrive | 3 alerts, list of 2, 1 restart | holds |
| `pulse_shared` | the same with another job's alerts | 2 alerts, one of another job | **violated** |
| `jobs` | backoff, no silent job, pool isolation, revival | 3 jobs, one per pool and kind, 1 slot a pool, threshold 2, 1 lost trigger | holds |
| `jobs_fill` | no job falls silent, fills included | 2 jobs | **violated** |
| `engines_apart` | the six independent parts: ledgers that agree, lanes, plans, payouts, entry bars, triggers, shared fetches, holes, tokens | see below | holds |

`engines_apart` is one run for six parts that share no state: `part` is chosen at the
start, the other parts stay at their initial state, and the states of the run are the
sum, not the product, of the six.  Their instances are: stocks with 2 symbols, 3
orders, entries of 2 shares in a ladder of 2 levels, `max_open_positions` 1 (so that
two symbols reach the limit and pass it), both values of
`stock_paper_hold_queued_orders`; prediction markets with the job and a request, 1
market, 3 estimates; crypto with 2 symbols, 1 open trade, 2 validation slots, 2 bars, 2
trades; intents with 2 scan threads, 1 user's request, 1 zone, 1 watch; the trade flow
with 2 callers and 3 hours; the token with 3 requests and 2 disturbances.

### Bounds, and why they are enough

* *Positions, keys.*  The pipeline treats positions alike and lets them meet in
  two places only, a full queue and the limit of debts a cycle.  `lifecycle_debts`
  has two positions for one place in each.  Everything else about a position
  concerns one position; `lifecycle_faults` has one and all troubles.  The safety
  results of that run are proved for any set (section 5).  Rows of two
  keys never meet in the ledger except as "rest" of the same sync; `ledger_serial`
  has two, so that one may fail while another waits.
* *Faults, restarts.*  Two faults, one of them a restart, give a cut followed by a
  restart and a restart followed by a cut.  The message count of
  `SentOncePerLife` is stated relative to `restarts`.
* *`MaxEvents`* bounds what users, browsers and failures do, never what the worker
  does: its complete syncs are free, so liveness is not an effect of the bound.
  With six events a position can appear, be missed, fail to be exited, reappear
  and go again.
* *`MaxRows`* is above the number of rows the events can create in `ledger_serial`
  and `ledger_races` (each new row takes an appearance, a manual exit of a held
  position or a browser's sync, and each of these is an event).  In `ledger_stale_count` two rows are enough for the counterexample.
* *`ConfirmTicks = 2`* is the default of `alert_closure_confirm_ticks`.  Miss counts
  and `unseen` saturate there, `failures` at `Threshold`: nothing compares them
  with more.
* *Lists.*  A queue of one and a redelivery list of two overflow.
* *Slots.*  One thread a pool is the worst case: one hang takes the pool.
* *Paper engines.*  `StockRuns = {job}`: the request's runs see a closed session and no
  candidates, all they can do is queue or cancel waiting orders again.  They do write
  stale copies of orders over newer ones, and so does the thread of a run that was given
  up when its budget was spent and goes on beside the next.  With such an overlap
  `StockLedgerAgrees` would fail, and what the run checks of stocks is stated for runs
  that do not overlap.  Three orders are an entry and two
  sales of a level, or an entry, its exit and another entry.  `PaperRuns = {job}` as well: two runs of the crypto
  engine are beyond the time of a run, and the one behaviour that needs them, a
  bootstrap trade overwritten because its id is taken, is therefore not reached;
  `EntryBarSpared` promises nothing of an overlap.  `PolyPaper` has both the job and the request.
* *Intents.*  One zone and one watch: they meet in the alerts of one scan and in the
  scoring at its end.  Two scans are a thread given up and the one after it.
* *Hours, callers, requests.*  Callers of one key are alike; three hours let each of
  several fetches reach back further than the last.  Three requests and two disturbances
  let a request hold a token that is two tokens old.  The theorems of section 5 hold for
  any number of each.

`CHECK_DEADLOCK` is on in all runs: `deliver_alerts`, syncs, pulses and ticks can
always take a step.

### Fairness

* `LifecycleAlerts`: weak fairness of the steps of `deliver_alerts`.  The job is
  scheduled at an interval forever (`JobRunner` shows that it runs again) and
  each await has an HTTP timeout or a budget.  Nothing is assumed of users, syncs
  or the environment; in particular nothing says a sync ever comes.
* `PositionLedger`: a handler that was called goes on (weak fairness of `Step`),
  and the worker calls its sync again.  Nothing is assumed of browsers, of
  complete listings or of a report ever succeeding: those are events, which run out.
* `PulseRedelivery`: sends end one way or another (weak), a mute ends (weak), and
  strongly: pulses are due again and again, get past composing, and Telegram takes
  some of them.  Strong fairness is needed because a mute, a cut or a refusal
  interrupts; without it Telegram may be down forever and nothing can arrive.
* `JobRunner`: ticks come again and again, some of them while no hook has the lock
  (strong, as a hook may take the lock at every other moment); a budget is spent in
  the end (weak).  Threads of the default pool return and begin work they have a
  slot for.  Of threads of heavy jobs nothing is assumed: they may hang forever.

* `engines_apart`: none.  All its properties are invariants and action properties.

### Properties worth a word

* `OpenSettledOnce`, `SentOncePerLife`: queue, debts and requeued batches overlap on
  purpose; the rule state is the only thing that keeps the user from hearing
  twice, and the record the only thing that survives it.
* `DrainedNotForgotten` names its exceptions: a mute, a full queue (which counts
  what it drops), a cut of the whole job, a restart.  The mute is real:
  `evaluate_lifecycle` returns 0 when muted and 0 is not `None`, so the batch is
  not requeued; the debts have to bring the alerts back.  The cuts of the job are
  counted in the history variable `jobCuts`, so that a hook's cut that requeues
  nothing could not pass for one of them.
* `GhostCloses` holds under free interleaving too: stale copies may undo the
  counter, even reopen a row, and the sync still gets it closed.  A row that was
  reopened after its trade was added takes the path `MissSettled`.
* `OthersWork` is checked with one light job that needs a thread; `ThreadForEach` in section 5
  says what is needed of the pool when there are more.
* `BackedOffOnlyWhileFailing` leaves out jobs that are also hooks.  `daily_summary`
  is both; a success as a hook resets its failures and leaves the longer interval
  to the next successful tick.
* `StockLedgerAgrees` compares the position with the history of fills; it says that the
  clamp at zero of `save_fill` never hides a sale of what is not there, also when a
  partly filled order is filled up by later runs and when a crash comes between an order and its
  fill.
* `CoverageBounded` counts symbols held or ordered by the lane; an order is counted
  from the moment it is saved, and a position after its order is no longer active.
  Positions the operator has marked are left out, as the gate leaves them out.
* `OverLimitOnlyFromQueue` relates a fill to a count that was read before its order was sent.
  It does not say that the limit holds: an order that had to wait is placed again without
  being asked (finding 7), and the property says that nothing else gets past it.
* `FilledAtOnceHasPlan` and `LevelSoldOnce` except orders that were not filled at their
  placement (`late`), and a crash (`stockCut`): findings 8 and 9 are these exceptions.
* `OpenBetWillBeSettled` needs neither a cut nor an overlap of runs to fail if the order
  of estimate, resolution and payout is changed; with them it does fail (finding 10).
* `EntryBarSpared` relates a trade to the two rows written around it.  It excepts the
  bootstrap (`seeded`), runs or symbols that broke off (`paperCut`) and overlaps.
* `TriggeredIsAnnounced` follows an intent through judgment, scoring and the hand-over; it
  excepts scans that were lost and watches that have expired (finding 13).
* `CancelledReturnsOnlyFromCopies` says how a cancelled intent may become active again;
  the first of its ways is finding 14.
* `FetchesReachBack` counts the fetches since the cache last expired or a fetch failed.
  Without the second look under the lock each waiting caller would fetch again.
* `NoSilentHole` compares what the fetch state promises with what is stored.  `missed`
  names the two ways the code makes such a hole (findings 11 and 12), so that the
  property is about the third: a fetch that fails or dies between two chunks.
* `OneTokenPerDisturbance`: however many requests are rejected together, they share one
  new token.

## 4. Findings

The first five are runs that violate a promise the repository makes in its own
words.  The others are properties of `engines_apart` that hold: each either states the
divergence itself, or holds only because it names the case as an exception.

1. **A close may be announced twice** (`lifecycle_close_twice`; `manager.py:620`).  The
   sync thread closes a row and goes on to analyse the open ones.  A
   `deliver_alerts` in between finds the closed row as a debt, whose identity is
   `closed_at`; the next cycle drains the event, whose identity is the trade's id,
   and meets an armed rule.  `tests/test_close_alert_backfill.py:85` says that
   announcing the same close twice breaks trust.
2. **A cut send is suppressed for good** (`lifecycle_cut_send`; `alerts.py:593`).  The
   rule state is set before the await and is never re-armed; if the await is cut,
   there is neither a record nor a redelivery entry, and every later attempt is
   dropped.  `services/runtime.py:882` says that an alert not sent is a debt the next
   cycle pays.  While it is in the window it also occupies one of the five places.
3. **A stale copy restores the miss counter** (`ledger_stale_count`;
   `http_handlers.py:1241`), so an exit is recorded after one absence.
   `docs/AlertAudit.md:32` promises consecutive absences and a reset on reappearance.
4. **The pulse clears what it did not merge** (`pulse_shared`; `alerts.py:244`): an
   alert of another job that fails during the pulse's send is wiped from the list.
   The comment at `alerts.py:609` guarantees arrival.
5. **A fill has no budget** (`jobs_fill`; `manager.py:856`): a hung thread of a
   fill-driven run keeps the lock of `whale_follow_engine`, whose ticks are skipped
   from then on.  `core/config.py:1113` forbids infinite waits.
6. **A queued sale blocks all exits** (`QueuedSaleBlocksExit`; `stock_paper/service.py:759`).
   With the default of `stock_paper_hold_queued_orders` a sale that was queued once is never
   carried out, and while it waits no other sale of the symbol is made.
7. **Waiting orders fill beyond `max_open_positions`** (`OverLimitOnlyFromQueue`;
   `stock_paper/service.py:274`).  The gates (`service.py:115`, `:274`) count positions and, unlike
   the lane's target, no orders that wait, and `_process_pending_orders` places a waiting
   order again without asking.  Any queued entry can so bring the account above the limit if
   `stock_paper_hold_queued_orders` is off; with the default only the rest of a partly filled entry
   whose position was sold meanwhile.  `docs/TossStockPaperTrading.md:382` calls it the limit of
   the whole market's positions.
8. **A level is sold again if its sale had to wait** (`LevelSoldOnce`;
   `stock_paper/service.py:767`), against the docstring of `record_realized_level`.
9. **An entry filled from the queue has no plan of exit** (`FilledAtOnceHasPlan`; same
   line): no stop, no targets, no day of opening.
10. **A bet nobody settles** (`OpenBetWillBeSettled`; `poly_paper/store.py:563`): the payout
    comes after the resolutions, and only missing resolutions bring a market back.
11. **The page limit makes a hole** (`NoSilentHole`; `exchange/bitget/provider.py:475`), which
    the fetch state then calls complete.
12. **The retention makes a hole** (`NoSilentHole`; `db/maintenance.py:252`): fills of two days are
    kept for windows of four.
13. **An expired watch silences the scan** (`TriggeredIsAnnounced`; `scout/monitor.py:1121`): its
    score raises after intents were marked triggered and before they are announced.
14. **A cancellation is overwritten** by a scan that had listed the intent
    (`CancelledReturnsOnlyFromCopies`; `scout/monitor.py:471`).
15. **The bootstrap's trades may be judged by their entry's bar** (`EntryBarSpared`;
    `paper/service.py:235`).

Seen while modelling, and kept as notes because no line promises otherwise, the runs
are set up around them, or a property would only restate them:

* Every sale is booked to the strict lane whatever lane bought the shares, as a
  position row has no `entry_mode` (`stock_paper/service.py:439`).  The coverage lane's count does
  not fall when its positions are sold, although `docs/TossStockPaperTrading.md:413` expects
  slots to turn over with exits.  Only the operator's mark frees a slot, and the script
  lists positions that are still held.  A mark is never taken back: a symbol that is
  bought again after it takes no slot, though its new position has a plan.
* With two callers interleaved freely `OneLiveRowPerKey` and `OneTradePerPosition`
  do not hold: two syncs create two rows for one new position, and two exits pass
  the guard of `http_handlers.py:2059` before either closes the row.  They are
  checked with `Serial = TRUE`.
* A death between closing a row (`http_handlers.py:2096`) and adding its trade leaves
  a closed row without one: `ClosedHasTrade` fails if `DieAt` contains `"review"`.
* A sync that dies between its listing and its merge has seen a position and not
  reset its counter (`http_handlers.py:605`): `ExitOnlyAfterConsecutiveAbsence` fails if
  `DieAt` contains `"fetched"` or `"merge"`.
* After a failed automatic exit the row is marked `needs_exit_record` and the sync
  overwrites the mark with its own copy (`http_handlers.py:658`): the mark is never
  seen by a later sync of the same caller.
* Rows in `needs_exit_record` get no `closed_at` from any handler, so the branch of
  the close debts that looks for them skips them all.
* A hook that is cancelled leaves its heartbeat at "running"; a failed write of an
  alert record is logged and leaves an alert that was sent, is suppressed and is
  owed for the rest of its window.
* A stock position that is sold out and entered again keeps its old `opened_at`
  (`COALESCE` in `set_exit_plan`), so its time stop may be due at once.
* A buy order that is partly filled stays active when its position is sold out, and
  buys the rest later.
* An order whose fill breaks the invariant of the broker stays queued, and aborts each
  run that resubmits it.
* A stock run that is given up (`manager.py:460`) goes on in its thread, and the next tick may
  start another beside it (`manager.py:880`): both hold copies of the same orders.

## 5. What is proved

TLAPS proves the following for every value of the constants that satisfies the
assumptions in the modules: sets of positions, jobs and symbols are finite, bounds and
limits are natural numbers (some of them not zero), there is a key, the ids of zones
and of watches differ.  A theorem that needs more states it as a hypothesis; each
hypothesis is one the code leaves to circumstances, and section 4 or a run says what
happens without it.

| Theorem | Statement | Hypothesis |
|---|---|---|
| `LifecycleAlertsProofs!TypeCorrect` | `Spec => []TypeOK` | |
| `MessageSentOncePerLife` | `Spec => []SentOncePerLife` | |
| `OpenDebtSettledOnce` | `Spec => []OpenSettledOnce` | |
| `DrainedEventsKept` | `Spec => DrainedNotForgotten` | |
| `SuppressedAccounted` | `Spec => []SuppressedIsAccounted` | `SendsFinish`, `SavedAtRest` |
| `PipelineImplementsOpenDebt` | `Spec => ImplementsOpenDebt` | |
| `OpenDebtsPaid` | `FairSpec => OpenDebtPaid` | `SendsFinish`, `SavedAtRest`; `DeliverReady`, `DeliveriesEnd`, `FaultsEnd`, `[]OpenDebtsFit` |
| `CloseDebtsPaid` | `FairSpec => CloseDebtPaid` | the same with `[]CloseDebtsFit` |
| `PositionLedgerProofs!TypeCorrect` | `Spec => []TypeOK` | |
| `ClosedRowsHaveTrades` | `Spec => []ClosedHasTrade` | no death between close and trade |
| `OneRowPerPosition` | `Spec => []OneLiveRowPerKey` | `Serial` |
| `OneTradePerRow` | `Spec => []OneTradePerPosition` | `Serial` |
| `AbsencesAreConsecutive` | `Spec => ExitOnlyAfterConsecutiveAbsence` | `Serial`, no death between listing and end of merge |
| `HeldGetsTracked` | `FairSpec => HeldIsTracked` | a caller is scheduled; `SyncReady`, `EventsEnd`, `HandlersReturn` |
| `GhostsClose` | `FairSpec => GhostCloses` | the same, `Serial`, `ConfirmTicks <= 2` |
| `PulseRedeliveryProofs!TypeCorrect` | `Spec => []TypeOK` | |
| `FailedKeptAlone`, `FailedSavedAlone` | `Spec => []FailedStaysPending`, `[]FailedSurvivesCrash` | `Others = {}` |
| `FailedArriveAlone` | `FairSpec => FailedArrives` | `Others = {}`; `GuardsEnable` |
| `JobRunnerProofs!TypeCorrect` | `Spec => []TypeOK` | |
| `BackoffIsJustified` | `Spec => []BackedOffOnlyWhileFailing` | |
| `PausedJobsAreRevived` | `FairSpec => PausedIsRevived` | the reviver is not fill-driven; `GuardsEnable` |
| `JobsRunAgain` | `FairSpec => RunsAgain` | the same, and `PausesEnd` |
| `OthersWorkOn` | `FairSpec => OthersWork` | the same, fill-driven jobs are heavy, and `[]ThreadForEach` |
| `StockPaperProofs!StockTypesCorrect` | `StockSpec => []StockTypeOK` | |
| `LimitPassedFromQueueOnly` | `StockSpec => OverLimitOnlyFromQueue` | `Alone` |
| `LaneKeepsToTarget` | `StockSpec => []CoverageBounded` | `Alone` |
| `QueuedSalesBlock` | `StockSpec => QueuedSaleBlocksExit` | `Alone` |
| `PromptEntriesHavePlans` | `StockSpec => []FilledAtOnceHasPlan` | `Alone` |
| `LevelsAreSoldOnce` | `StockSpec => []LevelSoldOnce` | `Alone` |
| `EntriesAreNotOverfilled` | second half of `StockLedgerAgrees` | `Alone` |
| `EachFillIsBooked` | `StockSpec => [][FillsMovePositions]_stockVars` | `Alone` |
| `LedgerAgrees` | `StockSpec => []StockLedgerAgrees` | `Alone` |
| `PaperProofs!PolyTypesCorrect` | `PolySpec => []PolyTypeOK` | |
| `PositionsPaidOnce` | `PolySpec => []PaidOnce` | |
| `OpenBetsAreReached` | `PolySpec => []OpenBetWillBeSettled` | |
| `PaperTypesCorrect` | `PaperSpec => []PaperTypeOK` | |
| `EntryBarIsSpared` | `PaperSpec => []EntryBarSpared` | |
| `EntryIntentsProofs!IntentTypesCorrect` | `IntentSpec => []IntentTypeOK` | |
| `CancellationsAreRead` | `IntentSpec => CancelledReturnsOnlyFromCopies` | |
| `TriggersAreAnnounced` | `IntentSpec => []TriggeredIsAnnounced` | |
| `CacheProofs!FlowTypesCorrect` | `FlowSpec => []FlowTypeOK` | |
| `FlowFetchesReachBack` | `FlowSpec => []FetchesReachBack` | |
| `FlowHidesNoHole` | `FlowSpec => []NoSilentHole` | |
| `TokenTypesCorrect` | `TokenSpec => []TokenTypeOK` | |
| `TokensArePaidFor` | `TokenSpec => []OneTokenPerDisturbance` | |

The hypotheses:

* `SendsFinish`: the budget of `evaluate_lifecycle` runs out while a context is awaited, not
  during a send; `lifecycle_cut_send` is what happens otherwise.  `SavedAtRest`: no other job
  saves the rule states while `deliver_alerts` sends, or the process is not restarted;
  otherwise a restart in mid-send reads that a rule is not armed whose send never returned.
* `Serial`: one handler at a time, as with a worker and no browser.
* Deaths: a row is closed and its trade added in two transactions, and a listing is
  followed by the merge in many.  `ClosedRowsHaveTrades` needs no more than that, so it holds
  under free interleaving.
* `Alone`: runs of the stock engine do not overlap.  The job skips a tick while its last run
  is under way, and the request's run comes by hand; a run given up by its budget is
  the exception.
* The theorems about `PolyPaper`, `CryptoPaper` and `EntryIntents` have no hypothesis, since
  the properties name overlaps, cuts and expired watches themselves.

The theorems about `FairSpec` are liveness: what must happen in the end.  They have
hypotheses of three more kinds.

* *Enabling.*  `GuardsEnable`, `DeliverReady` and `SyncReady` say of each action with a
  fairness condition what its guard is: `stage = "idle" => ENABLED <<Deliver>>_vars`, and
  the like.  They are true of the actions by inspection, and TLC finds them true on the
  instances of section 3; TLAPS does not compute `ENABLED`, so it has to be told.
* *Counting down.*  `FaultsEnd`, `EventsEnd` and `PausesEnd` say that troubles come to an end,
  as the bounds `MaxFaults`, `MaxEvents` and `MaxPauses` make them, and `DeliveriesEnd` and
  `HandlersReturn` that a delivery is over, and no handler runs, again and again.  Of the
  instances these are consequences (TLC agrees on `lifecycle_debts` and
  `ledger_serial`), but by a number that falls until it is zero, an induction over
  behaviours that the provers here cannot do.  In the code the budget of the job and the
  HTTP timeouts make them true; several workers that sync in turn without a pause would
  make `HandlersReturn` false.
* *Room.*  `OpenDebtsFit`: no more positions owe an alert at a time than a cycle collects
  (`alert_open_backfill_limit`); with more, which of them are first decides, and
  `lifecycle_debts` checks a case of it.  `ThreadForEach`: the default executor has a
  thread for each job that uses it, beyond the threads that outlived a run of theirs.
  Without it `OthersWork` fails, though no heavy job is to blame: of two light jobs for one
  slot, one may find it taken whenever its budget lasts.  `ConfirmTicks <= 2` is the default of
  `alert_closure_confirm_ticks`; each further listing would take the same argument once
  more.  The reviver is not fill-driven, and the one fill-driven job,
  `whale_follow_engine`, is heavy: both are so in the code.

The arguments:

* **`JobInv`**: exactly one key is being sent in the stages `sending` and `sent`, none
  in the others, and what is being sent is cooling.
* **`SentInv`**: `SentOncePerLife`, and: a key that is armed, or whose message is about
  to be transmitted, was transmitted at most once per *earlier* life.  Plain
  `SentOncePerLife` is not inductive, since it does not say why a second send of this
  life cannot start: `FireStarts` needs an armed rule, and only `Restart`, which
  adds a life, arms one.
* **`OpenInv`** is the heart.  A restart may forget rule states, so "cooling" cannot be
  the reason that an entry alert has one record over all lives.  The invariant
  speaks of every place that carries an entry alert (sync result, queue, batch,
  debts, work): what is carried belongs to a row that exists, and if it already
  has a record then its rule is cooling, which drops it; what is being sent has no
  record.  A restart keeps this because it empties all those places; a debt can be
  collected anew only while there is no record.
* **`BatchInv`**: while alerts are fired, each drained event is still in `work` or
  cooling, and there is no batch between two deliveries.
* **`AccountedInv`**: `SuppressedIsAccounted`, and the file holds only rules that were handled
  (unless there are no restarts to read it).  A cut outside of a send finds `current`
  empty by `JobInv`, so it takes no rule out of the accounts.
* **Refinement.**  `OpenInv` gives that `DebtOf` is never "settled twice"; `DebtStep`
  shows that each step changes the debt of at most one position and in the one
  allowed way: rows opening incur, `Record` of an entry key settles, all other
  steps stutter.
* **`PulseInv`** (with `Others = {}`): the file equals the list; no own send is under
  way during a pulse, hence `merged` is exactly what is on the list while the pulse
  is being sent, and clearing the list clears what was told.  The hypothesis cannot
  be dropped: `pulse_shared` is the counterexample.
* **`HolderInv`, `BackoffInv`**: a job outside `Hooked` is never run as a hook and only a
  run that holds the lock has work; its failures are reset by a tick only, which
  restores the interval in the same step.
* **`TradeFlow`**: only the holder of the lock works (`HolderWorks`); while the cache is
  fresh, the number of fetches and the first hour covered add up to at most one more than
  the hours there are, and the window being fetched begins before what is covered
  (`FetchesDescend`), so each fetch costs an hour; what a holder has yet to store is all
  that its window lacks and is not in `missed` (`HolesKnown`), so the fetch state may be
  written when nothing is left.  `NoSilentHole` alone does not say what is under way.
* **`TossToken`**: a token that Toss has revoked or the cache has given up is a debt of one
  token (`Owed`).  Tokens and debt together exceed the disturbances by at most one
  (`Paid`), and a token is issued only while the debt stands: a request that asks for
  another token than the cached one has seen that one revoked (`ForcedSawRevoked`).  A
  request that was sent again after a 401 is sent with the second token or a later one
  (`SecondTokenIsNewer`), so a second 401 takes a second disturbance.
* **`PositionLedger`, interleaved** (`ClosedIsAccounted`): the row alone will not do, since a
  stale copy that says closed may be written back after the row was reopened.  The
  invariant is about everything that says closed, rows and copies: each is about a row
  that has a trade or somebody about to add it.
* **`PositionLedger`, serial** (`SerialInv`): the copies a sync has yet to look at are the rows
  as they are, and among them it finds exactly the live rows of each key it has yet to merge,
  so it creates a row only where there is none.  The copy of a row whose exit is being
  recorded is that row and has no trade, so the guard of `_record_exit` is not stale; a row
  with a trade is closed.  `AbsenceInv`: a live row has been missed at most as often as its
  key was absent in a row, unless the running sync has seen the position and has yet to reset
  its counter; the hypothesis about deaths keeps that sync alive until it has.
* **`StockPaper`.**  `HandsInv` is the base of all that needs `Alone`: the copies of orders and
  rows a run holds are current, and it knows the order in its hands.  On it rest
  `WantedIsBounded` (the symbols the lane holds, or may come to hold through an active order
  or a fill in hand, are within the target: `CoverageBounded` alone loses an order that
  has just been filled and not yet booked), `RoomFound` (an entry that was answered at once
  found the account below its limit, and it still is when its fill is saved), `SalesInv` (a symbol has one live sale, which
  the position covers, together with the fill in hand), `PlanInv` (an entry that waits or is
  being filled was late, or has its plan, or is still in the hands of the run that placed
  it), `LevelInv` (a level that was sold at once is taken in the plan, or bought anew since,
  or its run is about to note it), `FillsFit` (of an entry, what was filled, is in hand and is
  left is at most what was ordered).
* **`PolyPaper`.**  `PayoutInv`: a position is resolved exactly when it was paid, and until
  two runs overlap the position a run is about to pay is open.  `SettlementInv`: until then a
  settlement has only estimates of its own market in hand, and a position is taken only in a
  market that has an estimate left to settle.
* **`CryptoPaper`** (`SparedInv`).  `FreshCovered`: a trade of the scan that was entered on the
  present bar is announced by a funnel row of that bar, and the symbol's engine state is of
  that bar too or about to be written.  `JudgesAhead`: no run judges bars behind the engine
  state, and a trade in its hands is a true copy of one entered earlier.
* **`EntryIntents`** (`AloneAndHeard`): until a scan is lost there is one scan at a time and
  somebody awaits it, and an idle scan keeps no alerts; until a watch expires no watch is
  resolved, so the scoring does not raise.

* **`LedgerAgrees`** (`BooksBalance`: bought is held and sold).  `FilledOn` sums over the orders of
  a symbol, and that a sum changes by what one of its terms changes by would be an
  induction.  The sum of a function of naturals over a finite set is therefore shown to be
  the number of its units, the cardinality of the pairs `<<x, n>>` with `n` in `1..f[x]`
  (`SumOver`, `SumSplits`), where one term more is a disjoint union.  With that, a saved fill
  adds the same shares to one sum and to the position or the other sum; `SalesInv` gives
  that a sale is covered by the position, so the clamp at zero takes nothing away.
* **Debts** (`EvaluationPays`).  Once faults have ended, what a delivery was given stays on its
  way - due, to be fired, or in its send - until it is handled: `AccountedInv` says that a rule
  that is not armed and drops the alert was handled before.  A delivery that starts while a
  debt is owed collects it, as all debts fit, and a delivery starts again and again.  A close is
  owed under two identities; whichever is on its way, the debt is paid.
* **Redelivery**.  A send in progress ends, and no other starts during a pulse, so pulses
  become due (`PulsesAreDue`), get past composing and are delivered (`PulsesAreDelivered`);
  by `PulseInv` a delivered pulse has merged every alert that waits on the list.
* **Scheduler** (`JobsTick`).  The lock of a job outside `FillDriven` is always held under a
  budget (`TriggerInv` and the types), so it is free again and again; the reviver cannot lose its
  trigger, so it ticks for ever and sets the others' again.  `OthersWork`: a light job
  that waits for a thread finds one (`WaitingFindsThread`), by counting who has them.
* **Ledger, in the end**.  `HeldIsTracked`: after the last event a sync starts while nobody
  runs; what it has listed and not merged stays so, or gets its open row (`NoticedIsMerged`),
  whatever the others do.  `GhostCloses`: a live row stays live under its key until it closes
  (`LiveRowStays`); the next sync's listing lacks it, and when the sync comes to it, it
  is closed, or was not late and has its miss counted (`ComingStep`); from there to its end
  that sync leaves the row alone (`PassedStep`), also when it writes rows back after their
  analysis.  The sync after it finds the row late, and closes it.

Only model-checked:

* `OpenDebtPaid` and `CloseDebtPaid` with more debts than a cycle collects, and `GhostCloses`
  with handlers that interleave (`ledger_races`): there a stale copy may undo a count, and that it
  does so only finitely often is again an induction over behaviours;
* the enabling and the counting-down hypotheses above;
* `TypesOK` as such, the conjunction of six type invariants each of which is proved.

## 6. What is not modelled

The table of section 1 gives the parts.  Within the modelled parts: the retries of
`send_message` (one step; a message whose answer is lost may be sent twice by the
transport), writing an alert record (never fails), the lookup of records in the
last 50 alerts of a position, misfire grace, the split of a job's budget over its
hooks, the heartbeat table, the manual entry form for positions, reports and the
judgment ledger; in the paper engines, cash, prices, fees and the rules that decide on an
exit or an entry (the re-entry lock and the gates' versions among them: any candidate may
pass), the benchmark accounts and their restart, the validation clocks, the
suppression of repeated events and, at the start of a crypto run, of duplicate bootstrap
trades and the repair of the loss tags of closed trades (`_repair_pre_tp_pressure_exits`),
shadow tracks, the whale-follow track and the statistics; in the scout, armed setups and the
simulation of an intent; of Bitget, every endpoint but the trade flow, and the other timeframes of a
symbol, which only add rows, the lock, the cap on rows and the end of the window of
`store_fills`; of Toss, a second event loop, whose tokens and this one's
would end each other, and the repeated attempts of one token request and their limit
(`IssueToken` is the whole of them).

Coarser than the code, where nothing checked tells the difference: `ExitFailed` of the
ledger reads the row and marks it in one step (`http_handlers.py:809-812`), and `BeginScan` of
the intents lists those of all symbols at once, where the scan lists a symbol's when it
comes to it (`scout/monitor.py:52-68`), so the copies in the model may be staler.

## 7. Plan

Done: the components above, in the order of their weight for the user.  Next,
in this order:

1. **What stocks promise when runs overlap**: which of the properties survive a thread that
   was given up and goes on beside the next run, with a history variable for the overlap
   in place of `Alone`.
2. **Write lock** (`db/sqlite_utils.py`): writers, lock with timeout, a holder that does
   not commit; then records that may fail in `LifecycleAlerts`.
3. **Rule retention** (`state._retained_rule_states`) and the bound of 50 on the lookup
   of records, as part of `LifecycleAlerts`.
4. **Hook budgets**: the arithmetic of shares and floors (`manager.py:395`) against the
   job's own budget, as functions checked over bounded inputs.
5. **Whale batches** (`alerts.py:296-324`, `873-920`): a batch taken off the list before
   its send, against cuts of the job.
6. **Supervisor and dead man's switch** (`scripts/local`): restart limits against the worker's
   own recovery.
7. **Abstract specifications** of a paper position (entered, reduced, closed) and of a row
   of the ledger, refined by `StockPaper` and `PositionLedger` as `OpenDebt` is by
   `LifecycleAlerts`.

Each comes with an abstract statement of what it promises where the code or its
docs make one, as `OpenDebt` is for the entry alerts.
