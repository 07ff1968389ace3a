# Verification of crypto-copilot

TLA+ models of the backend of crypto-copilot, model-checked with TLC and proved
about with TLAPS. Paths below are relative to `src/`; `app/` is short for
`backend/app/`.

## 1. Inventory

The backend is one FastAPI process over PostgreSQL. It imports a user's futures
deals from the MEXC exchange (read-only), rebuilds positions from them, adds
candles, indicators and risk flags, checks positions against a trading plan and
asks a language model for a retrospective review. Coroutines of one event loop
(the basket sync, imports, reviews) and functions in the thread pool (plain
`def` routes) share the database; every request and every scheduler tick has an
ORM session of its own (`autoflush=False`, `expire_on_commit=False`).

| part | state | operations | talks to | what makes it correct |
|---|---|---|---|---|
| basket sync, `app/services/crypto_basket_service.py` | baskets, items (cursor, status, started), runs | read, upsert, sync one basket, sync all | importer, reconstructor | no gap between windows, one sync per item, failures isolated and visible, recovery after a restart |
| scheduler, `app/services/crypto_basket_scheduler.py`, `app/main.py` | one task | start, stop, tick | basket sync | ticks go on whatever happens in one |
| basket routes, `app/api/routes/crypto_basket.py` | - | GET, PUT, POST sync | basket sync | edits never corrupt a running sync |
| importer, `app/services/mexc_importer.py` | raw deals | import with retry | client | every deal listed at its start stored exactly once |
| client, `app/services/mexc_client.py` | - | pages of deals, stop orders, klines | exchange | pagination ends and misses nothing |
| reconstructor, `app/services/position_reconstructor.py` | positions, links to deals | reconstruct | raw deals | positions are a function of the stored deals; volumes balance |
| trade routes, import routes, `app/api/routes/` | - | reconstruct, snapshots, review, questions, readiness | all services | a replaced position is noticed |
| trade metadata, `app/services/trade_metadata_service.py` | planned stop loss, notes | upsert, sync of stop losses | client, positions | the stop is the opening one of this position; notes stay the user's |
| position context, `app/services/position_context.py` | - | timeline | links or raw deals | linked and inferred timelines agree |
| candles, `app/services/candle_service.py` | candles | fetch in segments, read | client | ranges covered without gap or duplicate |
| indicators, `app/services/indicator_engine.py` | snapshots | calculate | candles | every candle of the window is used and none after the anchor; long and short are judged alike |
| trading plan, `app/services/trading_plan_service.py`, `app/schemas/trading_plan.py` | plan, items | read, upsert, evaluate | positions, metadata, snapshots | lists never mix; what is stored stays readable; a verdict stands |
| risk, `app/services/risk_engine.py` | - | dashboard totals | positions | totals reconcile with the deals |
| review, `app/services/ai_review_engine.py` | reviews, questions | generate, answer | language model | bounded attempts, one verdict per active rule, no forbidden phrase in a review |
| frontend, `frontend/src` | drafts | forms | API | a draft is not lost to a refetch |

Hard behaviours:

* **Interleaving.** A sync awaits the exchange for every item. Meanwhile other
  syncs run, users edit the basket, and the thread pool reconstructs positions.
* **Stale state.** An ORM session keeps the rows as it loaded them. A session
  that walks many items decides about the last one on a row loaded before the
  first; only the rollback of a transaction makes it load rows again.
* **Failure.** Fetch, import and rebuild can each fail, and commit separately. The database
  can fail outside the try block around them, which ends the walk over all items.
  The process can end between any two transactions.
* **Order and delay.** A deal may be listed after its timestamp; two syncs of an
  item may finish in either order.
* **Replacement.** Rebuilding deletes the positions of a symbol and all that
  refers to them, while other requests hold their ids.
* **Locks.** Requests in the thread pool meet in PostgreSQL at READ COMMITTED: they
  wait for rows and unique keys of each other, pass over rows that are gone, and can
  wait for each other in a circle.
* **Boundaries.** Pages, segments and windows begin and end at instants that are off
  the grid of what they cover, and MEXC goes on listing while they are read.

`PROJECT.json` lists the hazards at their lines with the properties on them.

## 2. What is modelled now

### BasketSync

`BasketSync.tla` models the basket sync with its scheduler and routes, and
import and reconstruction as steps of it.

| variable | code |
|---|---|
| `clock` | `utc_now()` in ticks |
| `traded` | the deals the exchange lists, known by their timestamps |
| `imported` | `raw_mexc_order_deals` |
| `positions` | for each item, the raw deals its stored positions were built from |
| `row` | `crypto_basket_items`; `cursor` is `last_sync_end_time_ms`, `started` is `last_sync_started_at`, `id` numbers the successive rows of one symbol |
| `runs` | `crypto_basket_sync_runs`, as the set of distinguishable rows |
| `loop` | the coroutine the event loop is running |
| `pc`, `baskets`, `todo`, `job` | where a sync session is, and its local variables |
| `view`, `expired` | the identity map of its ORM session, and the objects a rollback expired |
| `begun`, `edits`, `crashes`, `outages` | counters of the bounds |

One action is one transaction, or the code between two awaits when it writes
nothing. A session begins with `SyncBasket` (the POST route) or `SyncAllBaskets` (a
tick), goes through `EnterBasket`, and for each item takes one of `SkipDisabled`,
`SkipRunning`, `StartItem`, `WalkAborts`. `StartItem` ends with the await of the
exchange; then come `FetchDone`, `ImportDeals`, `Rebuild`, `RecordSuccess`, or at any
point a failure and `RecordError`. `RecordAborts` and `WalkAborts` are the exceptions
outside the try block raised when the row is gone. `Outage` is the database failing outside
the try block, which ends the walk over all items and baskets while the process lives (the
scheduler logs it and waits for its next tick, `app/services/crypto_basket_scheduler.py:51`):

| action | where the database fails | what stays |
|---|---|---|
| `WalkFails` | loading a basket or an expired row; the commits of lines 182 and 205, when they do not take place | nothing of this item |
| `SkipFails` | line 182, when the commit took place and only its answer is lost | the skipped run |
| `StartFails` | line 205, the same | item and run marked running, with no session |
| `RecordFails` | the rollback of line 226, the reloads of lines 228 and 242, the commits of lines 238 and 266 | item and run marked running, or the outcome if only the answer is lost |

A transaction of the try block can also take place with its answer lost (`ImportFails`,
`RebuildFails`). `UpsertBasket` and
`ReconstructRoute` run in the thread pool, so they need no `loop`. `Trade`, `Tick` and
`Restart` are the surroundings.

Details of the code that the model keeps because properties depend on them:

* the flush writes only columns that changed, so taking over a stale item does not
  write `sync_status` again (`Marked`);
* the rollback of a transaction expires all objects of the session, so after a failure of
  import or rebuild the next items are loaded again (`RollBack`, `Seen`, `expired`). A fetch
  runs outside any transaction (commit in line 205, `expire_on_commit=False`): the rollback in
  line 226 has nothing to roll back then and expires nothing (`FetchFails`), so the next items
  are still judged by the rows loaded at the start;
* a deleted row is noticed by an update, by an insert that refers to it, or by
  a reload, and not by reading a loaded column (`WalkAborts`, `SkipDisabled`);
* the error path writes the cursor as the success path does (`WriteOutcome`);
* a PUT that removes a symbol deletes its runs, and adding it again makes a
  row that has no cursor (`EditedRow`).

Abstractions: a deal is its timestamp, and two deals of an item have different
ones; the pages of a fetch are what was listed when it began plus any part of what
was listed during it, inside the window; a reconstruction is one atomic step; one
server process; edits of baskets are atomic; the code between two awaits takes no time;
a finished session keeps nothing. Counters, warnings and texts are left out.

#### Properties of BasketSync

* `NoSilentGap`: a deal the cursor has passed, with the listing delay, is stored or
  lies in the window of a run recorded as failed.
* `CursorFromRun`: the cursor of an item is the end of a finished run of that row.
* `NothingLeftRunning`: what fails in fetch, import or rebuild is recorded. Of the runs
  marked running, those no session is on the way to finish (`RunsLeft`) are no more than one
  for each outage and one for each session at each restart, and an item marked running has a
  run of its own row that is, so it is never left alone with the mark.
* `SuccessMeansRebuilt`: a success is recorded only when the positions show all
  stored deals.
* `OneSyncPerItem`: of two sessions that sync the same row, one found the other
  stale. It is stated for two sessions that sync once each and holds with one item in a
  basket; with more, see the run `double`. (With a third session the first of two
  overlapping syncs to finish clears the mark the other still relies on.)
* `CursorNeverMovesBack`: a cursor moves back only by a sync that was taken over.
* `ItemsIsolated`: whatever fails in fetch, import or rebuild of one item, the session goes
  on to the others. The stated exceptions are those of the code: an edit that removes the row
  the session is at, when `_get_item` raises outside the try block (line 242), and an outage
  of the database there. Either ends the walk over all baskets.
* `SyncEnds`, `StaleItemRecovers`: liveness. What an outage or a restart left running is
  synced again once it is stale.
* `TypeOK`: types, and that a session has a job exactly while it syncs an item.

### Ledger

`Ledger.tla` models the walk of `PositionReconstructor._reconstruct_positions` over the
stored deals of one user and symbol, with one `PositionLedger` for each direction.

| variable | code |
|---|---|
| `deals` | the sorted deals, as far as the loop has come |
| `ledgers` | the dict `ledgers`; `NoLedger` is `None` |
| `positions` | the list `positions`; `links` of a position are its `_raw_deal_ids` |
| `skipped`, `clamped` | the deals in the warnings of the two kinds |
| `done` | the loop is over |

One action is one iteration of the loop, by what becomes of the deal: `Enter` and
`SkipEntry` are `_handle_entry`, `SkipExit`, `ExitInPart` and `ExitAll` are
`_handle_exit`, `SkipUnknownSide` is the last branch. `Finish` turns the ledgers that
are left into open positions.

The loop is deterministic; what varies is the data. A step therefore takes *any* deal
that the sort allows next (`InOrder`: not earlier than the last; deals of one
millisecond come in the order of their ids as strings, which has nothing to do with
trading, so any order), and every sequence of stored deals is a behaviour.

Abstractions: a deal is known by its place; decimals are integers; an average price is
kept as the sum it is an average of, which is the same over exact numbers and leaves
out the rounding of `Decimal` and of the columns; instants are milliseconds, which
`datetime_from_ms` and `_datetime_to_ms` preserve for times between 2005 and 2037 (the
float product that truncates by a millisecond occurs outside these years only).
Every stored deal has an id.

`HedgeBook.tla` is the abstract specification: a volume for each direction that deals
move, never below zero, and a report of one closed position whenever a volume returns
to zero. It knows no ledgers, links or prices. `Ledger` implements it with
`volume <- ` the open volumes, `reported <- ` directions and states of the positions.
`LedgerReference.tla` computes the same figures from the whole sequence of deals.
It is a module of its own because it uses folds.

* `VolumesBalance`: a kept ledger has an open volume, which is what came in less what
  went out; exactly the closed positions took out everything.
* `EachDealOnce`: every deal is linked once or skipped with a warning, never both.
* `PositionsFollow`: positions of one direction do not overlap; only the last is open.
* `LinksWithinTimeline`: linked deals are deals of the direction in the time of the
  position, so `_infer_deals` of `app/services/position_context.py`, which a position
  without links falls back to, lacks none; the first is the entry that opened it,
  which `_opening_order_id` relies on.
* `ImplementsHedgeBook`: refinement.
* `OpenIsNetAboveLowest`: the open volume is the net volume above its lowest point
  so far: a close beyond zero is forgotten and never held against a later entry.
* `FiguresFromLinks`: volume, cost, fees and profit of a position follow from its
  linked deals; only the last can have been closed in part, and a warning names it.

### Rebuilding

`Rebuilding.tla` takes `PositionReconstructor.reconstruct` apart into its statements.
The routes that reconstruct are plain functions in the thread pool and the sync runs
in the event loop, so two reconstructions of one symbol can overlap; nothing in the
code keeps them apart.

| variable | code |
|---|---|
| `deals` | `raw_mexc_order_deals`: the deals 1 to `deals` are committed |
| `rows` | the committed rows of `futures_positions`, each with its deal and the transaction that inserted it |
| `pc` | the statement of `reconstruct` that each thread runs next |
| `seen`, `gone` | what its DELETE saw and what it removed |
| `loaded` | what `_load_raw_deals` returned |
| `run`, `disturbed` | history: how many transactions a thread began, and whether another was under way beside this one |

`Begin` starts the transaction and with it the DELETE, which takes its snapshot then;
`Delete` is its end, after any wait; `Load` is the SELECT; `Commit` is the INSERTs with
the commit; `Abort` is any exception or lost connection, rolled back by
`with self.db.begin()`.

`app/db/session.py` creates the engine without an isolation level, so PostgreSQL's
READ COMMITTED applies, and the model says what it does: every statement has a
snapshot of its own; a DELETE waits for a transaction that removed a row it
saw, and passes over the row if that transaction committed; rows inserted since its
snapshot are not among those it saw. That a DELETE locks rows one by one is left out:
it locks what it locks no later than its end, and a deadlock that PostgreSQL breaks
is an `Abort`. One deal stands for one position here, because what deals become is
the subject of `Ledger`.

* `NothingUnshown`: a deal that the positions show stays shown. DELETE comes before
  SELECT, so a transaction that commits late loaded at least the deals behind the rows
  it removes. `BasketSync` takes a rebuild as one atomic step; this is what lets
  `SuccessMeansRebuilt` stand when a rebuild of another thread overlaps it.
* `OneCopyPerRebuilder`: overlapping reconstructions can double a position, but a
  deal is never shown more often than there are threads that reconstruct.
* `AloneRepairs`: a reconstruction that no other overlaps leaves every position once,
  also when earlier ones had doubled it.
* `RebuildsEnd`: liveness; no transaction waits for ever.
* `NoDuplicates`: what the idempotency test expects; violated.

### Dashboard

`Dashboard.tla` adds `RiskEngine.get_dashboard` to the positions of `Ledger`: operators
over `positions`, no state of its own. A quotient is the pair of what is divided.

* `DashboardReconciles`: the net result is the profit of all closes less all fees of the
  deals that were not skipped, whichever way deals were clamped and split over positions and
  directions; the two averages account for every closed position.

### MexcReads

`MexcReads.tla` models reading pages from MEXC: `iter_order_deals` and `iter_stop_orders` of
the client, the import with its attempts, and the search for the opening stop order.

| variable | code |
|---|---|
| `clock` | what MEXC has listed by now, as an instant |
| `newestFirst` | the order of MEXC's list; no source states it, so both are checked |
| `table` | `raw_mexc_order_deals` |
| `request`, `pc` | the local variables of each request, and where it is |

`BeginImport`, `ReadPage`, `ReadFails`, `Resume`, `Store` are the import: every page is an
await, `Store` is the one transaction without an await that stores what is not stored.
`BeginLookup`, `ReadPage`, `ReadFails`, `Choose` are `_find_opening_stop_loss_order`.
`Matches`, `Before` and `Window` are its filter, rank and window. A failure that is not
temporary (a 4xx answer, or a timeout, which has no status code) is the second branch of
`ReadFails`: it is never retried.

* `ImportComplete`: a successful import has stored every deal of its range that was
  listed when it began, and counts each stored deal for just one request.
* `StopIsTheOpeningOne`: the chosen stop belongs to the position, with its opening order
  rather than later, as early as any whose time is known; there is none only when nothing
  matched.

### Candles and Indicators

`Candles.tla` models `POST /positions/{id}/indicator-snapshots`: for each time frame
`FetchSegment` for every segment and `Store` for the transaction that stores candles that
are not there; then `Calculate`, one transaction that replaces the snapshots.
`Indicators.tla` holds what the engine computes, as operators on a sequence of candles.

| variable | code |
|---|---|
| `clock`, `chart` | the exchange: which candles have begun, which have closed |
| `candles` | the table `candles`, by time frame and begin |
| `snapshots` | `indicator_snapshots`: the values, and beside them the candles they were calculated from |
| `request`, `pc` | range, segment and position of each request, and where it is |

A request is one record all the way: which position and time frames it was sent for, which
are left, and how far it has come. `ChartsAssumption` says that the candles of a time frame do
not overlap, which is what a time frame is; they may be off the grid, and missing where
nothing was traded. Quotients are exact, so the rounding of `Decimal` is left out; the lengths of the
windows (14, 26, ...) are parameters, of which `LengthsAssumption` asks that they are positive and
the fast average is not longer than the slow one; the multiplier of the supertrend is one, as in
the code. The supertrend is kept times `Scale`, so that it stays an integer. A series that the code
builds in a loop is a recursive function: `Totals`, `Smoothed` (the exponential average) and `Trend`
(bands and direction), of which `Carried` is one turn of the loop.

* `WindowWhole`: a snapshot stands on every candle of the exchange between the start of
  its warm-up and its anchor, and on none after. The one exception is arithmetic of the
  code: the range starts at the second a position was opened, a segment ends
  `(MAX - 1)` widths after its start and the next begins one width later, so a candle on the
  grid that begins between the two is asked for by neither. This needs a range of more
  than 2000 candles.
* `SnapshotSound`: a value is there exactly when there are candles enough for it (the relative
  volume: and something was traded in its window), the
  oscillators stay within 0 and 100, and the line of the supertrend never gives way while
  the direction lasts, unless the price closed on the wrong side of the line.
* `MirrorTurns`: prices turned upside down turn supertrend, label and patterns. The first
  close in the middle of its candle is the exception: it counts as bullish either way.

What the model has and no property forbids: a candle that was still forming when it was
stored is never corrected (`Forming`); the candle that contains the entry closes after
it; RSI of a market that does not move is 0.

### PlanEvaluation and TradingPlan

`PlanEvaluation.tla` holds the pure part of the trading plan: `Valid` and `Normalised` are the
validators of the schema, `Status` is the verdict on an enabled rule, one operator for
each type of rule. A list of texts is the set of its words, a decimal is a number of
halves. What stripping and changing the case do to a word is the constant `Canonical`; the
proofs assume of it that doing it twice is doing it once (`WordsAssumption`). `TradingPlan.tla` is the plan of one user under concurrent requests in the thread
pool, statement by statement.

| variable | code |
|---|---|
| `puts` | history: the lists sent so far, as the schema left them |
| `plan` | the committed rows of `trading_plan_items`, or `NoPlan` |
| `pc`, `put` | the next statement of a session, and which PUT it serves |
| `loaded`, `gone` | the rows it loaded, and those it deleted and did not commit |
| `disturbed` | history: another request was under way beside this one |

`GetPlan` and `PutPlan` load. `CreatePlan` is the INSERT of a missing plan, which waits for
another that is not committed and then meets the unique user. `DeleteItems`, `TouchPlan`,
`InsertItems` are the statements of `upsert_plan` in the order the flushes send them.
What PostgreSQL does is modelled with the locks the statements take: a DELETE waits for
a session that deleted one of its rows and passes over rows that are gone, the UPDATE of
the plan row waits for another, an INSERT on a taken place waits for the session
deleting the row there and fails if it stays. `BreakDeadlock` is the deadlock detector: the
order "delete items, update plan, insert items" lets two overlapping PUTs wait
for each other when a third came between them. `Lose` is a lost connection.

* `PlanIsOnePut`: the stored plan is the whole list of one PUT, or empty.
* `AlonePutTakesEffect`: a request nothing overlaps does not fail and leaves its list. The
  exception in the statement is real: an empty list that is overlapped answers with
  success and can leave the other's items.
* `RequestsEnd`: liveness. `TypeOK` is only proved, not checked by a run.
* `ReadableAsStored`: what is stored passes the validators again, which run on every read,
  and is left by them as it is.
* `DecidedStays`: further snapshots settle what was unknown and reverse no verdict; only a
  missing time frame that was required may turn up.
* `DirectionsMirror`: a short position is judged as the long one that mirrors it.

### Review and TradeRequests

`Review.tla` holds what the review engine makes of a draft of the model. A text is known
by whether a forbidden phrase can be read in it (`Texts`), because that is what the code
decides on: `hidden` is one that only `_plain_text` brings out. `TradeRequests.tla` models
all requests about one position, beside reconstructions that replace it.

| variable | code |
|---|---|
| `version` | the row of the position; a reconstruction commits the next one |
| `metadata`, `ready`, `reviews`, `questions` | its rows in `position_trade_metadata`, `indicator_snapshots`, `ai_trade_reviews`, `ai_trade_questions`; the cascade takes them away |
| `plan`, `configured` | the active rules, and whether an OpenAI key is set |
| `request`, `pc` | what each request has read, and where it is or how it ended |
| `loop` | the coroutine that runs |
| `disturbed` | history: another request or a reconstruction overlapped it |

`Begin` is the look-up of the route. `StopOrdersArrive`, `LoadMetadata`, `WriteMetadata`,
`Refresh` are `sync_stop_loss_from_mexc` after its await (and, from `WriteMetadata` on, the
PUT, which runs in the thread pool); `ReadPosition`, `ReadRules`, `ModelReplies`, `ModelAnswers`,
`Save`, `Saved` are the review and the question; `CandlesArrive`, `CalculateSnapshots` are
the end of the snapshot route. `Reconstruct` is the commit of a reconstruction. The ends
are the answers: `missing` is a 404, `not_ready` and `not_configured` are refusals, `upstream`
is a 502, `conflict` is an integrity error or a row that is gone, `crashed` an exception
nothing catches (a failure of the model while it answers a question), `lost` a failing database.

`Written` keeps a detail the properties turn on: an INSERT has all columns, an UPDATE only
those that differ from what the session loaded. So a PUT of an unchanged value leaves
what another request wrote meanwhile, and two overlapping PUTs may leave columns of both.

* `AloneTakesEffect`: a request nothing overlaps meets no constraint, and its write
  leaves just the metadata it was given.
* `NotesStay`: only a PUT that carries them changes the notes of a position that stays.
* `ReviewSound`: a stored review judges the rules its request read, each once and in order.
  What it calls followed is exactly what the reply that this request accepted says of these
  rules: a review keeps, as history, the `reply` it was made from. The score is the share that
  was followed, rounded down, 100 only for all of them and none without rules; the lines name
  just the others; nothing in it reads as a forbidden phrase.
* `RequestsEnd`: liveness, with the attempts at the model bounded.

Left open by the code and by the properties: an answer to a question is not checked again
after `_plain_text`, so a phrase that markup hid is stored (`Answer`). The `_fallback_*` and
`_rule_only_*` helpers of the review engine are called by nothing and not modelled.

### Runs

The runs of `MCBasketSync.tla`. An overlap of 1 tick and a listing delay of 1 tick
is the tightest case in which the overlap is enough; a lookback of 3 ticks
covers the whole modelled time.

| run | instance | shows |
|---|---|---|
| `edits` | 1 item, 2 sessions that begin once each, 2 edits, 1 restart, 1 outage, 2 deals, 4 instants | gaps, cursors, running marks, rebuilds and mutual exclusion under edits (two are needed to remove an item and add it again), takeovers, failures, an outage of the database and a restart (after which the other session still begins) |
| `baskets` | 2 items of one user and 1 of another, a tick and a manual sync, 1 edit, 1 outage | failures stay with their item, with rows that were loaded long before they are used |
| `live` | 1 item, a tick that begins again and again, 1 restart, 1 outage | sessions end, an item recovers that either of them abandoned |
| `history` | 1 item, 1 deal, 3 instants | **violated** `HistoryImported` |
| `double` | 2 items in a basket, nothing becomes stale | **violated** `OneSyncPerItem` |

The run of `MCLedger.tla`, which explores `Dashboard`, `LedgerReference` and `Ledger` at once:

| run | instance | shows |
|---|---|---|
| `ledger` | every sequence of at most 4 out of 18 deals (two directions, closes that are exact, partial, excessive or without an entry, volumes that are zero or negative, fees of both signs, an undocumented side, two instants), and every sequence of at most 6 deals of one direction with volumes 1 to 3 | all properties of `Ledger`, the references, the dashboard and the refinement; six deals are enough to enter twice, close, overshoot, enter again and overshoot again |

The runs of `Rebuilding.tla`, which needs no MC module:

| run | instance | shows |
|---|---|---|
| `overlap` | 3 threads that reconstruct up to twice, 2 deals | the safety properties and `RebuildsEnd`; three threads are needed for a DELETE that waits for one transaction while a third commits |
| `doubled` | 2 threads, once each, 1 deal | **violated** `NoDuplicates` |

The runs of the other modules:

| run | instance | shows |
|---|---|---|
| `plan`, `MCTradingPlan.tla` | 2 sessions, 3 PUTs, 4 lists that are accepted and 6 that are refused, 8 positions in context | lists never mix, every request ends, and the evaluation properties for every list that gets stored; three PUTs are what a deadlock needs: one list to be replaced and two that replace it |
| `trades`, `MCTradeRequests.tla` | 2 requests of any kind, 1 reconstruction, 3 plans, 7 replies of the model | the metadata, review and liveness properties; the replies have fewer and more results than there are rules, and hidden and open phrases |
| `market`, `MCMarket.tla` | 2 requests, 2 time frames, 3 positions off the grid, segments of 3 candles, 2 instants, 18 charts of 6 candles | windows and the values of every indicator; windows of 2 and 3 candles make every one of them appear and change |
| `fetch`, `MCMexcReads.tla` | 2 requests, 5 deals and 8 stop orders listed over 5 instants, pages of 2, 3 attempts, 3 positions | pages that shift while they are read and attempts that fail |

The bounds are enough for the cases the properties are about: a gap needs two
successive windows and a deal older than the delay (3 instants); an inversion
needs two sessions in one item; a stale view needs a second item that is walked after an
await; a takeover needs one session whose limit is 1 tick; a shifted page needs one page
read, one item listed and one page to read; a missing candle needs two segments.
Deadlock is not checked because all runs stop at their bounds; a walk over deals also
really ends. `market` and `fetch` use the symmetry of their requests, which are alike
there, and check invariants only; `baskets` uses that of the two items of the first user
(`SameBasket`), which start in every order, and checks an action property that speaks of all
items alike. Elsewhere sessions differ or liveness is checked. `ReviewSound` compares
the score with the quotient rounded down, which is what the truncated float product of the
code is for plans of fewer than 50 rules (`PlanAssumption`; of 50 rules, 29 followed give 57).

### What the violated properties show

* `history`: a fetch fails, `last_sync_end_time_ms` moves to the end of the failed
  window all the same (`app/services/crypto_basket_service.py:233`), and the next
  window starts 60 seconds before that. `NoSilentGap` is the strongest
  statement that holds: the loss is at least visible as a failed run.
* `double`: a session loads the basket, works on the first item, and meanwhile
  another session starts the second one; back from the await, the first session
  looks at its loaded row (still idle) and starts the second item too (line 162).
* `doubled`: two reconstructions begin before either commits; the DELETE of each sees
  only the old rows, and both insert every position
  (`app/services/position_reconstructor.py:112`). The copies stay, with statistics and
  reviews counting them twice, until a reconstruction runs alone (`AloneRepairs`).

### Fairness

In `BasketSync`: `Walk(w)` is weakly fair: nothing else runs in the loop while a session walks. The
steps of an item and the start of a tick are strongly fair: the event loop resumes
coroutines in the order their awaits end, so one that is ready again and again is
resumed, and the HTTP client has a timeout. `Tick` is strongly fair because code
between two awaits is finite. Manual syncs, edits, deals, restarts and outages have no
fairness, and there are finitely many restarts and outages (`MaxCrashes`, `MaxOutages`): a
database that fails again and again may keep any item from recovering. `StaleItemRecovers` needs
a scheduler with no bound on its ticks (`Endless`), otherwise it could hold because the ticks run out.

In `Rebuilding`: `Step(w)` is weakly fair: a statement that can run is run, and a lock
that nobody holds any more is granted. Beginnings and failures have no fairness.

In `TradingPlan`: `Step(s)` is weakly fair for the same reason; a circle of waits is broken
by the database, whose `deadlock_timeout` is finite. In `TradeRequests`: `Step(s)` is strongly
fair: MEXC and the model answer or the client times out, and the event loop, which other
coroutines may hold again and again, resumes each whose await is over. Beginnings,
reconstructions and failures have no fairness. `Candles` and `MexcReads` are checked for
safety only.

## 3. What is proved

### BasketSync

`BasketSyncProofs.tla` holds eight theorems for any sets of users, items (finite) and
sessions and any values of the bounds. They use `UserAssumption` and
`TimeAssumption`: the overlap is at least the listing delay, and the modelled time is
no longer than the lookback of a first sync.

* `TypeCorrect`: `Spec => []TypeOK`.
* `NoGap`: `Spec => []NoSilentGap`. The property is not inductive: it says nothing of
  the rows sessions have loaded and of the windows they are about to
  record. `IInv` adds both. A loaded row is numbered no higher than the row in the
  table, and as long as it is that row, its cursor leaves no gap either (`ViewOK`). A
  sync under way (`JobOK`) has everything before its window accounted for, has
  fetched what it may not miss of it, and has stored that once it is past the
  import. Most steps are *steady*: no deal is listed, no row comes or goes, nothing
  stored disappears. `SteadyStep` shows that these keep `IInv` when new cursors and new
  jobs are accounted for; edits and trades have lemmas of their own.
* `CursorRecorded`: `Spec => []CursorFromRun`, inductive with the types.
* `SuccessIsRebuilt`: `Spec => SuccessMeansRebuilt`, from `LoopOK`: a session past its
  fetch holds the event loop, so nothing is imported between its rebuild and its
  outcome.
* `NothingRunsAlone`: `Spec => []NothingLeftRunning`. Items: the mark and its run are
  committed together, and an outcome takes away the run of its own sync and the mark with it
  (`ItemsHaveRunsNext`). Runs: every way out of a sync but an outage and a restart records the
  outcome, or finds its row gone, and then no run of it is left either, for every run belongs
  to a row of the table (`RunsOfRows`, since deletion cascades); so these steps leave no
  further run behind (`SessionLeaves`, `SurroundingsLeave`), an outage at most the one of its
  session (`OutageLeaves`), a restart at most one for each session (`HeldRuns`). `LeftNext`
  counts them.
* `CursorGoesOn`: `Spec => CursorNeverMovesBack`, from `StartsLast`: a row's cursor is no
  later than its last start, and no sync under way on it has a later window than that. It needs
  of `IInv` that rows are numbered upwards, so that no sync takes a new row for its own.
* `SessionsGoOn`: `Spec => ItemsIsolated`, from the types: one look at each way a session ends,
  the failures of the try block among those that do not end it.
* `TwoSyncsKeepApart`: `Spec => []OneSyncPerItem` for two sessions that sync one item once each
  (`TwoSyncsOfOneItem`), with any edits, restarts, outages, limits and times. The hypothesis is the
  boundary of what the code keeps: a second item in a basket already breaks it (run `double`), and so does a
  third sync. `ApartOK` says that a session that has its sync still before it knows the mark on the row
  (`KnowsMark`: it loads and walks without an await, and an edit keeps the mark or makes another
  row), and that a sync under way finds its own mark on the row as long as the other has not
  begun (`FindsMark`). So the second either skips the row or finds the first stale.

### Ledger

`LedgerProofs.tla` holds nine theorems for any set of deals, with any volumes, prices, fees
and times, and any bound on their number. They use `DealsAssumption` (deals are
records of integers, times natural) and `NoLedgerAssumption` (`None` is no ledger).

* `TypeCorrect`, `Balance`, `DealsUsedOnce`, `Succession`, `Timelines`: `TypeOK`,
  `VolumesBalance`, `EachDealOnce`, `PositionsFollow`, `LinksWithinTimeline` are invariants.
  None but the first two is inductive alone. `EachDealOnce` survives the step that moves
  links from a ledger to a position only if the links are places already taken;
  `PositionsFollow` needs that a position was closed by a deal that has been
  walked, so that the next entry is not earlier; `LinksWithinTimeline` needs the same of
  ledgers, which will be positions. `IInv` adds `LedgerOK` and `PositionOK`, both over
  `LinksOK`: the links of a direction are places of its deals, from the entry that
  opened it on. One lemma per action shows that it is preserved (`EnterStep`,
  `ExitInPartStep`, `ExitAllStep`, `FinishStep`, `SkipStep` for the three skips).
* `ImplementsBook`: `Spec => ImplementsHedgeBook`. Initial states map to initial states;
  every deal is a step `Book!Book` and the end is `Book!Settle`, given `IInv` (an open
  ledger has a positive volume, so "no ledger" and "volume zero" agree). The deal of an
  `ExitAll` reports exactly one closed position because no deal moves two directions.

* `FiguresRecomputed`: `Spec => []FiguresFromLinks`, over exact integers: of an average it is
  the sum of price times volume that is recomputed, and no rounding is part of it. `FiguresInv` adds
  that the figures of a kept ledger are the sums over its links too (`LedgerAddsUp`), and that none of its deals
  was clamped: only the last exit of a position can be, and it ends the ledger. A deal
  adds its summand to the sums of its direction (`SumAddOne`) and leaves the sums over other
  links alone (`SumSame`).
* `OpenAboveLowestNet`: `Spec => []OpenIsNetAboveLowest`. `NetInv` says it with a
  witness, the lowest net volume so far; a deal either lowers that, and then everything is
  closed, or leaves it.
* `Reconciliation`: `Spec => []DashboardReconciles`, from `FiguresInv`. The links of all
  positions are a partition of the deals that were not skipped, so sums over the deals are sums over
  positions of sums over links (`SumParts`).

### Sets, sums and places

`SetLemmas.tla` holds what several proofs need. The induction theorems of the library have
an operator as a parameter, which the provers cannot instantiate. `LeastNatural` gets
the least number of a set from the well-foundedness of `<`, which is stated without one;
`NumbersOneByOne` and `SetsOneByOne` are induction over numbers and over the subsets of
a finite set, stated with the set of those a claim holds of. From these follow the equations of
`SumFunctionOnSet` (`SumUnfolds`, `SumTakeOut`, `SumDisjoint`, `SumParts`), and that
the places of the elements of a finite set in a strict order are distinct and without a
gap (`PlacesTaken`, `RunIsFull`).

A recursive function stands for `CHOOSE f : f = [...]`, which says nothing unless there is such an
`f`. `FollowerExists` shows that there is, for any function whose value is given, or is a step from
the value at a predecessor of lower rank: below every rank there is one (`FollowersBelow`), any two
agree where both are defined (`FollowersAgree`), and so they join. `IntervalFunction` is the case of
an interval that is walked from its lower end.

### Rebuilding

`RebuildingProofs.tla` holds four theorems for any set of threads and any bounds:
`TypeCorrect` (`TypeOK`, with the fact that no two transactions hold a row in common),
`CopiesBounded` (`OneCopyPerRebuilder`), `DealsStayShown` (`NothingUnshown`) and
`AloneLeavesOne` (`AloneRepairs`). `IInv` says what a transaction under way knows:
what it removed was made from deals that it has loaded or will load (`CoversGone`); all
rows of its own thread are older than it and among the rows it saw and removes
(`OwnRows`); if nothing overlapped it, it is the only one and removes every row
(`AloneOK`). One lemma per action preserves it.

### TradingPlan

`TradingPlanProofs.tla` holds six theorems for any sessions, any lists of rules
(`PayloadsAssumption`: rules of the known types with natural sort numbers, whose keys for texts
and lists hold words), any positions, stops and snapshots (`ContextsAssumption`), any way to
normalise words (`WordsAssumption`) and any number of requests.

* `TypeCorrect` (`TypeOK`), `PlansNeverMix` (`PlanIsOnePut`), `AlonePutEffective`
  (`AlonePutTakesEffect`). Of a list that is not empty some item is in place 0
  (`FirstPlace`, which needs that a set of numbers has a least one), so an INSERT of it clashes
  with any whole list that is still there, and whole lists are equal or disjoint (`WholeMeet`). `IInv`
  says that what a session loaded is a whole list, that what it deleted and did not commit are
  all items there are, and of one session only, and that a session nothing overlaps knows
  the plan as it is (`Alone`).
* `RulesReadable`: `Spec => []ReadableAsStored`. Every stored rule is what the schema made of an
  accepted one (`StoredRule`, from `PlanIsOnePut`). The schema accepts that again
  (`ValidKept`) and changes nothing in it (`NormalTwice`), because it reads in every key what
  it read before: a list of words in their stored form (`WordsTwice`), a word in its stored form
  or the default, which is itself a stored word (`WordKept`).
* `VerdictsStay`: `Spec => []DecidedStays`, by the type of the rule: a status that looks at
  one snapshot is the same once that is known, and a set of time frames only grows.
* `DirectionsAlike`: `Spec => []DirectionsMirror`. The rule whose scope is turned applies to
  the mirrored position exactly when the rule applies to the position (`AppliesTurned`),
  the mirrored stop is as far on the other side (`StopLossAlike`), and no other status reads
  scope, direction or prices.

### Trade requests

`TradeRequestsProofs.tla` holds four theorems for any requests, plans, replies of the model and
any number of reconstructions: `TypeCorrect` (`TypeOK`), `ReviewsAreSound` (`ReviewSound`),
`NotesAreTheUsers` (`NotesStay`) and `AloneEffective` (`AloneTakesEffect`). They use
`DatabaseAssumption`, `BoundAssumption`, `DraftAssumption` (a draft is a sequence of results) and
`ScoreAssumption` and `PlanAssumption` (fewer than 50 rules). `EnforcedSound` is the lemma about
the operators: what `Enforced` makes of any accepted draft and any rules is sound with respect to
that draft, the arithmetic of the score included.
`WrittenFacts` says which columns a write changes. `IInv` adds to the types what a request knows
at each place (`Known`, `Informed`) and, for one that nothing overlaps, that it is still true
(`Alone`, `Current`).

### Pages of MEXC

`MexcReadsProofs.tla` holds two theorems for any finite sets of requests, deals and stop orders,
any positions, instants and ranges, any size of a page, any number of attempts, and both orders
in which MEXC may list. They use `ReadsAssumption`, `ListedAssumption` (items differ in their ids),
`TimeAssumption` and `OrdersAssumption`.

* `ImportsComplete`: `Spec => []ImportComplete`. Listing goes on while pages are read, so what
  a request has read says nothing by itself. `IInv` says that each item listed when it began is
  collected or has at least as many items ahead of it as the pages read have places
  (`NothingPassed`). Newly listed items only push others back (`AheadGrows`); an item that
  stays behind the page just read has a place on a later one (`NextPage`), and a short page has
  nothing behind it (`NothingBehindLast`). `Store` then leaves all of them in the table. That each
  stored deal counts for one request is the equation between the table and the counters in `IInv`.
* `StopsAreTheOpeningOnes`: `Spec => []StopIsTheOpeningOne`. The same invariant gives all
  orders of the window; the rank is a strict order of the candidates, which are finite, so the first
  exists and nothing comes before it (`FirstExists`).

### Candles

`CandlesProofs.tla` holds three theorems, for any requests, positions, time frames, widths, segment
sizes, warm-ups and charts: `WindowsAreWhole`, `SnapshotsAreSound` and `SnapshotsMirror` (`Spec =>
[]WindowWhole`, `Spec => []SnapshotSound`, `Spec => []MirrorTurns`). All use `CandlesAssumption`,
`RequestsAssumption` and `ChartsAssumption`; the last two also `LengthsAssumption` and
`NoneAssumption`, and hold for every length of the windows.

`WindowWhole` is about snapshots, which come last; `IInv` adds what leads there. A request that
fetches is at the start of some segment of its range (`AtSegment`) and has every candle due before it (`DueBefore`); once past the last
segment, it has all that are due. Every time frame it was asked for is stored or still
left (`Covered`, `Accounted`). The heart is that the exchange gives all candles of a segment:
candles that are a width apart and lie in a span of `MAX - 1` widths are at most `MAX`
(`SpacedCount`, `AllGiven`), so its limit cuts nothing off, and what is due between two segments lies
in one of them or in the crack between them that `WindowWhole` names (`DueInSegment`).
What other requests and the clock do only adds candles (`RequestStays`).

`SnapshotSound` and `MirrorTurns` are about the numbers in a snapshot. `ValuesInv`, a second invariant
on top of `IInv`, says where they come from: what MEXC gave and what the table holds are candles, and
the values of a snapshot are those of the candles beside it. The rest is about `SnapshotValues` of
any series of candles (`ValuesSound`, `ValuesMirror`):

* Quotients. `Gcd` divides both numbers (`GcdDivides`), so a quotient in lowest terms stands for exactly
  the fraction it was made of (`QuotientIs`), and arithmetic on quotients turns its sign with its
  arguments (`ArithmeticNegated`).
* Oscillators. `Filled` says of a series that it is None up to a place and from there on within 0 and
  m. RSI is (`RsiFilled`), the place of a value between the extremes of its window is
  (`StochasticWithin`, `RawFilled`), and the average of such a series is again, from as many places later
  as its window needs (`AverageFilled`); twice that gives both lines of the stochastic RSI.
* Supertrend. `Trend` satisfies its equation (`TrendUnfolds`), and the trend of all candles but the last
  is the trend of all up to there (`TrendOfPrefix`), since each state looks only back. So two
  snapshots a candle apart are one step of `Carried`, and for a step the claim is a comparison of
  integers (`LineHolds`).
* Upside down. True ranges stay and middles change their sign, so a state of the trend becomes its
  `Counter`: bands swapped and negated, direction turned. The first state does unless its close is
  in the middle, and `Carried` keeps it so (`SeedTurned`, `CarriedTurned`). The averages of the
  MACD are negated all along (`SmoothedNegated`, `EmaNegated`), so its sign turns, and with both the
  label (`LabelTurned`). Shadows change places and bodies stay, which turns the patterns
  (`PatternsTurned`).

### Only model-checked

The liveness properties, with the fairness of section 2: they are out of the prover's reach. Every
invariant and action property of the passing runs is a theorem.

Every inductive invariant was checked with TLC before it was proved: `IInv`, `LoopOK`,
`RunsOfRows`, `StartsLast` and `ApartOK` of BasketSync on the instances of `edits` and `baskets` (`ApartOK` on `edits`), `IInv`,
`FiguresInv` and `NetInv` of the ledger on `ledger`, `IInv` of MexcReads on `fetch`, `IInv` and `ValuesInv`
of Candles on `market`.

## 4. Plan

Done: `BasketSync`, `Ledger` with `HedgeBook` and `LedgerReference`, `Dashboard`, `Rebuilding`,
`MexcReads`, `Candles` with `Indicators`, `TradingPlan` with `PlanEvaluation`, `TradeRequests` with
`Review`, and the theorems of section 3. Left, in this order:

1. `History` - the abstract promise of the sync (a set of stored deals that only
   grows, and a frontier below which nothing is lost unseen), implemented by
   `BasketSync` through a refinement mapping, proved step by step.
2. `BasketUpsert` - creation on read and concurrent edits of one basket. `TradingPlan` has
   the same statements and locks; what differs is that a basket keeps the rows of
   symbols that stay.

## 5. Not modelled

HTTP, signing and parsing in the client; rounding of `Decimal` and of columns; prompts and
the wording and layout of texts; the lists, filters and rankings that only read
(positions, statistics, timeline metrics, indicator summary, readiness); users,
credentials and settings; migrations; rendering and drafts of forms in the frontend; and
deployments with more than one server process (threads and sessions of one process are
modelled in `Rebuilding`, `TradingPlan` and `TradeRequests`).

Three details differ from the code where no property can tell:

* `Normalised` of `PlanEvaluation` stores every list and text of a configuration in its canonical
  form, `app/schemas/trading_plan.py:93` only those that belong to the type of the rule; the others
  are read by nothing.
* `Canonical` strips a word and changes its case in one. `CompareText` therefore ignores the case in
  a list, where `app/services/trading_plan_service.py:674` only strips; the properties compare verdicts
  by one and the same list.
* `WriteOutcome` of `BasketSync` always writes the cursor, the flush only when it differs from the
  loaded one, which is the end of the window only if two syncs of an item begin at the same instant.
