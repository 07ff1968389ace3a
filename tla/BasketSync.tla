----------------------------- MODULE BasketSync -----------------------------
(***************************************************************************)
(* The crypto-basket sync of the backend.  Every user keeps a basket of    *)
(* symbols; a sync session (the request of a user, or a tick of the        *)
(* scheduler) walks the enabled items of one or of all baskets and, for    *)
(* each of them, fetches the order deals of a time window from the         *)
(* exchange, stores them, rebuilds the positions of the symbol and records *)
(* the outcome on the item and on a run row.                               *)
(*                                                                         *)
(* Two kinds of concurrency meet here.  Sessions are coroutines of one     *)
(* event loop: between two awaits a session runs alone among the sessions  *)
(* (it holds "loop").  Edits of a basket and explicit reconstructions run  *)
(* in the thread pool, so they fall between any two transactions of a      *)
(* session.  One action below is one database transaction.                 *)
(*                                                                         *)
(* Time is counted in ticks and a deal is known by its timestamp.  An      *)
(* element of Items stands for a (user, symbol) pair, which has at most    *)
(* one row (uq_crypto_basket_items_basket_symbol).                         *)
(***************************************************************************)
EXTENDS Integers, FiniteSets

CONSTANTS
  Users,       \* owners of baskets
  Items,       \* (user, symbol) pairs that may be in a basket
  UserOf,      \* UserOf[i]: the owner of item i
  Sessions,    \* the sync sessions that may be alive at once
  Schedulers,  \* those of them that are ticks of CryptoBasketScheduler
  Stale,       \* Stale[w]: running_stale_seconds of session w
  Overlap,     \* INCREMENTAL_SYNC_OVERLAP_MS
  Lookback,    \* INITIAL_SYNC_LOOKBACK_DAYS
  Lag,         \* the exchange lists a deal at most this long after its timestamp
  MaxTime,     \* bound: last tick
  MaxDeals,    \* bound: deals per item
  MaxSyncs,    \* bound: how often each session may begin
  Endless,     \* sessions the bound MaxSyncs leaves out: they begin again and again
  MaxEdits,    \* bound: edits of baskets
  MaxCrashes,  \* bound: restarts of the process
  MaxOutages,  \* bound: failures of the database outside the try block of a sync
  Free         \* the event loop runs no session

ASSUME UserAssumption ==
  /\ UserOf \in [Items -> Users]
  /\ IsFiniteSet(Items) /\ IsFiniteSet(Sessions)
  /\ Schedulers \subseteq Sessions
  /\ Endless \subseteq Sessions
  /\ Free \notin Sessions

\* The bounds on time: the model covers less than the lookback of a first sync.
ASSUME TimeAssumption ==
  /\ MaxTime \in Nat /\ Lag \in Nat /\ Overlap \in Nat /\ Lookback \in Nat
  /\ Stale \in [Sessions -> Nat]
  /\ MaxDeals \in Nat /\ MaxSyncs \in Nat /\ MaxEdits \in Nat /\ MaxCrashes \in Nat
  /\ MaxOutages \in Nat
  /\ Lookback >= MaxTime
  /\ Lag <= Overlap

VARIABLES
  clock,      \* utc_now()
  traded,     \* traded[i]: timestamps of the deals the exchange lists
  imported,   \* imported[i]: raw_mexc_order_deals
  positions,  \* positions[i]: the raw deals the stored positions were built from
  row,        \* row[i]: crypto_basket_items
  runs,       \* crypto_basket_sync_runs
  loop,       \* the session the event loop is running, or Free
  pc,         \* pc[w]: where session w is
  baskets,    \* baskets[w]: users whose basket w has still to enter
  todo,       \* todo[w]: items of the current basket still to walk
  view,       \* view[w]: the item rows as the ORM session of w loaded them
  expired,    \* expired[w]: items whose loaded state a rollback has expired
  job,        \* job[w]: the item being synced by w
  begun,      \* begun[w]: how often session w has begun
  edits,      \* number of basket edits so far
  crashes,    \* number of process restarts so far
  outages     \* number of failures of the database outside the try block so far

world == <<traded, imported, positions>>
session == <<pc, baskets, todo, view, expired, job>>
bounds == <<begun, edits, crashes, outages>>
vars == <<clock, world, row, runs, loop, session, bounds>>

Time == 0 .. MaxTime
NoTime == -1      \* a null timestamp column

Status == {"idle", "running", "success", "error"}

ItemRow ==
  [there: BOOLEAN, id: Nat, pos: Nat, enabled: BOOLEAN, status: Status,
   started: Time \cup {NoTime}, cursor: Time \cup {NoTime}]

\* crypto_basket_sync_runs as the set of its distinguishable rows.
Run ==
  [item: Items, id: Nat, by: Sessions, start: Int, end: Time,
   status: {"running", "success", "error", "skipped"}]

Job == [item: Items, id: Nat, start: Int, end: Time, got: SUBSET Time]
NoJob == [item |-> "none"]

Places == {"idle", "walk", "fetch", "import", "rebuild", "finish", "failed"}

\* The column defaults of a new item; number "id" tells it from its predecessors.
NewItem(id, pos, on) ==
  [there |-> TRUE, id |-> id, pos |-> pos, enabled |-> on, status |-> "idle",
   started |-> NoTime, cursor |-> NoTime]

NoItem(id) == [NewItem(id, 0, FALSE) EXCEPT !.there = FALSE]

ItemsOf(u) == {i \in Items : UserOf[i] = u}

\* Mutant: the row is looked up by its symbol, not by its number.
CurrentBySymbol(i, id) == row[i].there

\* The row that was loaded as number "id" is still in the table.
Current(i, id) == row[i].there /\ row[i].id = id

InFlight(w) == pc[w] \in {"fetch", "import", "rebuild", "finish", "failed"}

-----------------------------------------------------------------------------
(* The decisions of _sync_item.                                            *)

\* Mutant: windows are joined without overlap.
SyncStartAtCursor(item, now) ==
  IF item.cursor = NoTime THEN now - Lookback ELSE item.cursor

SyncStart(item, now) ==
  IF item.cursor = NoTime THEN now - Lookback
  ELSE IF item.cursor < Overlap THEN 0 ELSE item.cursor - Overlap

\* Mutant: the guard against a second sync is dropped.
NeverRunning(w, item, now) == FALSE

\* Mutant: a running item is never stale.
RunningForever(w, item, now) == item.status = "running" /\ item.started # NoTime

RunningAndFresh(w, item, now) ==
  /\ item.status = "running"
  /\ item.started # NoTime
  /\ now - item.started < Stale[w]

NewRun(w, i, id, start, status) ==
  [item |-> i, id |-> id, by |-> w, start |-> start, end |-> clock, status |-> status]

RunOf(w, status) ==
  [item |-> job[w].item, id |-> job[w].id, by |-> w,
   start |-> job[w].start, end |-> job[w].end, status |-> status]

\* What session w reads for item i: the loaded row, or a reload of an expired one.
Seen(w, i) == IF i \in expired[w] THEN row[i] ELSE view[w][i]

\* sorted(basket.items, key=sort_order)
IsNext(w, i) ==
  /\ i \in todo[w]
  /\ \A j \in todo[w] : view[w][i].pos <= view[w][j].pos

\* Mutant: a session that ends keeps the sync it was at.
EndSessionWithJob(w) ==
  /\ pc' = [pc EXCEPT ![w] = "idle"]
  /\ baskets' = [baskets EXCEPT ![w] = {}]
  /\ todo' = [todo EXCEPT ![w] = {}]
  /\ view' = [view EXCEPT ![w] = [i \in Items |-> NoItem(0)]]
  /\ expired' = [expired EXCEPT ![w] = {}]
  /\ loop' = Free
  /\ UNCHANGED job

EndSession(w) ==
  /\ pc' = [pc EXCEPT ![w] = "idle"]
  /\ baskets' = [baskets EXCEPT ![w] = {}]
  /\ todo' = [todo EXCEPT ![w] = {}]
  /\ view' = [view EXCEPT ![w] = [i \in Items |-> NoItem(0)]]
  /\ expired' = [expired EXCEPT ![w] = {}]
  /\ job' = [job EXCEPT ![w] = NoJob]
  /\ loop' = Free

\* The session goes on to place "p" with nothing else of it changed.
GoTo(w, p) ==
  /\ pc' = [pc EXCEPT ![w] = p]
  /\ UNCHANGED <<baskets, todo, view, expired, job>>

\* The bound on the number of sessions.
MayBegin(w) ==
  IF w \in Endless THEN UNCHANGED begun
  ELSE begun[w] < MaxSyncs /\ begun' = [begun EXCEPT ![w] = @ + 1]

-----------------------------------------------------------------------------
Init ==
  /\ clock = 0
  /\ traded = [i \in Items |-> {}]
  /\ imported = [i \in Items |-> {}]
  /\ positions = [i \in Items |-> {}]
  /\ \E order \in [Items -> 0 .. Cardinality(Items) - 1] :
       /\ \A i, j \in Items : order[i] = order[j] => i = j
       /\ row = [i \in Items |-> NewItem(0, order[i], TRUE)]
  /\ runs = {}
  /\ loop = Free
  /\ pc = [w \in Sessions |-> "idle"]
  /\ baskets = [w \in Sessions |-> {}]
  /\ todo = [w \in Sessions |-> {}]
  /\ view = [w \in Sessions |-> [i \in Items |-> NoItem(0)]]
  /\ expired = [w \in Sessions |-> {}]
  /\ job = [w \in Sessions |-> NoJob]
  /\ begun = [w \in Sessions |-> 0]
  /\ edits = 0
  /\ crashes = 0
  /\ outages = 0

\* sync_basket: a user asks for a sync of their basket; it is loaded once.
SyncBasket(w, u) ==
  /\ w \notin Schedulers
  /\ pc[w] = "idle" /\ loop = Free
  /\ MayBegin(w)
  /\ loop' = w
  /\ pc' = [pc EXCEPT ![w] = "walk"]
  /\ baskets' = [baskets EXCEPT ![w] = {u}]
  /\ view' = [view EXCEPT ![w] = row]
  /\ UNCHANGED <<clock, world, row, runs, todo, expired, job, edits, crashes, outages>>

\* run_once, sync_all_baskets: a tick loads all baskets that have an enabled item.  The
\* sleep between two ticks is not modelled: a tick may begin any time after the last.
SyncAllBaskets(w) ==
  LET due == {u \in Users : \E i \in ItemsOf(u) : row[i].there /\ row[i].enabled}
  IN
  /\ w \in Schedulers
  /\ pc[w] = "idle" /\ loop = Free
  /\ MayBegin(w)
  /\ due # {}
  /\ loop' = w
  /\ pc' = [pc EXCEPT ![w] = "walk"]
  /\ baskets' = [baskets EXCEPT ![w] = due]
  /\ view' = [view EXCEPT ![w] = row]
  /\ UNCHANGED <<clock, world, row, runs, todo, expired, job, edits, crashes, outages>>

\* _load_basket of the next user: rows in the identity map keep their loaded state,
\* unless a rollback has expired them.
EnterBasket(w, u) ==
  LET loaded == [i \in Items |->
                   IF i \in ItemsOf(u) \cap expired[w] THEN row[i] ELSE view[w][i]]
  IN
  /\ loop = w /\ pc[w] = "walk"
  /\ todo[w] = {} /\ u \in baskets[w]
  /\ view' = [view EXCEPT ![w] = loaded]
  /\ expired' = [expired EXCEPT ![w] = @ \ ItemsOf(u)]
  /\ todo' = [todo EXCEPT ![w] = {i \in ItemsOf(u) : loaded[i].there}]
  /\ baskets' = [baskets EXCEPT ![w] = @ \ {u}]
  /\ UNCHANGED <<clock, world, row, runs, loop, pc, job, bounds>>

EndSync(w) ==
  /\ loop = w /\ pc[w] = "walk"
  /\ todo[w] = {} /\ baskets[w] = {}
  /\ EndSession(w)
  /\ UNCHANGED <<clock, world, row, runs, bounds>>

\* if not item.enabled: continue
SkipDisabled(w, i) ==
  /\ loop = w /\ pc[w] = "walk" /\ IsNext(w, i)
  /\ i \in expired[w] => Current(i, view[w][i].id)
  /\ ~Seen(w, i).enabled
  /\ todo' = [todo EXCEPT ![w] = @ \ {i}]
  /\ UNCHANGED <<clock, world, row, runs, loop, pc, baskets, view, expired, job,
                 bounds>>

\* Mutant: a session waits for a running item instead of skipping it.
WaitForRunning(w, i) ==
  /\ loop = w /\ pc[w] = "walk" /\ IsNext(w, i)
  /\ Current(i, view[w][i].id)
  /\ Seen(w, i).enabled
  /\ RunningAndFresh(w, Seen(w, i), clock)
  /\ UNCHANGED vars

\* A fresh running item gets a "skipped" run row.
WriteSkipped(w, i) ==
  /\ loop = w /\ pc[w] = "walk" /\ IsNext(w, i)
  /\ Current(i, view[w][i].id)
  /\ Seen(w, i).enabled
  /\ RunningAndFresh(w, Seen(w, i), clock)
  /\ runs' = runs \cup
       {NewRun(w, i, view[w][i].id, SyncStart(Seen(w, i), clock), "skipped")}
  /\ UNCHANGED row

SkipRunning(w, i) ==
  /\ WriteSkipped(w, i)
  /\ todo' = [todo EXCEPT ![w] = @ \ {i}]
  /\ UNCHANGED <<clock, world, loop, pc, baskets, view, expired, job, bounds>>

\* Mutant: last_sync_started_at is set once.
MarkedOnce(stored, loaded) ==
  [stored EXCEPT !.status = "running",
                 !.started = IF loaded.started = NoTime THEN clock ELSE loaded.started]

\* The flush writes a column only when its value differs from the loaded one: taking over
\* an item that was loaded as running leaves sync_status as it is in the table.
Marked(stored, loaded) ==
  [stored EXCEPT !.status = IF loaded.status = "running" THEN stored.status ELSE "running",
                 !.started = clock]

\* An item that is not skipped: it is marked running and a run row is inserted.
WriteRunning(w, i) ==
  /\ loop = w /\ pc[w] = "walk" /\ IsNext(w, i)
  /\ Current(i, view[w][i].id)
  /\ Seen(w, i).enabled
  /\ ~RunningAndFresh(w, Seen(w, i), clock)
  /\ row' = [row EXCEPT ![i] = Marked(@, Seen(w, i))]
  /\ runs' = runs \cup
       {NewRun(w, i, view[w][i].id, SyncStart(Seen(w, i), clock), "running")}

\* The mark and the run row are committed, and the session awaits the exchange.
StartItem(w, i) ==
  LET start == SyncStart(Seen(w, i), clock)
  IN
  /\ WriteRunning(w, i)
  /\ job' = [job EXCEPT ![w] =
       [item |-> i, id |-> view[w][i].id, start |-> start, end |-> clock,
        got |-> {t \in traded[i] : start <= t /\ t <= clock}]]
  /\ todo' = [todo EXCEPT ![w] = @ \ {i}]
  /\ pc' = [pc EXCEPT ![w] = "fetch"]
  /\ loop' = Free
  /\ UNCHANGED <<clock, world, baskets, view, expired, bounds>>

\* The row is gone: reloading it, updating it or referring to it fails, outside the
\* try block, and the exception ends the session.
WalkAborts(w, i) ==
  /\ loop = w /\ pc[w] = "walk" /\ IsNext(w, i)
  /\ ~Current(i, view[w][i].id)
  /\ i \in expired[w] \/ view[w][i].enabled
  /\ EndSession(w)
  /\ UNCHANGED <<clock, world, row, runs, bounds>>

-----------------------------------------------------------------------------
(* The try block of _sync_item.                                            *)

\* The pages hold what was listed when the first was asked for, and any part of what
\* was listed since.
FetchDone(w) ==
  LET j == job[w]
      listed == {t \in traded[j.item] : j.start <= t /\ t <= j.end}
  IN
  /\ pc[w] = "fetch" /\ loop = Free
  /\ \E late \in SUBSET (listed \ j.got) :
       job' = [job EXCEPT ![w].got = @ \cup late]
  /\ pc' = [pc EXCEPT ![w] = "import"]
  /\ loop' = w
  /\ UNCHANGED <<clock, world, row, runs, baskets, todo, view, expired, bounds>>

\* Mutants: the exception is not caught.
FetchRaises(w) ==
  /\ pc[w] = "fetch" /\ loop = Free
  /\ EndSession(w)
  /\ UNCHANGED <<clock, world, row, runs, bounds>>

ImportRaises(w) ==
  /\ pc[w] = "import" /\ loop = w
  /\ EndSession(w)
  /\ UNCHANGED <<clock, world, row, runs, bounds>>

\* All retries used up, a status that is not retried, or a malformed answer.  No transaction
\* is open during the fetch, so the rollback of the handler expires nothing.
FetchFails(w) ==
  /\ pc[w] = "fetch" /\ loop = Free
  /\ loop' = w
  /\ GoTo(w, "failed")
  /\ UNCHANGED <<clock, world, row, runs, bounds>>

\* One transaction inserts the deals that are not stored yet.
ImportDeals(w) ==
  /\ pc[w] = "import" /\ loop = w
  /\ imported' = [imported EXCEPT ![job[w].item] = @ \cup job[w].got]
  /\ GoTo(w, "rebuild")
  /\ UNCHANGED <<clock, traded, positions, row, runs, loop, bounds>>

\* The transaction fails (with self.db.begin()): its rollback expires every object of the
\* ORM session.
RollBack(w) ==
  /\ pc' = [pc EXCEPT ![w] = "failed"]
  /\ expired' = [expired EXCEPT ![w] = Items]
  /\ UNCHANGED <<baskets, todo, view, job>>

\* A deal that cannot be normalised, or the database, fails the transaction; the deals are
\* stored nevertheless if only the answer to the commit was lost.
ImportFails(w) ==
  /\ pc[w] = "import" /\ loop = w
  /\ imported' \in {imported, [imported EXCEPT ![job[w].item] = @ \cup job[w].got]}
  /\ RollBack(w)
  /\ UNCHANGED <<clock, traded, positions, row, runs, loop, bounds>>

\* Mutant: nothing is rebuilt when the window held no deal.
RebuildWhenFetched(w) ==
  /\ pc[w] = "rebuild" /\ loop = w
  /\ positions' = IF job[w].got = {} THEN positions
                  ELSE [positions EXCEPT ![job[w].item] = imported[job[w].item]]
  /\ GoTo(w, "finish")
  /\ UNCHANGED <<clock, traded, imported, row, runs, loop, bounds>>

\* One transaction deletes the positions and builds them from the stored deals.
Rebuild(w) ==
  /\ pc[w] = "rebuild" /\ loop = w
  /\ positions' = [positions EXCEPT ![job[w].item] = imported[job[w].item]]
  /\ GoTo(w, "finish")
  /\ UNCHANGED <<clock, traded, imported, row, runs, loop, bounds>>

RebuildFails(w) ==
  /\ pc[w] = "rebuild" /\ loop = w
  /\ positions' \in {positions, [positions EXCEPT ![job[w].item] = imported[job[w].item]]}
  /\ RollBack(w)
  /\ UNCHANGED <<clock, traded, imported, row, runs, loop, bounds>>

-----------------------------------------------------------------------------
(* The outcome.                                                            *)

\* Item and run row get the outcome in one commit; the cursor moves to the end of the
\* window, whatever the outcome was.
WriteOutcome(w, status) ==
  /\ row' = [row EXCEPT ![job[w].item].status = status,
                        ![job[w].item].cursor = job[w].end]
  /\ runs' = (runs \ {RunOf(w, "running")}) \cup {RunOf(w, status)}

RecordSuccess(w) ==
  /\ pc[w] = "finish" /\ loop = w
  /\ Current(job[w].item, job[w].id)
  /\ WriteOutcome(w, "success")
  /\ pc' = [pc EXCEPT ![w] = "walk"]
  /\ job' = [job EXCEPT ![w] = NoJob]
  /\ UNCHANGED <<clock, world, loop, baskets, todo, view, expired, bounds>>

RecordError(w) ==
  /\ pc[w] = "failed" /\ loop = w
  /\ Current(job[w].item, job[w].id)
  /\ WriteOutcome(w, "error")
  /\ pc' = [pc EXCEPT ![w] = "walk"]
  /\ job' = [job EXCEPT ![w] = NoJob]
  /\ UNCHANGED <<clock, world, loop, baskets, todo, view, expired, bounds>>

\* The item was deleted while it was synced: recording the outcome raises.
RecordAborts(w) ==
  /\ pc[w] \in {"finish", "failed"} /\ loop = w
  /\ ~Current(job[w].item, job[w].id)
  /\ EndSession(w)
  /\ UNCHANGED <<clock, world, row, runs, bounds>>

-----------------------------------------------------------------------------
(* The database fails outside the try block: the exception ends the walk,   *)
(* the scheduler logs it and waits for its next tick, a user gets an error. *)
(* The rest of the basket is not synced.  When it is a commit that fails,   *)
(* it may have taken place all the same, with only its answer lost.         *)

DatabaseFails(w) ==
  /\ outages < MaxOutages
  /\ outages' = outages + 1
  /\ EndSession(w)
  /\ UNCHANGED <<clock, world, begun, edits, crashes>>

\* A read of the walk fails, or a commit of it that does not take place.
WalkFails(w) ==
  /\ loop = w /\ pc[w] = "walk"
  /\ DatabaseFails(w)
  /\ UNCHANGED <<row, runs>>

\* The answer to the commit of a skipped run is lost.
SkipFails(w, i) == WriteSkipped(w, i) /\ DatabaseFails(w)

\* The answer to the commit that marks an item is lost: the mark and the run row stay.
StartFails(w, i) == WriteRunning(w, i) /\ DatabaseFails(w)

\* Reloading item and run row fails, or the commit of the outcome.
RecordFails(w) ==
  /\ pc[w] \in {"finish", "failed"} /\ loop = w
  /\ \/ UNCHANGED <<row, runs>>
     \/ /\ Current(job[w].item, job[w].id)
        /\ WriteOutcome(w, IF pc[w] = "finish" THEN "success" ELSE "error")
  /\ DatabaseFails(w)

-----------------------------------------------------------------------------
(* The surroundings.                                                       *)

\* What upsert_basket makes of the row of an item: deleted with its sync state when it is
\* not wanted, kept with it when it is, created if there was none.
EditedRow(i, wanted, pos, on) ==
  IF i \notin wanted THEN NoItem(row[i].id)
  ELSE IF row[i].there THEN [row[i] EXCEPT !.pos = pos[i], !.enabled = on[i]]
  ELSE NewItem(row[i].id + 1, pos[i], on[i])

\* PUT /crypto-basket: the runs of a deleted item go with it (ON DELETE CASCADE).
UpsertBasket(u) ==
  /\ edits < MaxEdits
  /\ edits' = edits + 1
  /\ \E wanted \in SUBSET ItemsOf(u) :
       /\ \E pos \in [wanted -> 0 .. Cardinality(wanted) - 1], on \in [wanted -> BOOLEAN] :
            /\ \A i, j \in wanted : pos[i] = pos[j] => i = j
            /\ row' = [i \in Items |->
                 IF UserOf[i] = u THEN EditedRow(i, wanted, pos, on) ELSE row[i]]
       /\ runs' = {r \in runs : UserOf[r.item] # u \/ r.item \in wanted}
  /\ UNCHANGED <<clock, world, loop, session, begun, crashes, outages>>

\* POST /trades/reconstruct, in the thread pool.
ReconstructRoute(i) ==
  /\ positions' = [positions EXCEPT ![i] = imported[i]]
  /\ UNCHANGED <<clock, traded, imported, row, runs, loop, session, bounds>>

\* The exchange lists one more deal, at most Lag after its timestamp.
Trade(i, t) ==
  /\ Cardinality(traded[i]) < MaxDeals
  /\ t \notin traded[i]
  /\ t <= clock /\ clock - Lag <= t
  /\ traded' = [traded EXCEPT ![i] = @ \cup {t}]
  /\ UNCHANGED <<clock, imported, positions, row, runs, loop, session, bounds>>

\* The code between two awaits takes less than a tick.
Tick ==
  /\ clock < MaxTime
  /\ loop = Free
  /\ clock' = clock + 1
  /\ UNCHANGED <<world, row, runs, loop, session, bounds>>

\* The process ends (shutdown cancels the sync, or it is killed) and starts again.
Restart ==
  /\ crashes < MaxCrashes
  /\ crashes' = crashes + 1
  /\ loop' = Free
  /\ pc' = [w \in Sessions |-> "idle"]
  /\ baskets' = [w \in Sessions |-> {}]
  /\ todo' = [w \in Sessions |-> {}]
  /\ view' = [w \in Sessions |-> [i \in Items |-> NoItem(0)]]
  /\ expired' = [w \in Sessions |-> {}]
  /\ job' = [w \in Sessions |-> NoJob]
  /\ UNCHANGED <<clock, world, row, runs, begun, edits, outages>>

-----------------------------------------------------------------------------
Walk(w) ==
  \/ \E u \in Users : EnterBasket(w, u)
  \/ \E i \in Items : SkipDisabled(w, i)
  \/ \E i \in Items : SkipRunning(w, i)
  \/ \E i \in Items : StartItem(w, i)
  \/ \E i \in Items : WalkAborts(w, i)
  \/ EndSync(w)

SyncItem(w) ==
  \/ FetchDone(w)
  \/ FetchFails(w)
  \/ ImportDeals(w)
  \/ ImportFails(w)
  \/ Rebuild(w)
  \/ RebuildFails(w)
  \/ RecordSuccess(w)
  \/ RecordError(w)
  \/ RecordAborts(w)

Outage(w) ==
  \/ WalkFails(w)
  \/ \E i \in Items : SkipFails(w, i)
  \/ \E i \in Items : StartFails(w, i)
  \/ RecordFails(w)

Begin(w) ==
  \/ \E u \in Users : SyncBasket(w, u)
  \/ SyncAllBaskets(w)

Surroundings ==
  \/ \E u \in Users : UpsertBasket(u)
  \/ \E i \in Items : ReconstructRoute(i)
  \/ \E i \in Items, t \in Time : Trade(i, t)
  \/ Tick
  \/ Restart

Next ==
  \/ \E w \in Sessions : Begin(w) \/ Walk(w) \/ SyncItem(w) \/ Outage(w)
  \/ Surroundings

Spec == Init /\ [][Next]_vars
-----------------------------------------------------------------------------
(* Properties.                                                             *)

\* Every variable stays within its columns and its program points.
TypeOK ==
  /\ clock \in Time
  /\ traded \in [Items -> SUBSET Time]
  /\ imported \in [Items -> SUBSET Time]
  /\ positions \in [Items -> SUBSET Time]
  /\ row \in [Items -> ItemRow]
  /\ runs \subseteq Run
  /\ loop \in Sessions \cup {Free}
  /\ pc \in [Sessions -> Places]
  /\ baskets \in [Sessions -> SUBSET Users]
  /\ todo \in [Sessions -> SUBSET Items]
  /\ view \in [Sessions -> [Items -> ItemRow]]
  /\ expired \in [Sessions -> SUBSET Items]
  /\ job \in [Sessions -> Job \cup {NoJob}]
  /\ \A w \in Sessions : InFlight(w) <=> job[w] # NoJob
  /\ begun \in [Sessions -> 0 .. MaxSyncs]
  /\ edits \in 0 .. MaxEdits
  /\ crashes \in 0 .. MaxCrashes
  /\ outages \in 0 .. MaxOutages

\* A recorded failure names the deal's time, so the history shows that it may be missing.
InFailedRun(i, t) ==
  \E r \in runs : /\ r.item = i /\ r.id = row[i].id /\ r.status = "error"
                  /\ r.start <= t /\ t <= r.end

\* The cursor of an item has passed every deal it can still miss for being listed late.
Passed(i, t) == row[i].there /\ t + Lag < row[i].cursor

Accounted(i, t) == t \in imported[i] \/ InFailedRun(i, t)

\* Windows of successive syncs leave no gap between them: a deal the cursor has passed is
\* stored, or lies in the window of a run recorded as failed.  This holds although two
\* syncs of an item may overlap, finish in either order, start from a cursor that is out
\* of date, or be cut off by a restart (_sync_window, the overlap).
NoSilentGap ==
  \A i \in Items : \A t \in traded[i] :
    Passed(i, t) => Accounted(i, t)

\* The class promises to import the transaction history of the basket: a deal the cursor
\* has passed is stored.
HistoryImported ==
  \A i \in Items : \A t \in traded[i] : Passed(i, t) => t \in imported[i]

\* The cursor of an item is always the end of the window of a finished run of that same
\* row: item and run commit together, and an item removed from the basket and added
\* again does not continue from the cursor of its predecessor.
CursorFromRun ==
  \A i \in Items :
    row[i].there /\ row[i].cursor # NoTime =>
      \E r \in runs : /\ r.item = i /\ r.id = row[i].id
                      /\ r.status \in {"success", "error"} /\ r.end = row[i].cursor

\* The runs in state "running" that no session is on the way to finish.
RunsLeft ==
  {r \in runs : /\ r.status = "running"
                /\ \A w \in Sessions : InFlight(w) => RunOf(w, "running") # r}

\* Whatever fails in fetch, import and rebuild is recorded: a sync leaves its run "running"
\* only when the process restarts, or when the database fails outside the try block, and
\* then this one run only.  An item that is "running" has such a run of its own row, so no
\* item stays "running" when none of its runs does.
NothingLeftRunning ==
  /\ \A i \in Items :
       row[i].there /\ row[i].status = "running" =>
         \E r \in runs : r.item = i /\ r.id = row[i].id /\ r.status = "running"
  /\ Cardinality(RunsLeft) <= outages + crashes * Cardinality(Sessions)

\* A running sync keeps others off its item until it is stale ("Sync already running."):
\* of two sessions that sync the same row, one found the other stale when it began.
OneSyncPerItem ==
  \A v, w \in Sessions :
    /\ InFlight(v) /\ InFlight(w) /\ v # w
    /\ job[v].item = job[w].item /\ job[v].id = job[w].id
    => \/ job[w].end - job[v].end >= Stale[w]
       \/ job[v].end - job[w].end >= Stale[v]

\* The cursor of an item row moves back only when the sync that records its outcome was
\* taken over: the row no longer carries the start of that sync.
CursorNeverMovesBack ==
  [][\A i \in Items :
       row[i].there /\ row'[i].there /\ row'[i].id = row[i].id /\ row'[i].cursor < row[i].cursor
         => \E w \in Sessions : /\ job'[w] # job[w] /\ job[w].item = i
                                /\ row[i].started # job[w].end]_vars

\* When a run is recorded as successful the positions of its symbol are those of all
\* stored deals, the ones stored by an earlier sync that failed later included.
SuccessMeansRebuilt ==
  [][\A r \in runs' \ runs :
       r.status = "success" => positions'[r.item] = imported'[r.item]]_runs

\* A failure of fetch, import or rebuild of one item does not keep a session from the other
\* items: it stops before the last of them only when an edit has removed the very row it is
\* at, or when the database fails outside the try block (_sync_item, _get_item).
RowRemoved(w) ==
  IF InFlight(w) THEN ~Current(job[w].item, job[w].id)
  ELSE \E i \in todo[w] : IsNext(w, i) /\ ~Current(i, view[w][i].id)
ItemsIsolated ==
  [][\A w \in Sessions :
       pc[w] # "idle" /\ pc'[w] = "idle" /\ crashes' = crashes /\ outages' = outages
         => (todo[w] = {} /\ baskets[w] = {}) \/ RowRemoved(w)]_pc

-----------------------------------------------------------------------------
(* The inductive invariant behind NoSilentGap: what a session has loaded    *)
(* and what it is about to record is as well accounted for as the rows.     *)

\* A row: its cursor is not in the future and has passed no unaccounted deal.
RowOK(i) ==
  /\ row[i].cursor <= clock
  /\ \A t \in traded[i] : Passed(i, t) => Accounted(i, t)

\* A loaded row: rows are numbered upwards, so a session cannot take a new row for the one
\* it has loaded; while that one is current, the loaded cursor leaves no gap either.
ViewOK(w, i) ==
  /\ view[w][i].id <= row[i].id
  /\ view[w][i].cursor <= clock
  /\ Current(i, view[w][i].id) =>
       \A t \in traded[i] : t + Lag < view[w][i].cursor => Accounted(i, t)

\* A sync under way: a window that starts at a cursor reaches back over the overlap; what
\* lies before the window is accounted for, and what it may not miss of the window is
\* fetched and, once imported, stored.
JobOK(w) ==
  InFlight(w) =>
    /\ job[w].id <= row[job[w].item].id
    /\ job[w].end <= clock
    /\ job[w].start <= 0 \/ job[w].start + Overlap <= job[w].end
    /\ Current(job[w].item, job[w].id) =>
         \A t \in traded[job[w].item] : t < job[w].start => Accounted(job[w].item, t)
    /\ \A t \in traded[job[w].item] :
         job[w].start <= t /\ t + Lag < job[w].end => t \in job[w].got
    /\ pc[w] \in {"rebuild", "finish"} => job[w].got \subseteq imported[job[w].item]

IInv ==
  /\ TypeOK
  /\ \A i \in Items : RowOK(i)
  /\ \A w \in Sessions, i \in Items : ViewOK(w, i)
  /\ \A w \in Sessions : JobOK(w)
  /\ \A r \in runs : r.id <= row[r.item].id

\* Behind SuccessMeansRebuilt: between two awaits a session has the event loop to itself,
\* so nothing is imported between its rebuild and the outcome it records.
LoopOK ==
  /\ \A w \in Sessions : pc[w] \notin {"idle", "fetch"} => loop = w
  /\ \A w \in Sessions :
       pc[w] = "finish" => positions[job[w].item] = imported[job[w].item]

\* Behind CursorNeverMovesBack: the last sync to begin on a row has the latest window, and
\* no window that ended later has been recorded.
StartsLast ==
  /\ \A i \in Items : row[i].cursor <= row[i].started /\ row[i].started <= clock
  /\ \A w \in Sessions :
       InFlight(w) /\ Current(job[w].item, job[w].id)
         => job[w].end <= row[job[w].item].started

\* Behind NothingLeftRunning: the runs of a row go when the row goes (ON DELETE CASCADE), so
\* a sync that finds its row gone leaves no run behind.
RunsOfRows == \A r \in runs : Current(r.item, r.id)

\* Behind OneSyncPerItem, for two sessions that sync one item once each.  A session that has
\* its sync still before it knows the mark on the row, for it walks there without an await;
\* and as long as the other has not begun, a sync under way finds its own mark on the row.
TwoSyncsOfOneItem ==
  /\ \A i, j \in Items : i = j
  /\ \A u, v, w \in Sessions : u = v \/ v = w \/ u = w
  /\ MaxSyncs = 1 /\ Endless = {}

Waiting(w) == begun[w] = 0 \/ (pc[w] = "walk" /\ (todo[w] # {} \/ baskets[w] # {}))
KnowsMark(w) ==
  /\ begun[w] = 0 => pc[w] = "idle"
  /\ pc[w] # "walk" => todo[w] = {} /\ baskets[w] = {}
  /\ todo[w] # {} => baskets[w] = {}
  /\ \A t, u \in baskets[w] : t = u
  /\ pc[w] = "walk" /\ Waiting(w) =>
       \A i \in Items : Current(i, view[w][i].id) =>
         Seen(w, i).status = row[i].status /\ Seen(w, i).started = row[i].started
FindsMark(w) ==
  InFlight(w) /\ Current(job[w].item, job[w].id) /\ (\A v \in Sessions \ {w} : Waiting(v)) =>
    row[job[w].item].status = "running" /\ row[job[w].item].started = job[w].end

ApartOK == OneSyncPerItem /\ \A w \in Sessions : KnowsMark(w) /\ FindsMark(w)

-----------------------------------------------------------------------------
(* Liveness.                                                               *)

\* The client has a timeout, so a fetch is answered or fails; the event loop resumes a
\* session whose await is over in order of arrival, so none is passed over forever;
\* the scheduler loop starts a tick again and again; time passes.
Fairness ==
  /\ \A w \in Sessions : WF_vars(Walk(w)) /\ SF_vars(SyncItem(w))
  /\ \A w \in Schedulers : SF_vars(SyncAllBaskets(w))
  /\ SF_vars(Tick)

FairSpec == Spec /\ Fairness

\* Every session comes to an end, so no request and no tick is kept waiting for ever.
SyncEnds == \A w \in Sessions : pc[w] # "idle" ~> pc[w] = "idle"

\* An item that a restart or a failure of the database left "running" is synced again once it
\* is stale, as long as it stays enabled and becomes stale within the time that is modelled.
StaleItemRecovers ==
  \A i \in Items :
    row[i].there /\ row[i].enabled /\ row[i].status = "running" ~>
      \/ ~row[i].there \/ ~row[i].enabled \/ row[i].status # "running"
      \/ \A w \in Schedulers : row[i].started + Stale[w] > MaxTime
=============================================================================
