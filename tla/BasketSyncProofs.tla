-------------------------- MODULE BasketSyncProofs --------------------------
(***************************************************************************)
(* Theorems about BasketSync for all users, items and sessions and for     *)
(* every value of the bounds: type correctness, that the windows of        *)
(* successive syncs leave no gap, where cursors come from and when they    *)
(* move back, that a success covers what is stored, that nothing is left   *)
(* running, and that failures stay with their item.                        *)
(***************************************************************************)
EXTENDS BasketSync, FiniteSetTheorems, TLAPS

-----------------------------------------------------------------------------
(* Type correctness.                                                       *)

\* The positions an edit gives to the wanted items are natural numbers.
LEMMA OrderIsNat ==
  ASSUME NEW S \in SUBSET Items, NEW order \in [S -> 0 .. Cardinality(S) - 1]
  PROVE  order \in [S -> Nat]
<1>1. Cardinality(S) \in Nat
  BY UserAssumption, FS_Subset, FS_CardinalityType
<1>2. 0 .. Cardinality(S) - 1 \subseteq Nat
  BY <1>1
<1>3. QED
  BY <1>2

\* The types hold when the process starts.
LEMMA InitTypeOK == Init => TypeOK
<1>1. SUFFICES ASSUME Init PROVE TypeOK
  OBVIOUS
<1>2. PICK order \in [Items -> 0 .. Cardinality(Items) - 1] :
        row = [i \in Items |-> NewItem(0, order[i], TRUE)]
  BY <1>1 DEF Init
<1>3. order \in [Items -> Nat]
  BY OrderIsNat
<1>4. row \in [Items -> ItemRow]
  BY <1>2, <1>3 DEF NewItem, ItemRow, Status, NoTime
<1>5. view \in [Sessions -> [Items -> ItemRow]]
  BY <1>1 DEF Init, NoItem, NewItem, ItemRow, Status, NoTime
<1>6. \A w \in Sessions : InFlight(w) <=> job[w] # NoJob
  BY <1>1 DEF Init, InFlight
<1>7. pc \in [Sessions -> Places]
  BY <1>1 DEF Init, Places
<1>8. /\ clock \in Time
      /\ begun \in [Sessions -> 0 .. MaxSyncs]
      /\ edits \in 0 .. MaxEdits
      /\ crashes \in 0 .. MaxCrashes
      /\ outages \in 0 .. MaxOutages
  BY <1>1, TimeAssumption DEF Init, Time
<1>9. /\ traded \in [Items -> SUBSET Time]
      /\ imported \in [Items -> SUBSET Time]
      /\ positions \in [Items -> SUBSET Time]
      /\ runs \subseteq Run
      /\ loop \in Sessions \cup {Free}
      /\ baskets \in [Sessions -> SUBSET Users]
      /\ todo \in [Sessions -> SUBSET Items]
      /\ expired \in [Sessions -> SUBSET Items]
      /\ job \in [Sessions -> Job \cup {NoJob}]
  BY <1>1 DEF Init
<1>10. QED
  BY <1>4, <1>5, <1>6, <1>7, <1>8, <1>9 DEF TypeOK

\* Writing columns of a row leaves a row; a new item and a deleted one are rows.
LEMMA RowMarked ==
  ASSUME NEW r \in ItemRow, NEW status \in Status, NEW t \in Time
  PROVE  [r EXCEPT !.status = status, !.started = t] \in ItemRow
  BY DEF ItemRow

\* A row with an outcome is a row.
LEMMA RowFinished ==
  ASSUME NEW r \in ItemRow, NEW status \in Status, NEW t \in Time
  PROVE  [r EXCEPT !.status = status, !.cursor = t] \in ItemRow
  BY DEF ItemRow

\* A row that an edit keeps is a row.
LEMMA RowEdited ==
  ASSUME NEW r \in ItemRow, NEW n \in Nat, NEW on \in BOOLEAN
  PROVE  [r EXCEPT !.pos = n, !.enabled = on] \in ItemRow
  BY DEF ItemRow

\* A row that an edit adds is a row.
LEMMA NewItemIsRow ==
  ASSUME NEW id \in Nat, NEW pos \in Nat, NEW on \in BOOLEAN
  PROVE  NewItem(id, pos, on) \in ItemRow
  BY DEF NewItem, ItemRow, Status, NoTime

\* The place of a row that is not there has the shape of one.
LEMMA NoItemIsRow ==
  ASSUME NEW id \in Nat
  PROVE  NoItem(id) \in ItemRow
  BY DEF NoItem, NewItem, ItemRow, Status, NoTime

\* What a session reads of an item is a row.
LEMMA SeenIsRow ==
  ASSUME TypeOK, NEW w \in Sessions, NEW i \in Items
  PROVE  /\ Seen(w, i) \in ItemRow
         /\ SyncStart(Seen(w, i), clock) \in Int
<1>1. Seen(w, i) \in ItemRow
  BY DEF TypeOK, Seen
<1>2. QED
  BY <1>1, TimeAssumption DEF TypeOK, SyncStart, ItemRow, Time, NoTime

\* The end of a session preserves the types, whatever it has written before.
LEMMA EndSessionTypeOK ==
  ASSUME TypeOK, NEW w \in Sessions, EndSession(w),
         UNCHANGED <<clock, world, begun, edits, crashes>>, outages' \in 0 .. MaxOutages,
         row' \in [Items -> ItemRow], runs' \subseteq Run
  PROVE  TypeOK'
<1>1. [i \in Items |-> NoItem(0)] \in [Items -> ItemRow]
  BY DEF NoItem, NewItem, ItemRow, Status, NoTime
<1>2. view' \in [Sessions -> [Items -> ItemRow]]
  BY <1>1 DEF EndSession, TypeOK
<1>3. QED
  BY <1>2 DEF TypeOK, EndSession, world, InFlight, Places

\* A skipped run is a run; so is one that begins, and the row it marks is a row.
LEMMA WrittenTypeOK ==
  ASSUME TypeOK, NEW w \in Sessions, NEW i \in Items, WriteSkipped(w, i) \/ WriteRunning(w, i)
  PROVE  row' \in [Items -> ItemRow] /\ runs' \subseteq Run
<1>1. ASSUME NEW status \in {"running", "skipped"}
      PROVE  NewRun(w, i, view[w][i].id, SyncStart(Seen(w, i), clock), status) \in Run
  BY SeenIsRow DEF NewRun, Run, TypeOK, ItemRow
<1>2. runs' \subseteq Run
  BY <1>1 DEF WriteSkipped, WriteRunning, TypeOK
<1>3. Marked(row[i], Seen(w, i)) \in ItemRow
  <2>1. row[i] \in ItemRow /\ clock \in Time
    BY DEF TypeOK
  <2> QED  BY <2>1, RowMarked DEF Marked, ItemRow, Status
<1>4. row' \in [Items -> ItemRow]
  BY <1>3 DEF WriteSkipped, WriteRunning, TypeOK
<1>5. QED
  BY <1>2, <1>4

\* An outcome leaves a row and a run.
LEMMA OutcomeTypeOK ==
  ASSUME TypeOK, NEW w \in Sessions, InFlight(w), NEW status \in {"success", "error"},
         WriteOutcome(w, status)
  PROVE  row' \in [Items -> ItemRow] /\ runs' \subseteq Run
<1>1. job[w] \in Job
  BY DEF TypeOK
<1>2. /\ row[job[w].item] \in ItemRow
      /\ status \in Status
      /\ job[w].end \in Time
  BY <1>1 DEF TypeOK, Job, Status
<1>3. [row[job[w].item] EXCEPT !.status = status, !.cursor = job[w].end] \in ItemRow
  BY <1>2, RowFinished
<1>4. row' \in [Items -> ItemRow]
  BY <1>1, <1>3 DEF WriteOutcome, TypeOK, Job
<1>5. runs' \subseteq Run
  BY <1>1 DEF WriteOutcome, TypeOK, Job, Run, RunOf
<1>6. QED
  BY <1>4, <1>5

\* A failure of the database preserves the types.
LEMMA OutageTypeOK ==
  ASSUME TypeOK, NEW w \in Sessions, Outage(w)
  PROVE  TypeOK'
<1>1. outages' \in 0 .. MaxOutages
  BY TimeAssumption DEF Outage, WalkFails, SkipFails, StartFails, RecordFails, DatabaseFails, TypeOK
<1>2. /\ EndSession(w)
      /\ UNCHANGED <<clock, world, begun, edits, crashes>>
  BY DEF Outage, WalkFails, SkipFails, StartFails, RecordFails, DatabaseFails
<1>3. row' \in [Items -> ItemRow] /\ runs' \subseteq Run
  <2>1. CASE UNCHANGED <<row, runs>>
    BY <2>1 DEF TypeOK
  <2>2. CASE RecordFails(w) /\ ~UNCHANGED <<row, runs>>
    BY <2>2, OutcomeTypeOK DEF RecordFails, InFlight
  <2>3. QED
    BY <2>1, <2>2, WrittenTypeOK DEF Outage, WalkFails, SkipFails, StartFails
<1>4. QED
  BY <1>1, <1>2, <1>3, EndSessionTypeOK

\* The begin of a session preserves the types.
LEMMA BeginTypeOK ==
  ASSUME TypeOK, NEW w \in Sessions, Begin(w)
  PROVE  TypeOK'
<1>1. ASSUME NEW u \in Users, SyncBasket(w, u) PROVE TypeOK'
  <2>1. begun' \in [Sessions -> 0 .. MaxSyncs]
    <3>1. begun[w] \in 0 .. MaxSyncs /\ MayBegin(w)
      BY <1>1 DEF SyncBasket, TypeOK
    <3>2. CASE begun' = begun
      BY <3>2 DEF TypeOK
    <3>3. CASE begun[w] < MaxSyncs /\ begun' = [begun EXCEPT ![w] = begun[w] + 1]
      <4>1. begun[w] + 1 \in 0 .. MaxSyncs
        BY <3>1, <3>3, TimeAssumption
      <4>2. QED
        BY <3>3, <4>1 DEF TypeOK
    <3>4. QED
      BY <3>1, <3>2, <3>3 DEF MayBegin
  <2>2. \A v \in Sessions : InFlight(v)' <=> job'[v] # NoJob
    BY <1>1 DEF SyncBasket, TypeOK, InFlight
  <2>3. QED
    BY <1>1, <2>1, <2>2 DEF SyncBasket, TypeOK, world, Places
<1>2. CASE SyncAllBaskets(w)
  <2>1. begun' \in [Sessions -> 0 .. MaxSyncs]
    BY <1>2, TimeAssumption DEF SyncAllBaskets, MayBegin, TypeOK
  <2>2. \A v \in Sessions : InFlight(v)' <=> job'[v] # NoJob
    BY <1>2 DEF SyncAllBaskets, TypeOK, InFlight
  <2>3. QED
    BY <1>2, <2>1, <2>2 DEF SyncAllBaskets, TypeOK, world, Places
<1>3. QED
  BY <1>1, <1>2 DEF Begin

\* The walk over baskets and items preserves the types.
LEMMA WalkTypeOK ==
  ASSUME TypeOK, NEW w \in Sessions, Walk(w)
  PROVE  TypeOK'
<1>1. ASSUME NEW u \in Users, EnterBasket(w, u) PROVE TypeOK'
  <2>1. [i \in Items |-> IF i \in ItemsOf(u) \cap expired[w] THEN row[i] ELSE view[w][i]]
          \in [Items -> ItemRow]
    BY DEF TypeOK
  <2>2. view' \in [Sessions -> [Items -> ItemRow]]
    BY <1>1, <2>1 DEF EnterBasket, TypeOK
  <2>3. QED
    BY <1>1, <2>2 DEF EnterBasket, TypeOK, world, bounds, InFlight, Places, ItemsOf
<1>2. ASSUME NEW i \in Items, SkipDisabled(w, i) PROVE TypeOK'
  BY <1>2 DEF SkipDisabled, TypeOK, world, bounds, InFlight, Places
<1>3. ASSUME NEW i \in Items, SkipRunning(w, i) PROVE TypeOK'
  BY <1>3, WrittenTypeOK DEF SkipRunning, TypeOK, world, bounds, InFlight, Places
<1>4. ASSUME NEW i \in Items, StartItem(w, i) PROVE TypeOK'
  <2> DEFINE start == SyncStart(Seen(w, i), clock)
  <2>1. start \in Int /\ view[w][i].id \in Nat
    BY SeenIsRow DEF TypeOK, ItemRow
  <2>2. row' \in [Items -> ItemRow] /\ runs' \subseteq Run
    BY <1>4, WrittenTypeOK DEF StartItem
  <2>3. pc[w] = "walk"
    BY <1>4 DEF StartItem, WriteRunning
  <2> DEFINE j == [item |-> i, id |-> view[w][i].id, start |-> start, end |-> clock,
                   got |-> {t \in traded[i] : start <= t /\ t <= clock}]
  <2>4. j \in Job
    BY <2>1 DEF Job, TypeOK
  <2>5. job' = [job EXCEPT ![w] = j]
    BY <1>4 DEF StartItem
  <2>6. j # NoJob
    BY DEF NoJob
  <2> HIDE DEF start, j
  <2>7. job' \in [Sessions -> Job \cup {NoJob}]
    BY <2>4, <2>5 DEF TypeOK
  <2>8. \A v \in Sessions : InFlight(v)' <=> job'[v] # NoJob
    BY <1>4, <2>3, <2>5, <2>6 DEF StartItem, TypeOK, InFlight
  <2>9. QED
    BY <1>4, <2>2, <2>7, <2>8
    DEF StartItem, TypeOK, world, bounds, Places, start
<1>5. ASSUME NEW i \in Items, WalkAborts(w, i) PROVE TypeOK'
  BY <1>5, EndSessionTypeOK DEF WalkAborts, TypeOK, bounds
<1>6. CASE EndSync(w)
  BY <1>6, EndSessionTypeOK DEF EndSync, TypeOK, bounds
<1>7. QED
  BY <1>1, <1>2, <1>3, <1>4, <1>5, <1>6 DEF Walk

\* The steps of a sync preserve the types.
LEMMA SyncItemTypeOK ==
  ASSUME TypeOK, NEW w \in Sessions, SyncItem(w)
  PROVE  TypeOK'
<1> USE DEF world, bounds
<1>1. pc[w] \in {"fetch", "import", "rebuild", "finish", "failed"}
  BY DEF SyncItem, FetchDone, FetchFails, ImportDeals, ImportFails, Rebuild, RebuildFails,
         RecordSuccess, RecordError, RecordAborts
<1>2. job[w] \in Job
  BY <1>1 DEF TypeOK, InFlight
<1>3. ASSUME NEW p \in {"import", "rebuild", "finish", "failed"},
             pc' = [pc EXCEPT ![w] = p], expired' \in [Sessions -> SUBSET Items],
             UNCHANGED <<baskets, todo, view, job>>,
             UNCHANGED <<clock, traded, row, runs, bounds>>,
             loop' \in Sessions, imported' \in [Items -> SUBSET Time],
             positions' \in [Items -> SUBSET Time]
      PROVE  TypeOK'
  BY <1>1, <1>3 DEF TypeOK, InFlight, Places
<1>4. ASSUME NEW status \in {"success", "error"}, WriteOutcome(w, status),
             pc' = [pc EXCEPT ![w] = "walk"], job' = [job EXCEPT ![w] = NoJob],
             UNCHANGED <<clock, world, loop, baskets, todo, view, expired, bounds>>
      PROVE  TypeOK'
  <2>1. row' \in [Items -> ItemRow] /\ runs' \subseteq Run
    BY <1>1, <1>4, OutcomeTypeOK DEF InFlight
  <2>2. QED
    BY <1>4, <2>1 DEF TypeOK, InFlight, Places
<1>5. CASE FetchDone(w)
  <2>1. PICK late \in SUBSET traded[job[w].item] :
          job' = [job EXCEPT ![w].got = @ \cup late]
    BY <1>5 DEF FetchDone
  <2>2. [job[w] EXCEPT !.got = @ \cup late] \in Job
    BY <1>2, <2>1 DEF Job, TypeOK
  <2>3. [job[w] EXCEPT !.got = @ \cup late] # NoJob
    BY <1>2 DEF Job, NoJob
  <2>4. QED
    BY <1>1, <1>5, <2>1, <2>2, <2>3 DEF FetchDone, TypeOK, InFlight, Places
<1>6. CASE FetchFails(w)
  BY <1>3, <1>6 DEF FetchFails, GoTo, TypeOK
<1>7. CASE ImportDeals(w)
  BY <1>2, <1>3, <1>7 DEF ImportDeals, GoTo, TypeOK, Job
<1>8. CASE ImportFails(w)
  <2>1. imported' \in [Items -> SUBSET Time]
    <3>1. imported' = imported \/
            imported' = [imported EXCEPT ![job[w].item] = @ \cup job[w].got]
      BY <1>8 DEF ImportFails
    <3>2. job[w].item \in Items /\ job[w].got \subseteq Time
      BY <1>2 DEF Job
    <3>3. imported \in [Items -> SUBSET Time]
      BY DEF TypeOK
    <3>4. QED
      BY <3>1, <3>2, <3>3
  <2>2. expired' \in [Sessions -> SUBSET Items]
    BY <1>8 DEF ImportFails, RollBack, TypeOK
  <2>3. QED
    BY <1>3, <1>8, <2>1, <2>2 DEF ImportFails, RollBack, TypeOK
<1>9. CASE Rebuild(w)
  BY <1>2, <1>3, <1>9 DEF Rebuild, GoTo, TypeOK, Job
<1>10. CASE RebuildFails(w)
  <2>1. positions' \in [Items -> SUBSET Time]
    <3>1. positions' = positions \/
            positions' = [positions EXCEPT ![job[w].item] = imported[job[w].item]]
      BY <1>10 DEF RebuildFails
    <3>2. job[w].item \in Items
      BY <1>2 DEF Job
    <3>3. imported \in [Items -> SUBSET Time] /\ positions \in [Items -> SUBSET Time]
      BY DEF TypeOK
    <3>4. QED
      BY <3>1, <3>2, <3>3
  <2>2. expired' \in [Sessions -> SUBSET Items]
    BY <1>10 DEF RebuildFails, RollBack, TypeOK
  <2>3. QED
    BY <1>3, <1>10, <2>1, <2>2 DEF RebuildFails, RollBack, TypeOK
<1>11. CASE RecordSuccess(w)
  BY <1>4, <1>11 DEF RecordSuccess, TypeOK
<1>12. CASE RecordError(w)
  BY <1>4, <1>12 DEF RecordError, TypeOK
<1>13. CASE RecordAborts(w)
  BY <1>13, EndSessionTypeOK DEF RecordAborts, TypeOK
<1>14. QED
  BY <1>5, <1>6, <1>7, <1>8, <1>9, <1>10, <1>11, <1>12, <1>13 DEF SyncItem

\* Edits, the clock, the exchange and a restart preserve the types.
LEMMA SurroundingsTypeOK ==
  ASSUME TypeOK, Surroundings
  PROVE  TypeOK'
<1>1. ASSUME NEW u \in Users, UpsertBasket(u) PROVE TypeOK'
  <2>1. PICK wanted \in SUBSET ItemsOf(u) :
          /\ \E pos \in [wanted -> 0 .. Cardinality(wanted) - 1], on \in [wanted -> BOOLEAN] :
               row' = [i \in Items |->
                 IF UserOf[i] = u THEN EditedRow(i, wanted, pos, on) ELSE row[i]]
          /\ runs' = {r \in runs : UserOf[r.item] # u \/ r.item \in wanted}
    BY <1>1, Zenon DEF UpsertBasket
  <2>2. PICK pos \in [wanted -> 0 .. Cardinality(wanted) - 1], on \in [wanted -> BOOLEAN] :
          row' = [i \in Items |->
            IF UserOf[i] = u THEN EditedRow(i, wanted, pos, on) ELSE row[i]]
    BY <2>1
  <2>3. pos \in [wanted -> Nat]
    BY OrderIsNat DEF ItemsOf
  <2>4. ASSUME NEW i \in Items PROVE row'[i] \in ItemRow
    <3>1. row[i] \in ItemRow /\ row[i].id \in Nat /\ row[i].id + 1 \in Nat
      BY DEF TypeOK, ItemRow
    <3>2. NoItem(row[i].id) \in ItemRow
      BY <3>1, NoItemIsRow
    <3>3. ASSUME i \in wanted
          PROVE  /\ [row[i] EXCEPT !.pos = pos[i], !.enabled = on[i]] \in ItemRow
                 /\ NewItem(row[i].id + 1, pos[i], on[i]) \in ItemRow
      <4>1. pos[i] \in Nat /\ on[i] \in BOOLEAN
        BY <2>3, <3>3
      <4>2. [row[i] EXCEPT !.pos = pos[i], !.enabled = on[i]] \in ItemRow
        BY <3>1, <4>1, RowEdited
      <4>3. NewItem(row[i].id + 1, pos[i], on[i]) \in ItemRow
        BY <3>1, <4>1, NewItemIsRow
      <4>4. QED
        BY <4>2, <4>3
    <3>4. EditedRow(i, wanted, pos, on) \in ItemRow
      BY <3>2, <3>3 DEF EditedRow
    <3>5. QED
      BY <2>2, <3>1, <3>4
  <2>5. row' \in [Items -> ItemRow]
    BY <2>2, <2>4
  <2>6. runs' \subseteq Run
    BY <2>1 DEF TypeOK
  <2>7. QED
    BY <1>1, <2>5, <2>6, TimeAssumption
    DEF UpsertBasket, TypeOK, world, session, InFlight
<1>2. ASSUME NEW i \in Items, ReconstructRoute(i) PROVE TypeOK'
  BY <1>2 DEF ReconstructRoute, TypeOK, session, bounds, InFlight
<1>3. ASSUME NEW i \in Items, NEW t \in Time, Trade(i, t) PROVE TypeOK'
  BY <1>3 DEF Trade, TypeOK, session, bounds, InFlight
<1>4. CASE Tick
  BY <1>4, TimeAssumption DEF Tick, TypeOK, Time, world, session, bounds, InFlight
<1>5. CASE Restart
  <2>1. [i \in Items |-> NoItem(0)] \in [Items -> ItemRow]
    BY DEF NoItem, NewItem, ItemRow, Status, NoTime
  <2>2. view' \in [Sessions -> [Items -> ItemRow]]
    BY <1>5, <2>1 DEF Restart
  <2>3. QED
    BY <1>5, <2>2, TimeAssumption DEF Restart, TypeOK, world, InFlight, Places
<1>6. QED
  BY <1>1, <1>2, <1>3, <1>4, <1>5 DEF Surroundings

\* Every step keeps every variable within its type.
LEMMA NextTypeOK == TypeOK /\ [Next]_vars => TypeOK'
<1>1. CASE UNCHANGED vars
  BY <1>1 DEF TypeOK, vars, world, session, bounds, InFlight
<1>2. CASE Next
  BY <1>2, BeginTypeOK, WalkTypeOK, SyncItemTypeOK, OutageTypeOK, SurroundingsTypeOK DEF Next
<1>3. QED
  BY <1>1, <1>2

\* Type correctness of the sync, for every basket and any number of sessions.
THEOREM TypeCorrect == Spec => []TypeOK
BY InitTypeOK, NextTypeOK, PTL DEF Spec

-----------------------------------------------------------------------------
(* No silent gap.                                                          *)

\* Steps that take nothing away: no deal is listed, no row comes or goes, no stored deal
\* and no failed run disappears.
Steady ==
  /\ traded' = traded
  /\ clock' >= clock
  /\ \A i \in Items : imported[i] \subseteq imported'[i]
  /\ \A i \in Items : row'[i].id = row[i].id /\ row'[i].there = row[i].there
  /\ \A r \in runs : r.status = "error" => r \in runs'

\* A deal that is accounted for stays so.
LEMMA SteadyAccounted ==
  ASSUME Steady, NEW i \in Items, NEW t, Accounted(i, t)
  PROVE  Accounted(i, t)'
  BY DEF Steady, Accounted, InFailedRun

\* The numbers in a state are numbers.
LEMMA NumberTypes ==
  ASSUME TypeOK
  PROVE  /\ clock \in Int
         /\ \A i \in Items : /\ row[i].cursor \in Int /\ row[i].id \in Nat
                            /\ traded[i] \subseteq Nat
         /\ \A w \in Sessions, i \in Items :
              view[w][i].cursor \in Int /\ view[w][i].id \in Nat
<1>1. Time \subseteq Nat /\ NoTime \in Int
  BY TimeAssumption DEF Time, NoTime
<1>2. ASSUME NEW r \in ItemRow PROVE r.cursor \in Int /\ r.id \in Nat
  <2>1. r.cursor \in Time \cup {NoTime} /\ r.id \in Nat
    BY <1>2 DEF ItemRow
  <2>2. QED
    BY <2>1, TimeAssumption DEF Time, NoTime
<1>3. clock \in Int
  BY <1>1 DEF TypeOK
<1>4. ASSUME NEW i \in Items
      PROVE  row[i].cursor \in Int /\ row[i].id \in Nat /\ traded[i] \subseteq Nat
  <2>1. row[i] \in ItemRow /\ traded[i] \in SUBSET Time
    BY DEF TypeOK
  <2>2. QED
    BY <2>1, <1>1, <1>2
<1>5. ASSUME NEW w \in Sessions, NEW i \in Items
      PROVE  view[w][i].cursor \in Int /\ view[w][i].id \in Nat
  <2>1. view[w][i] \in ItemRow
    BY DEF TypeOK
  <2>2. QED
    BY <2>1, <1>2
<1>6. QED
  BY <1>3, <1>4, <1>5

\* The next reading of the clock is a number.
LEMMA ClockNext ==
  ASSUME TypeOK'
  PROVE  clock' \in Int
  BY TimeAssumption DEF TypeOK, Time

\* A row whose cursor stays keeps its part of the invariant.
LEMMA SteadyRow ==
  ASSUME TypeOK, TypeOK', Steady, NEW i \in Items, RowOK(i), row'[i].cursor = row[i].cursor
  PROVE  RowOK(i)'
<1>1. row'[i].cursor <= clock'
  BY NumberTypes, ClockNext DEF RowOK, Steady
<1>2. ASSUME NEW t \in traded'[i], Passed(i, t)' PROVE Accounted(i, t)'
  BY <1>2, SteadyAccounted DEF Steady, RowOK, Passed
<1>3. QED
  BY <1>1, <1>2 DEF RowOK

\* A view that stays keeps its part of the invariant.
LEMMA SteadyView ==
  ASSUME TypeOK, TypeOK', Steady, NEW w \in Sessions, NEW i \in Items, ViewOK(w, i),
         view'[w][i] = view[w][i]
  PROVE  ViewOK(w, i)'
<1>1. view'[w][i].cursor <= clock' /\ view'[w][i].id <= row'[i].id
  BY NumberTypes, ClockNext DEF ViewOK, Steady
<1>2. ASSUME Current(i, view[w][i].id)',
             NEW t \in traded'[i], t + Lag < view'[w][i].cursor
      PROVE  Accounted(i, t)'
  BY <1>2, SteadyAccounted DEF Steady, ViewOK, Current
<1>3. QED
  BY <1>1, <1>2 DEF ViewOK, Current

\* A session under way keeps a job; its item and times have their types.
LEMMA JobTypes ==
  ASSUME TypeOK, NEW w \in Sessions, InFlight(w)
  PROVE  /\ job[w] \in Job
         /\ job[w].item \in Items /\ job[w].id \in Nat
         /\ job[w].start \in Int /\ job[w].end \in Int
  BY TimeAssumption DEF TypeOK, Job, Time

\* A session keeps its job, may fetch more for it, and passes the import only when what it
\* fetched is stored.
KeepsJob(w) ==
  /\ InFlight(w)
  /\ job'[w].item = job[w].item /\ job'[w].id = job[w].id
  /\ job'[w].start = job[w].start /\ job'[w].end = job[w].end
  /\ job[w].got \subseteq job'[w].got
  /\ pc'[w] \in {"rebuild", "finish"} =>
       \/ job'[w].got \subseteq imported'[job[w].item]
       \/ job'[w] = job[w] /\ pc[w] \in {"rebuild", "finish"}

\* A job that stays keeps its part of the invariant.
LEMMA SteadyJob ==
  ASSUME TypeOK, TypeOK', Steady, NEW w \in Sessions, JobOK(w), KeepsJob(w)
  PROVE  JobOK(w)'
<1> DEFINE j == job[w]
<1>1. InFlight(w)
  BY DEF KeepsJob
<1>2. j.item \in Items /\ j.end \in Int /\ j.id \in Nat
  BY <1>1, JobTypes
<1>3. j.id <= row'[j.item].id /\ j.end <= clock'
  <2>1. j.id <= row'[j.item].id
    BY <1>1, <1>2 DEF JobOK, Steady
  <2>2. j.end <= clock /\ clock <= clock'
    BY <1>1, <1>2 DEF JobOK, Steady
  <2>3. QED
    BY <1>2, <2>1, <2>2, NumberTypes, ClockNext
<1>4. PICK i \in Items, id \in Nat, start \in Int : i = j.item /\ id = j.id /\ start = j.start
  BY <1>1, <1>2, JobTypes
<1>5. ASSUME Current(i, id)', NEW t \in traded'[i], t < start
      PROVE  Accounted(i, t)'
  <2>1. Current(i, id)
    BY <1>5 DEF Steady, Current
  <2>2. Accounted(i, t)
    BY <1>1, <1>4, <1>5, <2>1 DEF JobOK, Steady
  <2>3. QED
    BY <2>2, SteadyAccounted
<1>6. pc'[w] \in {"rebuild", "finish"} => job'[w].got \subseteq imported'[j.item]
  BY <1>1, <1>2 DEF JobOK, Steady, KeepsJob
<1>7. job'[w].item = i /\ job'[w].id = id /\ job'[w].start = start
  BY <1>4 DEF KeepsJob
<1>8. ASSUME Current(job[w].item, job[w].id)', NEW t \in traded'[job'[w].item],
             t < job'[w].start
      PROVE  Accounted(job[w].item, t)'
  BY <1>5, <1>7, <1>8 DEF Current, Accounted, InFailedRun
<1>9. ASSUME NEW t \in traded'[j.item], j.start <= t, t + Lag < j.end PROVE t \in job'[w].got
  BY <1>1, <1>9 DEF JobOK, Steady, KeepsJob
<1>10. j.start <= 0 \/ j.start + Overlap <= j.end
  BY <1>1 DEF JobOK
<1>11. QED
  BY <1>3, <1>6, <1>8, <1>9, <1>10 DEF JobOK, KeepsJob

\* A row loaded now is as well accounted for as the row in the table.
LEMMA LoadedView ==
  ASSUME TypeOK, TypeOK', Steady, NEW w \in Sessions, NEW i \in Items, RowOK(i),
         view'[w][i] = row[i]
  PROVE  ViewOK(w, i)'
<1>1. view'[w][i].cursor <= clock' /\ view'[w][i].id <= row'[i].id
  BY NumberTypes, ClockNext DEF RowOK, Steady
<1>2. ASSUME Current(i, view[w][i].id)', NEW t \in traded'[i], t + Lag < view'[w][i].cursor
      PROVE  Accounted(i, t)'
  BY <1>2, SteadyAccounted DEF Steady, RowOK, Passed, Current
<1>3. QED
  BY <1>1, <1>2 DEF ViewOK, Current

\* A session that holds no row has nothing to keep.
LEMMA EmptyView ==
  ASSUME TypeOK', NEW w \in Sessions, NEW i \in Items, view'[w][i] = NoItem(0)
  PROVE  ViewOK(w, i)'
<1>1. row'[i].id \in Nat
  BY DEF TypeOK, ItemRow
<1>2. clock' \in Nat
  BY TimeAssumption DEF TypeOK, Time
<1>3. ASSUME NEW t \in traded'[i] PROVE t \in Nat /\ ~(t + Lag < -1)
  <2>1. t \in Nat
    BY <1>3, TimeAssumption DEF TypeOK, Time
  <2>2. QED
    BY <2>1, TimeAssumption
<1>4. view'[w][i].id = 0 /\ view'[w][i].cursor = -1
  BY DEF NoItem, NewItem, NoTime
<1>5. QED
  BY <1>1, <1>2, <1>3, <1>4 DEF ViewOK

\* A steady step keeps the invariant if the rows it finishes and the jobs it starts or
\* carries on are accounted for.
LEMMA SteadyStep ==
  ASSUME IInv, TypeOK', Steady,
         \A i \in Items : row'[i].cursor = row[i].cursor \/ RowOK(i)',
         \A w \in Sessions, i \in Items :
           view'[w][i] = view[w][i] \/ view'[w][i] = row[i] \/ view'[w][i] = NoItem(0),
         \A w \in Sessions : KeepsJob(w) \/ ~InFlight(w)' \/ JobOK(w)',
         \A r \in runs' : r \in runs \/ r.id <= row[r.item].id
  PROVE  IInv'
<1>1. TypeOK
  BY DEF IInv
<1>2. ASSUME NEW i \in Items PROVE RowOK(i)'
  BY <1>1, <1>2, SteadyRow DEF IInv
<1>3. ASSUME NEW w \in Sessions, NEW i \in Items PROVE ViewOK(w, i)'
  BY <1>1, <1>3, SteadyView, LoadedView, EmptyView DEF IInv
<1>4. ASSUME NEW w \in Sessions PROVE JobOK(w)'
  <2>1. CASE ~InFlight(w)'
    BY <2>1 DEF JobOK
  <2>2. QED
    BY <1>1, <1>4, <2>1, SteadyJob DEF IInv
<1>5. ASSUME NEW r \in runs' PROVE r.id <= row'[r.item].id
  <2>1. r.item \in Items
    BY <1>5 DEF TypeOK, Run
  <2>2. r.id <= row[r.item].id
    BY <1>5 DEF IInv
  <2>3. QED
    BY <2>1, <2>2 DEF Steady
<1>6. QED
  BY <1>2, <1>3, <1>4, <1>5 DEF IInv

\* The invariant holds when the process starts.
LEMMA InitIInv == Init => IInv
<1>1. SUFFICES ASSUME Init PROVE IInv
  OBVIOUS
<1>2. TypeOK
  BY <1>1, InitTypeOK
<1>3. clock = 0 /\ runs = {} /\ traded = [i \in Items |-> {}]
  BY <1>1 DEF Init
<1>4. ASSUME NEW i \in Items PROVE RowOK(i) /\ row[i].id = 0
  <2>1. row[i].cursor = -1 /\ row[i].id = 0
    BY <1>1 DEF Init, NewItem, NoTime
  <2>2. QED
    BY <1>3, <2>1 DEF RowOK
<1>5. ASSUME NEW w \in Sessions, NEW i \in Items PROVE ViewOK(w, i)
  <2>1. view[w][i] = NoItem(0)
    BY <1>1 DEF Init
  <2>2. view[w][i].cursor = -1 /\ view[w][i].id = 0 /\ ~view[w][i].there
    BY <2>1 DEF NoItem, NewItem, NoTime
  <2>3. QED
    BY <1>3, <1>4, <2>2 DEF ViewOK
<1>6. ASSUME NEW w \in Sessions PROVE JobOK(w)
  BY <1>1 DEF Init, JobOK, InFlight
<1>7. QED
  BY <1>2, <1>3, <1>4, <1>5, <1>6 DEF IInv

\* A session that begins has loaded rows of this moment.
LEMMA BeginIInv ==
  ASSUME IInv, TypeOK', NEW w \in Sessions, Begin(w)
  PROVE  IInv'
<1>1. TypeOK
  BY DEF IInv
<1>2. /\ pc[w] = "idle" /\ pc' = [pc EXCEPT ![w] = "walk"]
      /\ view' = [view EXCEPT ![w] = row]
      /\ UNCHANGED <<clock, world, row, runs, job>>
  BY DEF Begin, SyncBasket, SyncAllBaskets
<1>3. Steady
  BY <1>1, <1>2, NumberTypes DEF Steady, world
<1>4. ASSUME NEW v \in Sessions, NEW i \in Items
      PROVE  view'[v][i] = view[v][i] \/ view'[v][i] = row[i]
  BY <1>1, <1>2 DEF TypeOK
<1>5. ASSUME NEW v \in Sessions PROVE KeepsJob(v) \/ ~InFlight(v)'
  BY <1>1, <1>2 DEF TypeOK, KeepsJob, InFlight
<1>6. QED
  BY <1>2, <1>3, <1>4, <1>5, SteadyStep

\* A session that ends forgets what it has loaded.
LEMMA EndSessionIInv ==
  ASSUME IInv, TypeOK', NEW w \in Sessions, EndSession(w), Steady,
         \A i \in Items : row'[i].cursor = row[i].cursor \/ RowOK(i)',
         \A r \in runs' : r \in runs \/ r.id <= row[r.item].id
  PROVE  IInv'
<1>1. TypeOK
  BY DEF IInv
<1>2. ASSUME NEW v \in Sessions, NEW i \in Items
      PROVE  view'[v][i] = view[v][i] \/ view'[v][i] = NoItem(0)
  BY <1>1 DEF TypeOK, EndSession
<1>3. ASSUME NEW v \in Sessions PROVE KeepsJob(v) \/ ~InFlight(v)'
  BY <1>1 DEF TypeOK, EndSession, KeepsJob, InFlight
<1>4. QED
  BY <1>2, <1>3, SteadyStep

\* A session that ends and writes nothing.
LEMMA AbortIInv ==
  ASSUME IInv, TypeOK', NEW w \in Sessions, EndSession(w), UNCHANGED <<clock, world, row, runs>>
  PROVE  IInv'
<1>1. TypeOK
  BY DEF IInv
<1>2. Steady
  BY <1>1, NumberTypes DEF Steady, world
<1>3. QED
  BY <1>2, EndSessionIInv

\* A step that leaves the rows and all that is loaded, and moves one session on.
LEMMA GoToIInv ==
  ASSUME IInv, TypeOK', Steady, NEW w \in Sessions, NEW p, InFlight(w),
         pc' = [pc EXCEPT ![w] = p],
         p \in {"rebuild", "finish"} =>
           pc[w] \in {"rebuild", "finish"} \/ job[w].got \subseteq imported'[job[w].item],
         UNCHANGED <<row, runs, view, job>>
  PROVE  IInv'
<1>1. TypeOK
  BY DEF IInv
<1>2. ASSUME NEW v \in Sessions PROVE KeepsJob(v) \/ ~InFlight(v)'
  BY <1>1 DEF TypeOK, KeepsJob, InFlight
<1>3. QED
  BY <1>2, SteadyStep

\* A step that leaves the sessions alone.
LEMMA OutsideIInv ==
  ASSUME IInv, TypeOK', Steady, UNCHANGED <<row, runs, view, job, pc>>
  PROVE  IInv'
<1>1. ASSUME NEW v \in Sessions PROVE KeepsJob(v) \/ ~InFlight(v)'
  BY DEF KeepsJob, InFlight
<1>2. QED
  BY <1>1, SteadyStep

\* What a session reads of a current item leaves no gap, whether it was loaded long ago or
\* is loaded again now.
LEMMA SeenAccounted ==
  ASSUME IInv, NEW w \in Sessions, NEW i \in Items, Current(i, view[w][i].id)
  PROVE  /\ Seen(w, i).cursor \in Int
         /\ Seen(w, i).cursor <= clock
         /\ \A t \in traded[i] : t + Lag < Seen(w, i).cursor => Accounted(i, t)
<1>1. TypeOK
  BY DEF IInv
<1>2. CASE i \in expired[w]
  BY <1>1, <1>2, NumberTypes DEF IInv, RowOK, Passed, Seen, Current
<1>3. CASE i \notin expired[w]
  BY <1>1, <1>3, NumberTypes DEF IInv, ViewOK, Seen
<1>4. QED
  BY <1>2, <1>3

\* The window of a sync that starts now reaches back over the overlap, and what lies before
\* it the cursor has passed.
LEMMA WindowReachesBack ==
  ASSUME IInv, NEW w \in Sessions, NEW i \in Items, Current(i, view[w][i].id),
         NEW start, start = SyncStart(Seen(w, i), clock)
  PROVE  /\ start \in Int
         /\ start <= 0 \/ start + Overlap <= clock
         /\ \A t \in traded[i] : t < start => Accounted(i, t)
<1>1. TypeOK
  BY DEF IInv
<1> DEFINE cursor == Seen(w, i).cursor
<1>2. cursor \in Int /\ cursor <= clock
  BY SeenAccounted
<1>3. clock \in Int /\ clock <= MaxTime /\ MaxTime \in Int /\ MaxTime <= Lookback /\ Lookback \in Int
      /\ Overlap \in Int /\ Lag \in Int /\ Lag <= Overlap
  BY <1>1, TimeAssumption DEF TypeOK, Time
<1>4. start = IF cursor = NoTime THEN clock - Lookback
              ELSE IF cursor < Overlap THEN 0 ELSE cursor - Overlap
  BY DEF SyncStart
<1>5. start \in Int /\ (start <= 0 \/ start = cursor - Overlap)
  <2>1. CASE cursor = NoTime
    <3>1. start = clock - Lookback
      BY <1>4, <2>1
    <3>2. QED
      BY <1>3, <3>1
  <2>2. CASE cursor # NoTime
    <3>1. start = IF cursor < Overlap THEN 0 ELSE cursor - Overlap
      BY <1>4, <2>2
    <3>2. QED
      BY <1>2, <1>3, <3>1
  <2>3. QED
    BY <2>1, <2>2
<1>6. ASSUME NEW t \in traded[i], t < start PROVE Accounted(i, t)
  <2>1. t \in Nat
    BY <1>1, NumberTypes
  <2>2. t + Lag < cursor
    BY <1>2, <1>3, <1>5, <1>6, <2>1
  <2>3. QED
    BY <2>2, SeenAccounted
<1>7. start <= 0 \/ start + Overlap <= clock
  BY <1>2, <1>3, <1>5
<1>8. QED
  BY <1>5, <1>6, <1>7

\* A row that is marked keeps its number and its cursor; a run that is skipped or begins is
\* one of the row that is there.
LEMMA WrittenSteady ==
  ASSUME IInv, NEW w \in Sessions, NEW i \in Items, WriteSkipped(w, i) \/ WriteRunning(w, i),
         UNCHANGED <<clock, world>>
  PROVE  /\ Steady
         /\ \A k \in Items : row'[k].cursor = row[k].cursor
         /\ \A r \in runs' : r \in runs \/ r.id <= row[r.item].id
<1>1. TypeOK
  BY DEF IInv
<1>2. ASSUME NEW k \in Items
      PROVE  /\ row'[k].id = row[k].id /\ row'[k].there = row[k].there
             /\ row'[k].cursor = row[k].cursor
  <2>1. row[k] \in ItemRow /\ row[i] \in ItemRow
    BY <1>1 DEF TypeOK
  <2>2. row'[k] = row[k] \/ (k = i /\ row'[i] = Marked(row[i], Seen(w, i)))
    <3>1. CASE WriteSkipped(w, i)
      BY <3>1 DEF WriteSkipped
    <3>2. CASE WriteRunning(w, i)
      BY <1>1, <3>2 DEF WriteRunning, TypeOK
    <3>3. QED
      BY <3>1, <3>2
  <2>3. DOMAIN row[i] = {"there", "id", "pos", "enabled", "status", "started", "cursor"}
    BY <2>1 DEF ItemRow
  <2>4. /\ Marked(row[i], Seen(w, i)).id = row[i].id
        /\ Marked(row[i], Seen(w, i)).there = row[i].there
        /\ Marked(row[i], Seen(w, i)).cursor = row[i].cursor
    BY <2>3 DEF Marked
  <2>5. QED
    BY <2>2, <2>4
<1>3. PICK r \in {NewRun(w, i, view[w][i].id, SyncStart(Seen(w, i), clock), status) :
                    status \in {"running", "skipped"}} : runs' = runs \cup {r}
  <2>1. CASE WriteSkipped(w, i)
    BY <2>1 DEF WriteSkipped
  <2>2. CASE WriteRunning(w, i)
    BY <2>2 DEF WriteRunning
  <2>3. QED
    BY <2>1, <2>2
<1>4. r.id <= row[r.item].id
  <2>1. r.item = i /\ r.id = row[i].id
    BY <1>3 DEF NewRun, Current, WriteSkipped, WriteRunning
  <2>2. QED
    BY <1>1, <2>1, NumberTypes
<1>5. Steady
  BY <1>1, <1>2, <1>3, NumberTypes DEF Steady, world
<1>6. QED
  BY <1>2, <1>3, <1>4, <1>5

\* An item that starts to sync gets a job that starts where its cursor allows.
LEMMA StartItemIInv ==
  ASSUME IInv, TypeOK', NEW w \in Sessions, NEW i \in Items, StartItem(w, i)
  PROVE  IInv'
<1>1. TypeOK
  BY DEF IInv
<1> DEFINE start == SyncStart(Seen(w, i), clock)
           got == {t \in traded[i] : start <= t /\ t <= clock}
<1>2. /\ Current(i, view[w][i].id)
      /\ job' = [job EXCEPT ![w] = [item |-> i, id |-> view[w][i].id, start |-> start,
                                    end |-> clock, got |-> got]]
      /\ pc' = [pc EXCEPT ![w] = "fetch"]
      /\ UNCHANGED <<clock, traded, imported, view>>
  BY DEF StartItem, WriteRunning, world
<1>3. /\ \A k \in Items : row'[k].cursor = row[k].cursor
      /\ \A r \in runs' : r \in runs \/ r.id <= row[r.item].id
  BY WrittenSteady DEF StartItem
<1>4. Steady
  BY WrittenSteady DEF StartItem
<1>5. job'[w] = [item |-> i, id |-> view[w][i].id, start |-> start, end |-> clock,
                 got |-> got]
  BY <1>1, <1>2 DEF TypeOK
<1>6. start \in Int /\ (start <= 0 \/ start + Overlap <= clock)
      /\ \A t \in traded[i] : t < start => Accounted(i, t)
  BY <1>2, WindowReachesBack
<1>7. JobOK(w)'
  <2>1. job'[w].item = i /\ job'[w].id = view[w][i].id /\ job'[w].start = start
        /\ job'[w].end = clock /\ job'[w].got = got /\ pc'[w] = "fetch"
    BY <1>1, <1>2, <1>5 DEF TypeOK
  <2>2. job'[w].id <= row'[i].id /\ job'[w].end <= clock'
    BY <1>1, <1>2, <1>4, <2>1, NumberTypes DEF Current, Steady
  <2>3. ASSUME NEW t \in traded[i], t < start PROVE Accounted(i, t)'
    BY <1>4, <1>6, <2>3, SteadyAccounted
  <2>4. ASSUME NEW t \in traded[i], t < start PROVE Accounted(job[w].item, t)'
    BY <2>1, <2>3, <2>4 DEF Accounted, InFailedRun
  <2>5. ASSUME NEW t \in traded[i], start <= t, t + Lag < clock PROVE t \in got
    BY <1>1, <2>5, NumberTypes, TimeAssumption
  <2>6. QED
    BY <1>2, <1>6, <2>1, <2>2, <2>4, <2>5 DEF JobOK
<1>8. ASSUME NEW v \in Sessions PROVE KeepsJob(v) \/ ~InFlight(v)' \/ JobOK(v)'
  BY <1>1, <1>2, <1>7 DEF TypeOK, KeepsJob, InFlight
<1>9. QED
  BY <1>2, <1>3, <1>4, <1>8, SteadyStep

\* Whatever a session does between its items leaves no gap.
LEMMA WalkIInv ==
  ASSUME IInv, TypeOK', NEW w \in Sessions, Walk(w)
  PROVE  IInv'
<1>1. TypeOK
  BY DEF IInv
<1>2. ASSUME NEW u \in Users, EnterBasket(w, u) PROVE IInv'
  <2>1. UNCHANGED <<clock, world, row, runs, pc, job>>
    BY <1>2 DEF EnterBasket
  <2>2. Steady
    BY <1>1, <2>1, NumberTypes DEF Steady, world
  <2>3. ASSUME NEW v \in Sessions, NEW i \in Items
        PROVE  view'[v][i] = view[v][i] \/ view'[v][i] = row[i]
    BY <1>1, <1>2 DEF EnterBasket, TypeOK
  <2>4. ASSUME NEW v \in Sessions PROVE KeepsJob(v) \/ ~InFlight(v)'
    BY <2>1 DEF KeepsJob, InFlight
  <2>5. QED
    BY <2>1, <2>2, <2>3, <2>4, SteadyStep
<1>3. ASSUME NEW i \in Items, SkipDisabled(w, i) PROVE IInv'
  <2>1. UNCHANGED <<clock, world, row, runs, view, pc, job>>
    BY <1>3 DEF SkipDisabled
  <2>2. Steady
    BY <1>1, <2>1, NumberTypes DEF Steady, world
  <2>3. QED
    BY <2>1, <2>2, OutsideIInv
<1>4. ASSUME NEW i \in Items, SkipRunning(w, i) PROVE IInv'
  <2>1. UNCHANGED <<clock, world, view, pc, job>>
    BY <1>4 DEF SkipRunning
  <2>2. ASSUME NEW v \in Sessions PROVE KeepsJob(v) \/ ~InFlight(v)'
    BY <2>1 DEF KeepsJob, InFlight
  <2>3. /\ Steady /\ \A k \in Items : row'[k].cursor = row[k].cursor
        /\ \A r \in runs' : r \in runs \/ r.id <= row[r.item].id
    BY <1>4, <2>1, WrittenSteady DEF SkipRunning
  <2>4. QED
    BY <2>1, <2>2, <2>3, SteadyStep
<1>5. ASSUME NEW i \in Items, WalkAborts(w, i) PROVE IInv'
  BY <1>5, AbortIInv DEF WalkAborts
<1>6. CASE EndSync(w)
  BY <1>6, AbortIInv DEF EndSync
<1>7. QED
  BY <1>2, <1>3, <1>4, <1>5, <1>6, StartItemIInv DEF Walk

\* The try block: pages only add to what was fetched, and the import stores all of it.
LEMMA TryIInv ==
  ASSUME IInv, TypeOK', NEW w \in Sessions,
         FetchDone(w) \/ FetchFails(w) \/ ImportDeals(w) \/ ImportFails(w)
           \/ Rebuild(w) \/ RebuildFails(w)
  PROVE  IInv'
<1>1. TypeOK
  BY DEF IInv
<1>2. UNCHANGED <<clock, traded, row, runs, view>> /\ InFlight(w)
  BY DEF FetchDone, FetchFails, ImportDeals, ImportFails, Rebuild, RebuildFails, GoTo, RollBack,
         InFlight, world
<1>3. job[w] \in Job
  BY <1>1, <1>2, JobTypes
<1>4. ASSUME NEW i \in Items PROVE imported[i] \subseteq imported'[i]
  BY <1>1 DEF FetchDone, FetchFails, ImportDeals, ImportFails, Rebuild, RebuildFails,
              world, TypeOK
<1>5. Steady
  BY <1>1, <1>2, <1>4, NumberTypes DEF Steady
<1>6. CASE FetchDone(w)
  <2>1. PICK late : job' = [job EXCEPT ![w].got = job[w].got \cup late]
    BY <1>6 DEF FetchDone
  <2>2. job'[w] = [job[w] EXCEPT !.got = job[w].got \cup late]
    BY <1>1, <2>1 DEF TypeOK
  <2>3. KeepsJob(w)
    BY <1>1, <1>2, <1>3, <1>6, <2>2 DEF KeepsJob, FetchDone, Job, TypeOK
  <2>4. ASSUME NEW v \in Sessions, v # w PROVE KeepsJob(v) \/ ~InFlight(v)'
    BY <1>1, <1>6, <2>1, <2>4 DEF KeepsJob, FetchDone, InFlight, TypeOK
  <2>5. QED
    BY <1>2, <1>5, <2>3, <2>4, SteadyStep
<1>7. CASE FetchFails(w) \/ ImportFails(w) \/ RebuildFails(w)
  BY <1>2, <1>5, <1>7, GoToIInv DEF FetchFails, ImportFails, RebuildFails, GoTo, RollBack
<1>8. CASE Rebuild(w)
  BY <1>2, <1>5, <1>8, GoToIInv DEF Rebuild, GoTo
<1>9. CASE ImportDeals(w)
  <2>1. job[w].got \subseteq imported'[job[w].item]
    BY <1>1, <1>3, <1>9 DEF ImportDeals, TypeOK, Job
  <2>2. QED
    BY <1>2, <1>5, <1>9, <2>1, GoToIInv DEF ImportDeals, GoTo
<1>10. QED
  BY <1>6, <1>7, <1>8, <1>9

\* Recording an outcome leaves no gap: what the window may not miss is stored when the run
\* succeeded, and lies in the window of the failed run otherwise.
LEMMA OutcomeSteady ==
  ASSUME IInv, TypeOK', NEW w \in Sessions, InFlight(w), Current(job[w].item, job[w].id),
         NEW status \in {"success", "error"}, status = "success" => pc[w] = "finish",
         WriteOutcome(w, status), UNCHANGED <<clock, world>>
  PROVE  /\ Steady
         /\ \A k \in Items : row'[k].cursor = row[k].cursor \/ RowOK(k)'
         /\ \A r \in runs' : r \in runs \/ r.id <= row[r.item].id
<1>1. TypeOK
  BY DEF IInv
<1>2. /\ status = "success" => pc[w] = "finish"
      /\ WriteOutcome(w, status)
  OBVIOUS
<1>3. /\ InFlight(w) /\ Current(job[w].item, job[w].id)
      /\ UNCHANGED <<clock, traded, imported>>
  BY DEF world
<1>4. PICK i \in Items, id \in Nat, start \in Int, end \in Int :
        i = job[w].item /\ id = job[w].id /\ start = job[w].start /\ end = job[w].end
  BY <1>1, <1>3, JobTypes
<1>5. /\ row' = [row EXCEPT ![i].status = status, ![i].cursor = end]
      /\ runs' = (runs \ {RunOf(w, "running")}) \cup {RunOf(w, status)}
  BY <1>2, <1>4 DEF WriteOutcome
<1>6. ASSUME NEW k \in Items
      PROVE  /\ row'[k].id = row[k].id /\ row'[k].there = row[k].there
             /\ row'[k].cursor = IF k = i THEN end ELSE row[k].cursor
  <2>1. row[k] \in ItemRow
    BY <1>1 DEF TypeOK
  <2>2. QED
    BY <1>1, <1>5, <2>1 DEF TypeOK, ItemRow
<1>7. RunOf(w, status).item = i /\ RunOf(w, status).id = row[i].id
      /\ RunOf(w, status).status = status
      /\ RunOf(w, status).start = start /\ RunOf(w, status).end = end
  BY <1>3, <1>4 DEF RunOf, Current
<1>8. Steady
  <2>1. ASSUME NEW r \in runs, r.status = "error" PROVE r \in runs'
    BY <1>5, <2>1 DEF RunOf
  <2>2. QED
    BY <1>1, <1>3, <1>6, <2>1, NumberTypes DEF Steady
<1>9. RowOK(i)'
  <2>1. end <= clock
    BY <1>1, <1>3, <1>4 DEF IInv, JobOK
  <2>2. ASSUME NEW t \in traded[i], t + Lag < end PROVE Accounted(i, t)'
    <3>1. t \in Int
      BY <1>1, NumberTypes
    <3>2. CASE t < start
      <4>1. Accounted(i, t)
        BY <1>3, <1>4, <3>2 DEF IInv, JobOK
      <4>2. QED
        BY <1>8, <4>1, SteadyAccounted
    <3>3. CASE ~(t < start) /\ status = "success"
      <4>1. start <= t
        BY <1>4, <3>1, <3>3
      <4>2. t \in job[w].got
        BY <1>3, <1>4, <2>2, <4>1 DEF IInv, JobOK
      <4>3. t \in imported[i]
        BY <1>2, <1>3, <1>4, <3>3, <4>2 DEF IInv, JobOK
      <4>4. QED
        BY <1>3, <4>3 DEF Accounted
    <3>4. CASE ~(t < start) /\ status = "error"
      <4>1. start <= t /\ t <= end
        BY <1>4, <2>2, <3>1, <3>4, TimeAssumption
      <4>2. RunOf(w, status) \in runs'
        BY <1>5
      <4>3. InFailedRun(i, t)'
        BY <1>6, <1>7, <3>4, <4>1, <4>2 DEF InFailedRun
      <4>4. QED
        BY <4>3 DEF Accounted
    <3>5. QED
      BY <1>2, <3>2, <3>3, <3>4
  <2>3. QED
    BY <1>3, <1>6, <2>1, <2>2 DEF RowOK, Passed
<1>10. ASSUME NEW r \in runs' PROVE r \in runs \/ r.id <= row[r.item].id
  BY <1>1, <1>5, <1>7, <1>10, NumberTypes
<1>11. ASSUME NEW k \in Items PROVE row'[k].cursor = row[k].cursor \/ RowOK(k)'
  BY <1>6, <1>9
<1>12. QED
  BY <1>8, <1>10, <1>11

\* A session goes on with its walk when it has recorded an outcome.
LEMMA RecordIInv ==
  ASSUME IInv, TypeOK', NEW w \in Sessions, RecordSuccess(w) \/ RecordError(w)
  PROVE  IInv'
<1>1. TypeOK
  BY DEF IInv
<1>2. PICK status \in {"success", "error"} :
        /\ status = "success" => pc[w] = "finish"
        /\ WriteOutcome(w, status)
  BY DEF RecordSuccess, RecordError
<1>3. /\ InFlight(w) /\ Current(job[w].item, job[w].id)
      /\ pc' = [pc EXCEPT ![w] = "walk"]
      /\ \A v \in Sessions \ {w} : job'[v] = job[v]
      /\ UNCHANGED <<clock, world, view>>
  BY <1>1 DEF RecordSuccess, RecordError, InFlight, TypeOK
<1>4. ASSUME NEW v \in Sessions PROVE KeepsJob(v) \/ ~InFlight(v)'
  BY <1>1, <1>3 DEF TypeOK, KeepsJob, InFlight
<1>5. /\ Steady
      /\ \A k \in Items : row'[k].cursor = row[k].cursor \/ RowOK(k)'
      /\ \A r \in runs' : r \in runs \/ r.id <= row[r.item].id
  BY <1>2, <1>3, OutcomeSteady
<1>6. QED
  BY <1>3, <1>4, <1>5, SteadyStep

\* A failure of the database leaves no gap either: the session ends, and what it wrote stays
\* or was not written.
LEMMA OutageIInv ==
  ASSUME IInv, TypeOK', NEW w \in Sessions, Outage(w)
  PROVE  IInv'
<1>1. EndSession(w) /\ UNCHANGED <<clock, world>>
  BY DEF Outage, WalkFails, SkipFails, StartFails, RecordFails, DatabaseFails
<1>2. CASE UNCHANGED <<row, runs>>
  BY <1>1, <1>2, AbortIInv
<1>3. ASSUME NEW i \in Items, WriteSkipped(w, i) \/ WriteRunning(w, i) PROVE IInv'
  BY <1>1, <1>3, WrittenSteady, EndSessionIInv
<1>4. CASE RecordFails(w) /\ ~UNCHANGED <<row, runs>>
  <2>1. /\ InFlight(w) /\ Current(job[w].item, job[w].id)
        /\ WriteOutcome(w, IF pc[w] = "finish" THEN "success" ELSE "error")
    BY <1>4 DEF RecordFails, InFlight
  <2>2. PICK status \in {"success", "error"} :
          /\ status = "success" => pc[w] = "finish"
          /\ WriteOutcome(w, status)
    BY <2>1
  <2>3. QED
    BY <1>1, <2>1, <2>2, OutcomeSteady, EndSessionIInv
<1>5. QED
  BY <1>2, <1>3, <1>4 DEF Outage, WalkFails, SkipFails, StartFails

\* A row that an edit keeps has its number and its runs; one it makes has a greater number,
\* so nothing that was loaded before is taken for it.
LEMMA UpsertIInv ==
  ASSUME IInv, TypeOK', NEW u \in Users, UpsertBasket(u)
  PROVE  IInv'
<1>1. TypeOK
  BY DEF IInv
<1>2. UNCHANGED <<clock, traded, imported, pc, view, job>>
  BY DEF UpsertBasket, world, session
<1>3. PICK wanted \in SUBSET ItemsOf(u) :
        /\ \E pos \in [wanted -> 0 .. Cardinality(wanted) - 1], on \in [wanted -> BOOLEAN] :
             /\ \A i, j \in wanted : pos[i] = pos[j] => i = j
             /\ row' = [i \in Items |->
                  IF UserOf[i] = u THEN EditedRow(i, wanted, pos, on) ELSE row[i]]
        /\ runs' = {r \in runs : UserOf[r.item] # u \/ r.item \in wanted}
  BY Zenon DEF UpsertBasket
<1>4. PICK pos, on :
        row' = [i \in Items |->
          IF UserOf[i] = u THEN EditedRow(i, wanted, pos, on) ELSE row[i]]
  BY <1>3
<1> DEFINE Kept(i) == UserOf[i] # u \/ (i \in wanted /\ row[i].there)
<1>5. ASSUME NEW i \in Items, Kept(i)
      PROVE  row'[i].id = row[i].id /\ row'[i].there = row[i].there
             /\ row'[i].cursor = row[i].cursor
  <2>1. row[i] \in ItemRow
    BY <1>1 DEF TypeOK
  <2>2. QED
    BY <1>4, <1>5, <2>1 DEF EditedRow, ItemRow
<1>6. ASSUME NEW i \in Items, ~Kept(i)
      PROVE  /\ row'[i].cursor = -1
             /\ \/ row'[i].id = row[i].id /\ ~row'[i].there
                \/ row'[i].id = row[i].id + 1
  BY <1>4, <1>6 DEF EditedRow, NoItem, NewItem, NoTime
<1>7. ASSUME NEW i \in Items
      PROVE  row[i].id \in Nat /\ row'[i].id \in Nat /\ row[i].id <= row'[i].id
  BY <1>1, <1>5, <1>6, NumberTypes
<1>8. ASSUME NEW i \in Items, NEW t, Kept(i), Accounted(i, t) PROVE Accounted(i, t)'
  BY <1>2, <1>3, <1>5, <1>8 DEF Accounted, InFailedRun
<1>9. ASSUME NEW i \in Items, NEW id \in Nat, id <= row[i].id, Current(i, id)'
      PROVE  Kept(i) /\ Current(i, id)
  BY <1>5, <1>6, <1>7, <1>9 DEF Current
<1>10. ASSUME NEW i \in Items PROVE RowOK(i)'
  <2>1. CASE Kept(i)
    BY <1>2, <1>5, <1>8, <2>1 DEF IInv, RowOK, Passed
  <2>2. CASE ~Kept(i)
    <3>1. clock \in Nat /\ traded[i] \subseteq Nat
      BY <1>1, TimeAssumption DEF TypeOK, Time
    <3>2. \A t \in traded[i] : ~(t + Lag < -1)
      BY <3>1, TimeAssumption
    <3>3. QED
      BY <1>2, <1>6, <2>2, <3>1, <3>2 DEF RowOK, Passed
  <2>3. QED
    BY <2>1, <2>2
<1>11. ASSUME NEW w \in Sessions, NEW i \in Items PROVE ViewOK(w, i)'
  <2>1. view[w][i].id \in Nat /\ view[w][i].id <= row[i].id
    BY <1>1, NumberTypes DEF IInv, ViewOK
  <2>2. ASSUME NEW t \in traded[i], Current(i, view[w][i].id)', t + Lag < view[w][i].cursor
        PROVE  Accounted(i, t)'
    BY <1>2, <1>8, <1>9, <2>1, <2>2 DEF IInv, ViewOK, Current
  <2>3. view[w][i].id <= row'[i].id
    BY <1>7, <2>1, NumberTypes
  <2>4. QED
    BY <1>2, <2>2, <2>3 DEF IInv, ViewOK
<1>12. ASSUME NEW w \in Sessions PROVE JobOK(w)'
  <2>1. CASE ~InFlight(w)
    BY <1>2, <2>1 DEF JobOK, InFlight
  <2>2. CASE InFlight(w)
    <3>1. PICK i \in Items, id \in Nat : i = job[w].item /\ id = job[w].id
      BY <1>1, <2>2, JobTypes
    <3>2. id <= row[i].id /\ id <= row'[i].id
      BY <1>7, <2>2, <3>1 DEF IInv, JobOK
    <3>3. ASSUME NEW t \in traded[i], Current(i, id)', t < job[w].start
          PROVE  Accounted(i, t)'
      BY <1>8, <1>9, <2>2, <3>1, <3>2, <3>3 DEF IInv, JobOK
    <3>4. QED
      BY <1>2, <2>2, <3>1, <3>2, <3>3
      DEF IInv, JobOK, InFlight, Current, Accounted, InFailedRun
  <2>3. QED
    BY <2>1, <2>2
<1>13. ASSUME NEW r \in runs' PROVE r.id <= row'[r.item].id
  <2>1. r \in runs /\ r.item \in Items /\ r.id \in Nat
    BY <1>1, <1>3, <1>13 DEF TypeOK, Run
  <2>2. QED
    BY <1>7, <2>1 DEF IInv
<1>14. QED
  BY <1>10, <1>11, <1>12, <1>13 DEF IInv

\* A deal is listed at most Lag after its time, so neither a cursor nor the end of a window
\* that a session must not miss has passed it yet.
LEMMA TradeIInv ==
  ASSUME IInv, TypeOK', NEW k \in Items, NEW d \in Time, Trade(k, d)
  PROVE  IInv'
<1>1. TypeOK
  BY DEF IInv
<1>2. /\ clock - Lag <= d
      /\ traded' = [traded EXCEPT ![k] = traded[k] \cup {d}]
      /\ UNCHANGED <<clock, imported, row, runs, pc, view, job>>
  BY DEF Trade, session
<1>3. ASSUME NEW i \in Items, NEW t \in traded'[i]
      PROVE  t \in traded[i] \/ \A n \in Int : n <= clock => ~(t + Lag < n)
  <2>1. t \in traded[i] \/ t = d
    BY <1>1, <1>2, <1>3 DEF TypeOK
  <2>2. clock \in Int /\ d \in Int /\ Lag \in Int
    BY <1>1, TimeAssumption DEF TypeOK, Time
  <2>3. QED
    BY <1>2, <2>1, <2>2
<1>4. ASSUME NEW i \in Items, NEW t, Accounted(i, t) PROVE Accounted(i, t)'
  BY <1>2, <1>4 DEF Accounted, InFailedRun
<1>5. ASSUME NEW i \in Items PROVE RowOK(i)'
  <2>1. row[i].cursor \in Int /\ row[i].cursor <= clock
    BY <1>1, NumberTypes DEF IInv, RowOK
  <2>2. ASSUME NEW t \in traded'[i], Passed(i, t) PROVE Accounted(i, t)
    <3>1. t \in traded[i]
      BY <1>3, <2>1, <2>2 DEF Passed
    <3>2. QED
      BY <2>2, <3>1 DEF IInv, RowOK
  <2>3. QED
    BY <1>2, <1>4, <2>1, <2>2 DEF RowOK, Passed
<1>6. ASSUME NEW w \in Sessions, NEW i \in Items PROVE ViewOK(w, i)'
  <2>1. /\ view[w][i].cursor \in Int /\ view[w][i].cursor <= clock
        /\ view[w][i].id <= row[i].id
    BY <1>1, NumberTypes DEF IInv, ViewOK
  <2>2. ASSUME NEW t \in traded'[i], Current(i, view[w][i].id), t + Lag < view[w][i].cursor
        PROVE  Accounted(i, t)
    <3>1. t \in traded[i]
      BY <1>3, <2>1, <2>2
    <3>2. QED
      BY <2>2, <3>1 DEF IInv, ViewOK
  <2>3. QED
    BY <1>2, <1>4, <2>1, <2>2 DEF ViewOK, Current
<1>7. ASSUME NEW w \in Sessions PROVE JobOK(w)'
  <2>1. CASE ~InFlight(w)
    BY <1>2, <2>1 DEF JobOK, InFlight
  <2>2. CASE InFlight(w)
    <3>1. PICK i \in Items, id \in Nat, start \in Int, end \in Int :
            i = job[w].item /\ id = job[w].id /\ start = job[w].start /\ end = job[w].end
      BY <1>1, <2>2, JobTypes
    <3>2. /\ id <= row[i].id /\ end <= clock
          /\ start <= 0 \/ start + Overlap <= end
          /\ \A t \in traded[i] : Current(i, id) /\ t < start => Accounted(i, t)
          /\ \A t \in traded[i] : start <= t /\ t + Lag < end => t \in job[w].got
          /\ pc[w] \in {"rebuild", "finish"} => job[w].got \subseteq imported[i]
      BY <2>2, <3>1 DEF IInv, JobOK
    <3>3. ASSUME NEW t \in traded'[i], Current(i, id), t < start PROVE Accounted(i, t)
      <4>1. t \in Nat
        BY <3>3, TimeAssumption DEF TypeOK, Time
      <4>2. t + Lag < end
        BY <3>1, <3>2, <3>3, <4>1, TimeAssumption
      <4>3. t \in traded[i]
        BY <1>3, <3>2, <4>2
      <4>4. QED
        BY <3>2, <3>3, <4>3
    <3>4. ASSUME NEW t \in traded'[i], start <= t, t + Lag < end PROVE t \in job[w].got
      BY <1>3, <3>2, <3>4
    <3>5. /\ job'[w].item = i /\ job'[w].id = id /\ job'[w].start = start
          /\ job'[w].end = end /\ job'[w].got = job[w].got
      BY <1>2, <3>1
    <3>6. ASSUME NEW t \in traded'[i], Current(job[w].item, job[w].id)', t < start
          PROVE  Accounted(job[w].item, t)'
      BY <1>2, <1>4, <3>1, <3>3, <3>5, <3>6 DEF Accounted, InFailedRun, Current
    <3>7. QED
      BY <1>2, <3>2, <3>4, <3>5, <3>6 DEF JobOK
  <2>3. QED
    BY <2>1, <2>2
<1>8. QED
  BY <1>2, <1>5, <1>6, <1>7 DEF IInv

\* Edits, the clock, the exchange and a restart preserve the invariant.
LEMMA SurroundingsIInv ==
  ASSUME IInv, TypeOK', Surroundings
  PROVE  IInv'
<1>1. TypeOK
  BY DEF IInv
<1>2. ASSUME NEW i \in Items, ReconstructRoute(i) PROVE IInv'
  <2>1. UNCHANGED <<clock, traded, imported, row, runs, view, job, pc>>
    BY <1>2 DEF ReconstructRoute, session
  <2>2. Steady
    BY <1>1, <2>1, NumberTypes DEF Steady
  <2>3. QED
    BY <2>1, <2>2, OutsideIInv
<1>3. CASE Tick
  <2>1. UNCHANGED <<traded, imported, row, runs, view, job, pc>> /\ clock' = clock + 1
    BY <1>3 DEF Tick, world, session
  <2>2. Steady
    BY <1>1, <2>1, NumberTypes DEF Steady
  <2>3. QED
    BY <2>1, <2>2, OutsideIInv
<1>4. CASE Restart
  <2>1. UNCHANGED <<clock, traded, imported, row, runs>>
    BY <1>4 DEF Restart, world
  <2>2. Steady
    BY <1>1, <2>1, NumberTypes DEF Steady
  <2>3. ASSUME NEW w \in Sessions, NEW i \in Items PROVE view'[w][i] = NoItem(0)
    BY <1>4 DEF Restart
  <2>4. ASSUME NEW w \in Sessions PROVE ~InFlight(w)'
    BY <1>4 DEF Restart, InFlight
  <2>5. QED
    BY <2>1, <2>2, <2>3, <2>4, SteadyStep
<1>5. QED
  BY <1>2, <1>3, <1>4, UpsertIInv, TradeIInv DEF Surroundings

\* The invariant is inductive.
LEMMA NextIInv == IInv /\ [Next]_vars => IInv'
<1>1. SUFFICES ASSUME IInv, [Next]_vars PROVE IInv'
  OBVIOUS
<1>2. TypeOK /\ TypeOK'
  BY <1>1, NextTypeOK DEF IInv
<1>3. CASE UNCHANGED vars
  <2>1. UNCHANGED <<clock, traded, imported, row, runs, view, job, pc>>
    BY <1>3 DEF vars, world, session
  <2>2. Steady
    BY <1>2, <2>1, NumberTypes DEF Steady
  <2>3. QED
    BY <1>1, <1>2, <2>1, <2>2, OutsideIInv
<1>4. ASSUME NEW w \in Sessions, SyncItem(w) PROVE IInv'
  BY <1>1, <1>2, <1>4, TryIInv, RecordIInv, AbortIInv DEF SyncItem, RecordAborts
<1>5. CASE Next
  BY <1>1, <1>2, <1>4, <1>5, BeginIInv, WalkIInv, OutageIInv, SurroundingsIInv DEF Next
<1>6. QED
  BY <1>1, <1>3, <1>5

\* For every basket, any number of sessions, any overlap no shorter than the listing delay
\* and any interleaving of syncs, edits, failures and restarts, a deal that the cursor of an
\* item has passed is stored or lies in the window of a failed run.
THEOREM NoGap == Spec => []NoSilentGap
<1>1. IInv => NoSilentGap
  BY DEF IInv, RowOK, NoSilentGap
<1>2. QED
  BY <1>1, InitIInv, NextIInv, PTL DEF Spec

-----------------------------------------------------------------------------
(* The cursor of an item comes from a finished run of the same row.        *)

FinishedRun(i) ==
  \E r \in runs : /\ r.item = i /\ r.id = row[i].id
                  /\ r.status \in {"success", "error"} /\ r.end = row[i].cursor

\* A row that stays, with its finished runs, still has the run its cursor comes from.
LEMMA RowStays ==
  ASSUME CursorFromRun, NEW i \in Items, row'[i].there, row'[i].cursor # NoTime,
         row'[i].there = row[i].there, row'[i].id = row[i].id,
         row'[i].cursor = row[i].cursor,
         \A r \in runs : r.status # "running" /\ r.item = i => r \in runs'
  PROVE  FinishedRun(i)'
<1>1. PICK r \in runs : /\ r.item = i /\ r.id = row[i].id
                        /\ r.status \in {"success", "error"} /\ r.end = row[i].cursor
  BY DEF CursorFromRun
<1>2. QED
  BY <1>1 DEF FinishedRun

\* Every step keeps the cursor at the end of a finished run of its row.
LEMMA CursorNext == TypeOK /\ TypeOK' /\ CursorFromRun /\ [Next]_vars => CursorFromRun'
<1>1. SUFFICES ASSUME TypeOK, TypeOK', CursorFromRun, [Next]_vars,
                      NEW i \in Items, row'[i].there, row'[i].cursor # NoTime
               PROVE  FinishedRun(i)'
  BY DEF CursorFromRun, FinishedRun
<1>2. row[i] \in ItemRow
  BY <1>1 DEF TypeOK
<1>3. CASE row' = row /\ runs \subseteq runs'
  BY <1>1, <1>3, RowStays
<1>4. ASSUME NEW w \in Sessions, NEW k \in Items, WriteRunning(w, k) PROVE FinishedRun(i)'
  <2>1. row' = [row EXCEPT ![k] = Marked(row[k], Seen(w, k))] /\ runs \subseteq runs'
    BY <1>4 DEF WriteRunning
  <2>2. row'[i].there = row[i].there /\ row'[i].id = row[i].id /\ row'[i].cursor = row[i].cursor
    BY <1>1, <1>2, <2>1 DEF TypeOK, Marked, ItemRow
  <2>3. QED
    BY <1>1, <2>1, <2>2, RowStays
<1>5. ASSUME NEW w \in Sessions, NEW status \in {"success", "error"}, WriteOutcome(w, status),
             InFlight(w), Current(job[w].item, job[w].id)
      PROVE  FinishedRun(i)'
  <2>1. PICK k \in Items, end \in Int : k = job[w].item /\ end = job[w].end
    BY <1>1, <1>5, JobTypes
  <2>2. /\ row' = [row EXCEPT ![k].status = status, ![k].cursor = end]
        /\ runs' = (runs \ {RunOf(w, "running")}) \cup {RunOf(w, status)}
    BY <1>5, <2>1 DEF WriteOutcome
  <2>3. CASE i = k
    <3>1. row'[i].id = row[i].id /\ row'[i].cursor = end
      BY <1>1, <1>2, <2>2, <2>3 DEF TypeOK, ItemRow
    <3>2. RunOf(w, status).item = i /\ RunOf(w, status).id = row[i].id
          /\ RunOf(w, status).status = status /\ RunOf(w, status).end = end
      BY <1>5, <2>1, <2>3 DEF RunOf, Current
    <3>3. RunOf(w, status) \in runs'
      BY <2>2
    <3>4. QED
      BY <1>5, <3>1, <3>2, <3>3 DEF FinishedRun
  <2>4. CASE i # k
    <3>1. row'[i] = row[i]
      BY <1>1, <2>2, <2>4 DEF TypeOK
    <3>2. \A r \in runs : r.status # "running" => r \in runs'
      BY <2>2 DEF RunOf
    <3>3. QED
      BY <1>1, <3>1, <3>2, RowStays
  <2>5. QED
    BY <2>3, <2>4
<1>6. ASSUME NEW u \in Users, UpsertBasket(u) PROVE FinishedRun(i)'
  <2>1. PICK wanted \in SUBSET ItemsOf(u) :
          /\ \E pos \in [wanted -> 0 .. Cardinality(wanted) - 1], on \in [wanted -> BOOLEAN] :
               /\ \A k, j \in wanted : pos[k] = pos[j] => k = j
               /\ row' = [k \in Items |->
                    IF UserOf[k] = u THEN EditedRow(k, wanted, pos, on) ELSE row[k]]
          /\ runs' = {r \in runs : UserOf[r.item] # u \/ r.item \in wanted}
    BY <1>6, Zenon DEF UpsertBasket
  <2>2. PICK pos, on :
          row' = [k \in Items |->
            IF UserOf[k] = u THEN EditedRow(k, wanted, pos, on) ELSE row[k]]
    BY <2>1
  <2>3. CASE UserOf[i] # u \/ (i \in wanted /\ row[i].there)
    <3>1. row'[i].there = row[i].there /\ row'[i].id = row[i].id
          /\ row'[i].cursor = row[i].cursor
      BY <1>2, <2>2, <2>3 DEF EditedRow, ItemRow
    <3>2. QED
      BY <1>1, <2>1, <2>3, <3>1, RowStays
  <2>4. CASE UserOf[i] = u /\ ~(i \in wanted /\ row[i].there)
    <3>1. row'[i].cursor = NoTime
      BY <2>2, <2>4 DEF EditedRow, NoItem, NewItem
    <3>2. QED
      BY <1>1, <3>1
  <2>5. QED
    BY <2>3, <2>4
<1>7. CASE UNCHANGED vars
  BY <1>3, <1>7 DEF vars
<1>8. ASSUME NEW w \in Sessions, Begin(w) PROVE FinishedRun(i)'
  BY <1>3, <1>8 DEF Begin, SyncBasket, SyncAllBaskets
<1>9. ASSUME NEW w \in Sessions, Walk(w) PROVE FinishedRun(i)'
  BY <1>3, <1>4, <1>9
  DEF Walk, EnterBasket, SkipDisabled, SkipRunning, WriteSkipped, StartItem, WalkAborts, EndSync
<1>10. ASSUME NEW w \in Sessions, SyncItem(w) PROVE FinishedRun(i)'
  <2>1. CASE RecordSuccess(w) \/ RecordError(w)
    BY <1>5, <2>1 DEF RecordSuccess, RecordError, InFlight
  <2>2. QED
    BY <1>3, <1>10, <2>1
    DEF SyncItem, FetchDone, FetchFails, ImportDeals, ImportFails, Rebuild, RebuildFails,
        RecordAborts
<1>11. CASE Surroundings
  BY <1>3, <1>6, <1>11 DEF Surroundings, ReconstructRoute, Trade, Tick, Restart
<1>12. ASSUME NEW w \in Sessions, Outage(w) PROVE FinishedRun(i)'
  <2>1. CASE RecordFails(w) /\ ~UNCHANGED <<row, runs>>
    <3>1. PICK status \in {"success", "error"} : WriteOutcome(w, status)
      BY <2>1 DEF RecordFails
    <3>2. QED
      BY <1>5, <2>1, <3>1 DEF RecordFails, InFlight
  <2>2. QED
    BY <1>3, <1>4, <1>12, <2>1
    DEF Outage, WalkFails, SkipFails, WriteSkipped, StartFails
<1>13. QED
  BY <1>1, <1>7, <1>8, <1>9, <1>10, <1>11, <1>12 DEF Next

\* However syncs, edits and restarts interleave, an item continues only from the window of
\* a finished run of its own row.
THEOREM CursorRecorded == Spec => []CursorFromRun
<1>1. Init => CursorFromRun
  BY DEF Init, CursorFromRun, NewItem
<1>2. QED
  BY <1>1, CursorNext, NextTypeOK, InitTypeOK, PTL DEF Spec

-----------------------------------------------------------------------------
(* A run that is recorded as successful saw the positions rebuilt.         *)

\* A session that does not move keeps what LoopOK says of it, if the deals and positions
\* stay as they are.
LEMMA LoopNext == TypeOK /\ TypeOK' /\ LoopOK /\ [Next]_vars => LoopOK'
<1>1. SUFFICES ASSUME TypeOK, TypeOK', LoopOK, [Next]_vars PROVE LoopOK'
  OBVIOUS
<1> DEFINE Rebuilt(w) == pc[w] = "finish" => positions[job[w].item] = imported[job[w].item]
\* At most the session that holds the loop is past a fetch.
<1>2. ASSUME NEW w \in Sessions, loop \in {w, Free},
             \A v \in Sessions \ {w} : pc'[v] = pc[v],
             pc'[w] \in {"idle", "fetch"} \/ loop' = w, pc'[w] # "finish"
      PROVE  LoopOK'
  BY <1>1, <1>2, UserAssumption DEF LoopOK
<1>3. CASE UNCHANGED vars
  BY <1>1, <1>3 DEF vars, world, session, LoopOK
<1>4. ASSUME NEW w \in Sessions, Begin(w) PROVE LoopOK'
  BY <1>1, <1>2, <1>4 DEF Begin, SyncBasket, SyncAllBaskets, TypeOK
<1>5. ASSUME NEW w \in Sessions, EndSession(w), loop = w PROVE LoopOK'
  BY <1>1, <1>2, <1>5 DEF EndSession, TypeOK
<1>6. ASSUME NEW w \in Sessions, Walk(w) PROVE LoopOK'
  <2>1. ASSUME NEW i \in Items, StartItem(w, i) PROVE LoopOK'
    BY <1>1, <1>2, <2>1 DEF StartItem, WriteRunning, TypeOK
  <2>2. CASE UNCHANGED <<pc, loop>> /\ pc[w] = "walk" /\ loop = w
    BY <1>1, <1>2, <2>2
  <2>3. QED
    BY <1>5, <1>6, <2>1, <2>2
    DEF Walk, EnterBasket, SkipDisabled, SkipRunning, WriteSkipped, WalkAborts, EndSync
<1>7. ASSUME NEW w \in Sessions, SyncItem(w) PROVE LoopOK'
  <2>1. CASE FetchDone(w) \/ FetchFails(w)
    BY <1>1, <1>2, <2>1 DEF FetchDone, FetchFails, GoTo, TypeOK
  <2>2. CASE ImportDeals(w) \/ ImportFails(w) \/ RebuildFails(w)
    BY <1>1, <1>2, <2>2 DEF ImportDeals, ImportFails, RebuildFails, GoTo, RollBack, TypeOK
  <2>3. CASE Rebuild(w)
    <3>1. \A v \in Sessions \ {w} : pc'[v] = pc[v] /\ pc[v] \in {"idle", "fetch"}
      BY <1>1, <2>3 DEF Rebuild, GoTo, LoopOK, TypeOK
    <3>2. pc'[w] = "finish" /\ loop' = w
      BY <1>1, <2>3 DEF Rebuild, GoTo, TypeOK
    <3>3. PICK i \in Items : i = job[w].item
      BY <1>1, <2>3, JobTypes DEF Rebuild, InFlight
    <3>4. job' = job /\ imported' = imported /\ positions'[i] = imported[i]
      BY <1>1, <2>3, <3>3 DEF Rebuild, GoTo, TypeOK
    <3>5. QED
      BY <3>1, <3>2, <3>3, <3>4 DEF LoopOK
  <2>4. CASE RecordSuccess(w) \/ RecordError(w)
    BY <1>1, <1>2, <2>4 DEF RecordSuccess, RecordError, TypeOK
  <2>5. CASE RecordAborts(w)
    BY <1>5, <2>5 DEF RecordAborts
  <2>6. QED
    BY <1>7, <2>1, <2>2, <2>3, <2>4, <2>5 DEF SyncItem
<1>8. CASE Surroundings
  <2>1. ASSUME NEW i \in Items, ReconstructRoute(i) PROVE LoopOK'
    <3>1. UNCHANGED <<imported, loop, pc, job>>
      BY <2>1 DEF ReconstructRoute, session
    <3>2. ASSUME NEW k \in Items, positions[k] = imported[k] PROVE positions'[k] = imported[k]
      BY <1>1, <2>1, <3>2 DEF ReconstructRoute, TypeOK
    <3>3. ASSUME NEW w \in Sessions, pc[w] = "finish" PROVE job[w].item \in Items
      BY <1>1, <3>3, JobTypes DEF InFlight
    <3>4. QED
      BY <1>1, <3>1, <3>2, <3>3 DEF LoopOK
  <2>2. CASE Restart
    BY <2>2 DEF Restart, LoopOK
  <2>3. CASE UNCHANGED <<imported, positions, loop, pc, job>>
    BY <1>1, <2>3 DEF LoopOK
  <2>4. QED
    BY <1>8, <2>1, <2>2, <2>3
    DEF Surroundings, UpsertBasket, Trade, Tick, world, session
<1>9. ASSUME NEW w \in Sessions, Outage(w) PROVE LoopOK'
  BY <1>5, <1>9
  DEF Outage, WalkFails, SkipFails, WriteSkipped, StartFails, WriteRunning, RecordFails,
      DatabaseFails
<1>10. QED
  BY <1>1, <1>3, <1>4, <1>6, <1>7, <1>8, <1>9 DEF Next

\* Only a sync at its finish adds a successful run, and then it leaves deals and positions
\* alone.
LEMMA SuccessStep ==
  ASSUME TypeOK, LoopOK, [Next]_vars, NEW r \in runs' \ runs, r.status = "success"
  PROVE  positions'[r.item] = imported'[r.item]
<1>1. ASSUME NEW w \in Sessions, pc[w] = "finish", WriteOutcome(w, "success"), UNCHANGED world
      PROVE  positions'[r.item] = imported'[r.item]
  <2>1. r = RunOf(w, "success")
    BY <1>1 DEF WriteOutcome
  <2>2. positions[job[w].item] = imported[job[w].item]
    BY <1>1 DEF LoopOK
  <2>3. QED
    BY <1>1, <2>1, <2>2 DEF RunOf, world
<1>2. ASSUME NEW w \in Sessions, RecordError(w) PROVE FALSE
  BY <1>2 DEF RecordError, WriteOutcome, RunOf
<1>3. ASSUME NEW w \in Sessions, Begin(w) PROVE FALSE
  BY <1>3 DEF Begin, SyncBasket, SyncAllBaskets
<1>4. ASSUME NEW w \in Sessions, Walk(w) PROVE FALSE
  BY <1>4
  DEF Walk, EnterBasket, SkipDisabled, SkipRunning, WriteSkipped, StartItem, WriteRunning,
      WalkAborts, EndSync, NewRun
<1>5. ASSUME NEW w \in Sessions, SyncItem(w), ~RecordSuccess(w), ~RecordError(w) PROVE FALSE
  BY <1>5
  DEF SyncItem, FetchDone, FetchFails, ImportDeals, ImportFails, Rebuild, RebuildFails,
      RecordAborts
<1>6. CASE Surroundings
  BY <1>6 DEF Surroundings, UpsertBasket, ReconstructRoute, Trade, Tick, Restart
<1>7. CASE UNCHANGED vars
  BY <1>7 DEF vars
<1>8. ASSUME NEW w \in Sessions, Outage(w) PROVE positions'[r.item] = imported'[r.item]
  <2>1. CASE RecordFails(w)
    <3>1. UNCHANGED world /\ runs' # runs
      BY <2>1 DEF RecordFails, DatabaseFails
    <3>2. WriteOutcome(w, IF pc[w] = "finish" THEN "success" ELSE "error")
      BY <2>1, <3>1 DEF RecordFails
    <3>3. ~ WriteOutcome(w, "error")
      BY DEF WriteOutcome, RunOf
    <3>4. QED
      BY <1>1, <3>1, <3>2, <3>3
  <2>2. ~ WalkFails(w)
    BY DEF WalkFails
  <2>3. QED
    BY <1>8, <2>1, <2>2
    DEF Outage, SkipFails, WriteSkipped, StartFails, WriteRunning, NewRun
<1>9. ASSUME NEW w \in Sessions, RecordSuccess(w) PROVE positions'[r.item] = imported'[r.item]
  BY <1>1, <1>9 DEF RecordSuccess
<1>10. QED
  BY <1>2, <1>3, <1>4, <1>5, <1>6, <1>7, <1>8, <1>9 DEF Next

\* A sync reports success only when the positions of its symbol have been built from every
\* deal that is stored at that moment.
THEOREM SuccessIsRebuilt == Spec => SuccessMeansRebuilt
<1>1. Init => LoopOK
  BY DEF Init, LoopOK
<1>2. TypeOK /\ LoopOK /\ [Next]_vars =>
        [\A r \in runs' \ runs :
           r.status = "success" => positions'[r.item] = imported'[r.item]]_runs
  BY SuccessStep
<1>3. QED
  BY <1>1, <1>2, LoopNext, NextTypeOK, InitTypeOK, PTL DEF Spec, SuccessMeansRebuilt

-----------------------------------------------------------------------------
(* What a sync leaves running.                                            *)

\* Every run belongs to a row of the table.
LEMMA RunsNext == TypeOK /\ RunsOfRows /\ [Next]_vars => RunsOfRows'
<1> DEFINE Here(i, id) == row'[i].there /\ row'[i].id = id
<1>1. SUFFICES ASSUME TypeOK, RunsOfRows, [Next]_vars, NEW r \in runs'
               PROVE  Here(r.item, r.id)
  BY DEF RunsOfRows, Current
<1>2. ASSUME \A i \in Items : row'[i].there = row[i].there /\ row'[i].id = row[i].id,
             r \in runs \/ (r.item \in Items /\ Current(r.item, r.id))
      PROVE  Here(r.item, r.id)
  BY <1>1, <1>2 DEF RunsOfRows, Current, TypeOK, Run
<1>3. ASSUME NEW w \in Sessions, NEW i \in Items, WriteSkipped(w, i)
      PROVE  Here(r.item, r.id)
  BY <1>2, <1>3 DEF WriteSkipped, NewRun
<1>4. ASSUME NEW w \in Sessions, NEW i \in Items, WriteRunning(w, i)
      PROVE  Here(r.item, r.id)
  <2>1. row' = [row EXCEPT ![i] = Marked(row[i], Seen(w, i))]
    BY <1>4 DEF WriteRunning
  <2>2. \A k \in Items : row'[k].there = row[k].there /\ row'[k].id = row[k].id
    BY <1>1, <2>1 DEF TypeOK, Marked, ItemRow
  <2>3. r \in runs \/ (r.item = i /\ r.id = view[w][i].id)
    BY <1>4 DEF WriteRunning, NewRun
  <2>4. QED
    BY <1>2, <1>4, <2>2, <2>3 DEF WriteRunning
<1>5. ASSUME NEW w \in Sessions, NEW status, WriteOutcome(w, status), InFlight(w),
             Current(job[w].item, job[w].id)
      PROVE  Here(r.item, r.id)
  <2>1. PICK k \in Items : k = job[w].item
    BY <1>1, <1>5, JobTypes
  <2>2. row' = [row EXCEPT ![k].status = status, ![k].cursor = job[w].end]
    BY <1>5, <2>1 DEF WriteOutcome
  <2>3. \A i \in Items : row'[i].there = row[i].there /\ row'[i].id = row[i].id
    BY <1>1, <2>2 DEF TypeOK, ItemRow
  <2>4. r \in runs \/ (r.item = k /\ r.id = job[w].id)
    BY <1>5, <2>1 DEF WriteOutcome, RunOf
  <2>5. QED
    BY <1>2, <1>5, <2>1, <2>3, <2>4
<1>6. ASSUME NEW u \in Users, UpsertBasket(u) PROVE Here(r.item, r.id)
  <2>1. PICK wanted \in SUBSET ItemsOf(u) :
          /\ \E pos \in [wanted -> 0 .. Cardinality(wanted) - 1], on \in [wanted -> BOOLEAN] :
               /\ \A k, j \in wanted : pos[k] = pos[j] => k = j
               /\ row' = [k \in Items |->
                    IF UserOf[k] = u THEN EditedRow(k, wanted, pos, on) ELSE row[k]]
          /\ runs' = {q \in runs : UserOf[q.item] # u \/ q.item \in wanted}
    BY <1>6, Zenon DEF UpsertBasket
  <2>2. PICK pos, on :
          row' = [k \in Items |->
            IF UserOf[k] = u THEN EditedRow(k, wanted, pos, on) ELSE row[k]]
    BY <2>1
  <2>3. /\ r \in runs /\ r.item \in Items /\ row[r.item] \in ItemRow
        /\ row[r.item].there /\ row[r.item].id = r.id
        /\ UserOf[r.item] # u \/ r.item \in wanted
    BY <1>1, <2>1 DEF RunsOfRows, Current, TypeOK, Run
  <2>4. QED
    BY <2>2, <2>3 DEF EditedRow, ItemRow
<1>7. CASE row' = row /\ runs' = runs
  BY <1>2, <1>7
<1>8. CASE UNCHANGED vars
  BY <1>7, <1>8 DEF vars
<1>9. ASSUME NEW w \in Sessions, Begin(w) \/ Walk(w) PROVE Here(r.item, r.id)
  BY <1>3, <1>4, <1>7, <1>9
  DEF Begin, SyncBasket, SyncAllBaskets, Walk, EnterBasket, SkipDisabled, SkipRunning, StartItem,
      WalkAborts, EndSync
<1>10. ASSUME NEW w \in Sessions, SyncItem(w) PROVE Here(r.item, r.id)
  <2>1. CASE RecordSuccess(w) \/ RecordError(w)
    BY <1>5, <2>1 DEF RecordSuccess, RecordError, InFlight
  <2>2. QED
    BY <1>7, <1>10, <2>1
    DEF SyncItem, FetchDone, FetchFails, ImportDeals, ImportFails, Rebuild, RebuildFails,
        RecordAborts
<1>11. CASE Surroundings
  BY <1>6, <1>7, <1>11 DEF Surroundings, ReconstructRoute, Trade, Tick, Restart
<1>12. ASSUME NEW w \in Sessions, Outage(w) PROVE Here(r.item, r.id)
  <2>1. CASE RecordFails(w) /\ ~UNCHANGED <<row, runs>>
    BY <1>5, <2>1 DEF RecordFails, InFlight
  <2>2. QED
    BY <1>3, <1>4, <1>7, <1>12, <2>1 DEF Outage, WalkFails, SkipFails, StartFails
<1>13. QED
  BY <1>1, <1>8, <1>9, <1>10, <1>11, <1>12 DEF Next

\* A step adds at most one run.
LEMMA RunsAdded ==
  ASSUME [Next]_vars
  PROVE  \E x : runs' \subseteq runs \cup {x}
<1>1. ASSUME NEW w \in Sessions, NEW status, WriteOutcome(w, status)
      PROVE  \E x : runs' \subseteq runs \cup {x}
  BY <1>1 DEF WriteOutcome
<1>2. ASSUME NEW w \in Sessions, NEW i \in Items, WriteSkipped(w, i) \/ WriteRunning(w, i)
      PROVE  \E x : runs' \subseteq runs \cup {x}
  BY <1>2 DEF WriteSkipped, WriteRunning
<1>3. CASE runs' \subseteq runs
  BY <1>3
<1>4. CASE UNCHANGED vars
  BY <1>3, <1>4 DEF vars
<1>5. ASSUME NEW w \in Sessions, Begin(w) \/ Walk(w) PROVE \E x : runs' \subseteq runs \cup {x}
  BY <1>2, <1>3, <1>5
  DEF Begin, SyncBasket, SyncAllBaskets, Walk, EnterBasket, SkipDisabled, SkipRunning, StartItem,
      WalkAborts, EndSync
<1>6. ASSUME NEW w \in Sessions, SyncItem(w) PROVE \E x : runs' \subseteq runs \cup {x}
  BY <1>1, <1>3, <1>6
  DEF SyncItem, FetchDone, FetchFails, ImportDeals, ImportFails, Rebuild, RebuildFails,
      RecordSuccess, RecordError, RecordAborts
<1>7. ASSUME NEW w \in Sessions, Outage(w) PROVE \E x : runs' \subseteq runs \cup {x}
  BY <1>1, <1>2, <1>3, <1>7 DEF Outage, WalkFails, SkipFails, StartFails, RecordFails
<1>8. CASE Surroundings
  BY <1>3, <1>8 DEF Surroundings, UpsertBasket, ReconstructRoute, Trade, Tick, Restart
<1>9. QED
  BY <1>4, <1>5, <1>6, <1>7, <1>8 DEF Next

\* The runs stay a finite set.
FiniteRuns == IsFiniteSet(runs)

LEMMA RunsFinite == FiniteRuns /\ [Next]_vars => FiniteRuns'
<1>1. SUFFICES ASSUME IsFiniteSet(runs), [Next]_vars PROVE IsFiniteSet(runs')
  BY DEF FiniteRuns
<1>2. PICK x : runs' \subseteq runs \cup {x}
  BY <1>1, RunsAdded
<1>3. IsFiniteSet(runs \cup {x})
  BY <1>1, FS_AddElement
<1>4. QED
  BY <1>2, <1>3, FS_Subset

\* An item that is running has a running run of its row.
ItemsHaveRuns ==
  \A i \in Items :
    row[i].there /\ row[i].status = "running" =>
      \E r \in runs : r.item = i /\ r.id = row[i].id /\ r.status = "running"

LEMMA ItemsHaveRunsNext == TypeOK /\ ItemsHaveRuns /\ [Next]_vars => ItemsHaveRuns'
<1> DEFINE Has(i) == \E r \in runs' : r.item = i /\ r.id = row'[i].id /\ r.status = "running"
<1>1. SUFFICES ASSUME TypeOK, ItemsHaveRuns, [Next]_vars,
                      NEW i \in Items, row'[i].there, row'[i].status = "running"
               PROVE  Has(i)
  BY DEF ItemsHaveRuns
<1>2. row[i] \in ItemRow
  BY <1>1 DEF TypeOK
<1>3. ASSUME row'[i].there = row[i].there, row'[i].status = row[i].status, row'[i].id = row[i].id,
             \A r \in runs : r.item = i /\ r.status = "running" => r \in runs'
      PROVE  Has(i)
  BY <1>1, <1>3 DEF ItemsHaveRuns
<1>4. CASE row' = row /\ runs \subseteq runs'
  BY <1>3, <1>4
<1>5. ASSUME NEW w \in Sessions, NEW k \in Items, WriteRunning(w, k) PROVE Has(i)
  <2> DEFINE new == NewRun(w, k, view[w][k].id, SyncStart(Seen(w, k), clock), "running")
  <2>1. /\ row' = [row EXCEPT ![k] = Marked(row[k], Seen(w, k))]
        /\ runs' = runs \cup {new} /\ row[k].id = view[w][k].id
    BY <1>5 DEF WriteRunning, Current
  <2>2. new.item = k /\ new.id = view[w][k].id /\ new.status = "running"
    BY DEF NewRun
  <2> HIDE DEF new
  <2>3. CASE i = k
    <3>1. row'[i].id = row[i].id
      BY <1>1, <1>2, <2>1, <2>3 DEF TypeOK, Marked, ItemRow
    <3>2. QED
      BY <2>1, <2>2, <2>3, <3>1
  <2>4. CASE i # k
    <3>1. row'[i] = row[i]
      BY <1>1, <2>1, <2>4 DEF TypeOK
    <3>2. QED
      BY <1>3, <2>1, <3>1
  <2>5. QED
    BY <2>3, <2>4
<1>6. ASSUME NEW w \in Sessions, InFlight(w), NEW status \in {"success", "error"},
             WriteOutcome(w, status)
      PROVE  Has(i)
  <2>1. PICK k \in Items, end \in Int : k = job[w].item /\ end = job[w].end
    BY <1>1, <1>6, JobTypes
  <2>2. /\ row' = [row EXCEPT ![k].status = status, ![k].cursor = end]
        /\ runs' = (runs \ {RunOf(w, "running")}) \cup {RunOf(w, status)}
        /\ RunOf(w, "running").item = k
    BY <1>6, <2>1 DEF WriteOutcome, RunOf
  <2>3. i # k
    BY <1>1, <1>2, <2>2 DEF TypeOK, ItemRow
  <2>4. row'[i] = row[i]
    BY <1>1, <2>2, <2>3 DEF TypeOK
  <2>5. QED
    BY <1>3, <2>2, <2>3, <2>4
<1>7. ASSUME NEW u \in Users, UpsertBasket(u) PROVE Has(i)
  <2>1. PICK wanted \in SUBSET ItemsOf(u) :
          /\ \E pos \in [wanted -> 0 .. Cardinality(wanted) - 1], on \in [wanted -> BOOLEAN] :
               /\ \A k, j \in wanted : pos[k] = pos[j] => k = j
               /\ row' = [k \in Items |->
                    IF UserOf[k] = u THEN EditedRow(k, wanted, pos, on) ELSE row[k]]
          /\ runs' = {q \in runs : UserOf[q.item] # u \/ q.item \in wanted}
    BY <1>7, Zenon DEF UpsertBasket
  <2>2. PICK pos, on :
          row' = [k \in Items |->
            IF UserOf[k] = u THEN EditedRow(k, wanted, pos, on) ELSE row[k]]
    BY <2>1
  <2>3. /\ row'[i].there = row[i].there /\ row'[i].status = row[i].status
        /\ row'[i].id = row[i].id /\ (UserOf[i] # u \/ i \in wanted)
    BY <1>1, <1>2, <2>2 DEF EditedRow, ItemRow, NoItem, NewItem
  <2>4. QED
    BY <1>3, <2>1, <2>3
<1>8. CASE UNCHANGED vars
  BY <1>4, <1>8 DEF vars
<1>9. ASSUME NEW w \in Sessions, Begin(w) \/ Walk(w) PROVE Has(i)
  BY <1>4, <1>5, <1>9
  DEF Begin, SyncBasket, SyncAllBaskets, Walk, EnterBasket, SkipDisabled, SkipRunning,
      WriteSkipped, StartItem, WalkAborts, EndSync
<1>10. ASSUME NEW w \in Sessions, SyncItem(w) PROVE Has(i)
  <2>1. CASE RecordSuccess(w) \/ RecordError(w)
    BY <1>6, <2>1 DEF RecordSuccess, RecordError, InFlight
  <2>2. QED
    BY <1>4, <1>10, <2>1
    DEF SyncItem, FetchDone, FetchFails, ImportDeals, ImportFails, Rebuild, RebuildFails,
        RecordAborts
<1>11. ASSUME NEW w \in Sessions, Outage(w) PROVE Has(i)
  <2>1. CASE RecordFails(w) /\ ~UNCHANGED <<row, runs>>
    BY <1>6, <2>1 DEF RecordFails, InFlight
  <2>2. QED
    BY <1>4, <1>5, <1>11, <2>1 DEF Outage, WalkFails, SkipFails, WriteSkipped, StartFails
<1>12. CASE Surroundings
  BY <1>4, <1>7, <1>12 DEF Surroundings, ReconstructRoute, Trade, Tick, Restart
<1>13. QED
  BY <1>1, <1>8, <1>9, <1>10, <1>11, <1>12 DEF Next

\* A session that stays on its way stays on the way to finish the same run.
Keeps(w) == InFlight(w) => InFlight(w)' /\ RunOf(w, "running")' = RunOf(w, "running")

\* What is left after a step in which all sessions but one stay on their way.
LEMMA LeftBehind ==
  ASSUME NEW w \in Sessions, \A v \in Sessions \ {w} : Keeps(v), NEW x,
         InFlight(w) => x = RunOf(w, "running"),
         \A r \in runs' : r.status = "running" => r \in runs \/ r = x
  PROVE  RunsLeft' \subseteq RunsLeft \cup {x}
<1>1. ASSUME NEW r \in RunsLeft', r # x PROVE r \in RunsLeft
  <2>1. /\ r \in runs /\ r.status = "running"
        /\ \A v \in Sessions : InFlight(v)' => RunOf(v, "running")' # r
    BY <1>1 DEF RunsLeft
  <2>2. \A v \in Sessions : InFlight(v) => RunOf(v, "running") # r
    BY <1>1, <2>1 DEF Keeps
  <2>3. QED
    BY <2>1, <2>2 DEF RunsLeft
<1>2. QED
  BY <1>1

\* When every session stays on its way and no running run is added, nothing more is left.
LEMMA LeftAsBefore ==
  ASSUME \A v \in Sessions : Keeps(v),
         \A r \in runs' : r.status = "running" =>
           r \in runs \/ \E v \in Sessions : InFlight(v)' /\ RunOf(v, "running")' = r
  PROVE  RunsLeft' \subseteq RunsLeft
<1>1. ASSUME NEW r \in RunsLeft' PROVE r \in RunsLeft
  <2>1. /\ r \in runs /\ r.status = "running"
        /\ \A v \in Sessions : InFlight(v)' => RunOf(v, "running")' # r
    BY <1>1 DEF RunsLeft
  <2>2. QED
    BY <2>1 DEF RunsLeft, Keeps
<1>2. QED
  BY <1>1

\* A failure of the database leaves at most one run behind.
LEMMA OutageLeaves ==
  ASSUME TypeOK, NEW w \in Sessions, Outage(w)
  PROVE  /\ \E x : RunsLeft' \subseteq RunsLeft \cup {x}
         /\ outages' = outages + 1 /\ crashes' = crashes
<1>1. /\ outages' = outages + 1 /\ crashes' = crashes /\ EndSession(w)
  BY DEF Outage, WalkFails, SkipFails, StartFails, RecordFails, DatabaseFails
<1>2. \A v \in Sessions \ {w} : Keeps(v)
  BY <1>1 DEF EndSession, Keeps, InFlight, RunOf, TypeOK
<1>3. PICK x : /\ InFlight(w) => x = RunOf(w, "running")
               /\ \A r \in runs' : r.status = "running" => r \in runs \/ r = x
  <2>1. CASE WalkFails(w) \/ RecordFails(w)
    <3>1. \A r \in runs' : r.status = "running" => r \in runs
      BY <2>1 DEF WalkFails, RecordFails, WriteOutcome, RunOf
    <3>2. QED
      BY <3>1
  <2>2. ASSUME NEW i \in Items, WriteSkipped(w, i) \/ WriteRunning(w, i)
        PROVE  \E x : /\ InFlight(w) => x = RunOf(w, "running")
                      /\ \A r \in runs' : r.status = "running" => r \in runs \/ r = x
    <3>1. ~InFlight(w) /\ \E x : runs' \subseteq runs \cup {x}
      BY <2>2 DEF WriteSkipped, WriteRunning, InFlight
    <3>2. QED
      BY <3>1
  <2>3. QED
    BY <2>1, <2>2 DEF Outage, SkipFails, StartFails
<1>4. QED
  BY <1>1, <1>2, <1>3, LeftBehind

\* No other step of a session leaves a run behind: what goes wrong in fetch, import and
\* rebuild is recorded, and the run of a row that is gone is gone with it.
LEMMA SessionLeaves ==
  ASSUME TypeOK, TypeOK', RunsOfRows, NEW w \in Sessions, Begin(w) \/ Walk(w) \/ SyncItem(w)
  PROVE  RunsLeft' \subseteq RunsLeft /\ outages' = outages /\ crashes' = crashes
<1>1. outages' = outages /\ crashes' = crashes
  BY DEF Begin, SyncBasket, SyncAllBaskets, Walk, EnterBasket, SkipDisabled, SkipRunning,
         StartItem, WalkAborts, EndSync, SyncItem, FetchDone, FetchFails, ImportDeals,
         ImportFails, Rebuild, RebuildFails, RecordSuccess, RecordError, RecordAborts, bounds
\* Only w moves, and it keeps its run or had none.
<1>2. ASSUME \A v \in Sessions \ {w} : pc'[v] = pc[v] /\ job'[v] = job[v], Keeps(w),
             \A r \in runs' : r.status = "running" =>
               r \in runs \/ \E v \in Sessions : InFlight(v)' /\ RunOf(v, "running")' = r
      PROVE  RunsLeft' \subseteq RunsLeft
  <2>1. \A v \in Sessions : Keeps(v)
    BY <1>2 DEF Keeps, InFlight, RunOf
  <2>2. QED
    BY <1>2, <2>1, LeftAsBefore
<1>3. CASE Begin(w)
  <2>1. runs' = runs /\ ~InFlight(w)
    BY <1>3 DEF Begin, SyncBasket, SyncAllBaskets, InFlight
  <2>2. \A v \in Sessions \ {w} : pc'[v] = pc[v] /\ job'[v] = job[v]
    BY <1>3 DEF Begin, SyncBasket, SyncAllBaskets, TypeOK
  <2>3. QED
    BY <1>1, <1>2, <2>1, <2>2 DEF Keeps
<1>4. CASE Walk(w)
  <2>1. ~InFlight(w)
    BY <1>4 DEF Walk, EnterBasket, SkipDisabled, SkipRunning, WriteSkipped, StartItem,
                WriteRunning, WalkAborts, EndSync, InFlight
  <2>2. \A v \in Sessions \ {w} : pc'[v] = pc[v] /\ job'[v] = job[v]
    BY <1>4 DEF Walk, EnterBasket, SkipDisabled, SkipRunning, StartItem, WalkAborts, EndSync,
                EndSession, TypeOK
  <2>3. ASSUME NEW r \in runs', r.status = "running", r \notin runs
        PROVE  InFlight(w)' /\ RunOf(w, "running")' = r
    <3>1. PICK i \in Items : StartItem(w, i)
      BY <1>4, <2>3 DEF Walk, EnterBasket, SkipDisabled, SkipRunning, WriteSkipped, NewRun,
                        WalkAborts, EndSync
    <3>2. /\ r = NewRun(w, i, view[w][i].id, SyncStart(Seen(w, i), clock), "running")
          /\ clock' = clock
      BY <2>3, <3>1 DEF StartItem, WriteRunning
    <3>3. /\ InFlight(w)' /\ job'[w].item = i /\ job'[w].id = view[w][i].id
          /\ job'[w].start = SyncStart(Seen(w, i), clock) /\ job'[w].end = clock
      BY <3>1 DEF StartItem, InFlight, TypeOK
    <3>4. QED
      BY <3>2, <3>3 DEF RunOf, NewRun
  <2>4. QED
    BY <1>1, <1>2, <2>1, <2>2, <2>3 DEF Keeps
<1>5. CASE RecordSuccess(w) \/ RecordError(w)
  <2>1. PICK status \in {"success", "error"} : WriteOutcome(w, status)
    BY <1>5 DEF RecordSuccess, RecordError
  <2>2. \A r \in runs' : r.status = "running" => r \in runs
    BY <2>1 DEF WriteOutcome, RunOf
  <2>3. \A v \in Sessions \ {w} : Keeps(v)
    BY <1>5 DEF RecordSuccess, RecordError, Keeps, InFlight, RunOf, TypeOK
  <2>4. RunsLeft' \subseteq RunsLeft \cup {RunOf(w, "running")}
    BY <2>2, <2>3, LeftBehind
  <2>5. RunOf(w, "running") \notin RunsLeft'
    BY <2>1 DEF WriteOutcome, RunOf, RunsLeft
  <2>6. QED
    BY <1>1, <2>4, <2>5
<1>6. CASE RecordAborts(w)
  <2>1. runs' = runs /\ ~Current(job[w].item, job[w].id)
    BY <1>6 DEF RecordAborts
  <2>2. \A v \in Sessions \ {w} : Keeps(v)
    BY <1>6 DEF RecordAborts, EndSession, Keeps, InFlight, RunOf, TypeOK
  <2>3. RunsLeft' \subseteq RunsLeft \cup {RunOf(w, "running")}
    BY <2>1, <2>2, LeftBehind
  <2>4. RunOf(w, "running") \notin runs
    BY <2>1 DEF RunsOfRows, RunOf
  <2>5. QED
    BY <1>1, <2>1, <2>3, <2>4 DEF RunsLeft
<1>7. CASE FetchDone(w)
  <2>1. PICK late : job' = [job EXCEPT ![w].got = @ \cup late]
    BY <1>7 DEF FetchDone
  <2>2. job[w] \in Job /\ InFlight(w) /\ InFlight(w)' /\ runs' = runs
    BY <1>7, JobTypes DEF FetchDone, InFlight, TypeOK
  <2>3. Keeps(w)
    BY <2>1, <2>2 DEF Keeps, RunOf, Job, TypeOK
  <2>4. \A v \in Sessions \ {w} : pc'[v] = pc[v] /\ job'[v] = job[v]
    BY <1>7, <2>1 DEF FetchDone, TypeOK
  <2>5. QED
    BY <1>1, <1>2, <2>2, <2>3, <2>4
<1>8. ASSUME NEW p \in {"import", "rebuild", "finish", "failed"}, InFlight(w),
             pc' = [pc EXCEPT ![w] = p], UNCHANGED <<runs, job>>
      PROVE  RunsLeft' \subseteq RunsLeft
  <2>1. Keeps(w) /\ \A v \in Sessions \ {w} : pc'[v] = pc[v] /\ job'[v] = job[v]
    BY <1>8 DEF Keeps, InFlight, RunOf, TypeOK
  <2>2. QED
    BY <1>2, <1>8, <2>1
<1>9. CASE FetchFails(w) \/ ImportDeals(w) \/ ImportFails(w) \/ Rebuild(w) \/ RebuildFails(w)
  BY <1>1, <1>8, <1>9
  DEF FetchFails, ImportDeals, ImportFails, Rebuild, RebuildFails, GoTo, RollBack, InFlight
<1>10. QED
  BY <1>1, <1>3, <1>4, <1>5, <1>6, <1>7, <1>9 DEF SyncItem

\* The runs that sessions are on the way to finish are no more than the sessions.
LEMMA HeldRuns ==
  ASSUME NEW T, T = {RunOf(w, "running") : w \in Sessions}
  PROVE  IsFiniteSet(T) /\ Cardinality(T) <= Cardinality(Sessions)
<1> DEFINE f == [w \in Sessions |-> RunOf(w, "running")]
<1>1. f \in Surjection(Sessions, T)
  BY DEF Surjection
<1>2. IsFiniteSet(Sessions)
  BY UserAssumption
<1>3. QED
  BY <1>1, <1>2, FS_Surjection

\* A restart leaves at most one run of each session behind; nothing around it leaves any.
LEMMA SurroundingsLeave ==
  ASSUME TypeOK, Surroundings
  PROVE  /\ outages' = outages
         /\ \/ RunsLeft' \subseteq RunsLeft /\ crashes' = crashes
            \/ /\ RunsLeft' \subseteq RunsLeft \cup {RunOf(w, "running") : w \in Sessions}
               /\ crashes' = crashes + 1
<1>1. CASE Restart
  <2>1. runs' = runs /\ outages' = outages /\ crashes' = crashes + 1
    BY <1>1 DEF Restart
  <2>2. QED
    BY <2>1 DEF RunsLeft
<1>2. CASE UNCHANGED session /\ runs' \subseteq runs /\ outages' = outages /\ crashes' = crashes
  <2>1. \A v \in Sessions : Keeps(v)
    BY <1>2 DEF session, Keeps, InFlight, RunOf
  <2>2. QED
    BY <1>2, <2>1, LeftAsBefore
<1>3. QED
  BY <1>1, <1>2
  DEF Surroundings, UpsertBasket, ReconstructRoute, Trade, Tick, bounds

\* The count of what is left.
LeftCounted == Cardinality(RunsLeft) <= outages + crashes * Cardinality(Sessions)

\* The sizes in that count.
LEMMA LeftSizes ==
  ASSUME IsFiniteSet(runs)
  PROVE  /\ IsFiniteSet(RunsLeft) /\ Cardinality(RunsLeft) \in Nat
         /\ Cardinality(Sessions) \in Nat
<1>1. RunsLeft \in SUBSET runs
  BY DEF RunsLeft
<1>2. IsFiniteSet(RunsLeft)
  BY <1>1, FS_Subset
<1>3. QED
  BY <1>2, UserAssumption, FS_CardinalityType

LEMMA LeftNext ==
  TypeOK /\ TypeOK' /\ RunsOfRows /\ FiniteRuns /\ LeftCounted /\ [Next]_vars => LeftCounted'
<1>1. SUFFICES ASSUME TypeOK, TypeOK', RunsOfRows, FiniteRuns, LeftCounted, [Next]_vars
               PROVE  LeftCounted'
  OBVIOUS
<1>2. IsFiniteSet(runs) /\ IsFiniteSet(runs')
  BY <1>1, RunsFinite DEF FiniteRuns
<1>3. PICK n \in Nat, m \in Nat, k \in Nat, out \in Nat, down \in Nat :
        /\ n = Cardinality(RunsLeft) /\ m = Cardinality(RunsLeft') /\ k = Cardinality(Sessions)
        /\ out = outages /\ down = crashes
  <2>1. RunsLeft' \in SUBSET runs'
    BY DEF RunsLeft
  <2>2. Cardinality(RunsLeft') \in Nat
    BY <1>2, <2>1, FS_Subset, FS_CardinalityType
  <2>3. outages \in Nat /\ crashes \in Nat
    BY <1>1, TimeAssumption DEF TypeOK
  <2>4. QED
    BY <1>2, <2>2, <2>3, LeftSizes
<1>4. n <= out + down * k /\ down * k \in Nat
  BY <1>1, <1>3 DEF LeftCounted
<1>5. CASE RunsLeft' \subseteq RunsLeft /\ outages' = outages /\ crashes' = crashes
  <2>1. m <= n
    BY <1>2, <1>3, <1>5, LeftSizes, FS_Subset
  <2>2. m <= out + down * k
    BY <1>4, <2>1
  <2>3. QED
    BY <1>3, <1>5, <2>2 DEF LeftCounted
<1>6. ASSUME NEW w \in Sessions, Outage(w) PROVE LeftCounted'
  <2>1. PICK x : RunsLeft' \subseteq RunsLeft \cup {x}
    BY <1>1, <1>6, OutageLeaves
  <2>2. IsFiniteSet(RunsLeft \cup {x}) /\ Cardinality(RunsLeft \cup {x}) \in {n, n + 1}
    BY <1>2, <1>3, LeftSizes, FS_AddElement
  <2>3. m <= n + 1
    BY <1>3, <2>1, <2>2, FS_Subset
  <2>4. m <= (out + 1) + down * k
    BY <1>4, <2>3
  <2>5. outages' = out + 1 /\ crashes' = down
    BY <1>1, <1>3, <1>6, OutageLeaves
  <2>6. QED
    BY <1>3, <2>4, <2>5 DEF LeftCounted
<1>7. CASE /\ RunsLeft' \subseteq RunsLeft \cup {RunOf(w, "running") : w \in Sessions}
           /\ outages' = outages /\ crashes' = crashes + 1
  <2>1. PICK T : T = {RunOf(w, "running") : w \in Sessions}
    OBVIOUS
  <2>2. IsFiniteSet(T) /\ Cardinality(T) <= k /\ Cardinality(T) \in Nat
    BY <1>3, <2>1, HeldRuns, FS_CardinalityType
  <2>3. IsFiniteSet(RunsLeft \cup T) /\ Cardinality(RunsLeft \cup T) <= n + k
    <3>1. IsFiniteSet(RunsLeft)
      BY <1>2, LeftSizes
    <3>2. /\ IsFiniteSet(RunsLeft \cup T) /\ IsFiniteSet(RunsLeft \cap T)
          /\ Cardinality(RunsLeft \cup T) = n + Cardinality(T) - Cardinality(RunsLeft \cap T)
      BY <1>3, <2>2, <3>1, FS_Union, FS_Intersection
    <3>3. Cardinality(RunsLeft \cap T) \in Nat
      BY <3>2, FS_CardinalityType
    <3>4. QED
      BY <2>2, <3>2, <3>3
  <2>4. m <= Cardinality(RunsLeft \cup T) /\ Cardinality(RunsLeft \cup T) \in Nat
    BY <1>3, <1>7, <2>1, <2>3, FS_Subset, FS_CardinalityType
  <2>5. m <= out + (down * k + k)
    BY <1>4, <2>3, <2>4
  <2>6. down * k + k = (down + 1) * k
    OBVIOUS
  <2>7. m <= out + (down + 1) * k
    BY <2>5, <2>6
  <2>8. QED
    BY <1>3, <1>7, <2>7 DEF LeftCounted
<1>8. CASE UNCHANGED vars
  <2>1. \A v \in Sessions : Keeps(v)
    BY <1>8 DEF vars, session, Keeps, InFlight, RunOf
  <2>2. QED
    BY <1>5, <1>8, <2>1, LeftAsBefore DEF vars, bounds
<1>9. CASE Surroundings
  BY <1>1, <1>5, <1>7, <1>9, SurroundingsLeave
<1>10. ASSUME NEW w \in Sessions, Begin(w) \/ Walk(w) \/ SyncItem(w) PROVE LeftCounted'
  BY <1>1, <1>5, <1>10, SessionLeaves
<1>11. QED
  BY <1>1, <1>6, <1>8, <1>9, <1>10 DEF Next

\* Whatever fails in fetch, import and rebuild, and whatever is edited meanwhile, a sync does
\* not leave its run running: each failure of the database outside the try block leaves at
\* most one, each restart at most one of every session, and an item is running only as long
\* as such a run of its own row is.
THEOREM NothingRunsAlone == Spec => []NothingLeftRunning
<1>1. Init => RunsOfRows /\ FiniteRuns /\ ItemsHaveRuns /\ LeftCounted
  <2>1. SUFFICES ASSUME Init
                 PROVE  RunsOfRows /\ FiniteRuns /\ ItemsHaveRuns /\ LeftCounted
    OBVIOUS
  <2>2. runs = {} /\ outages = 0 /\ crashes = 0 /\ \A i \in Items : row[i].status = "idle"
    BY <2>1 DEF Init, NewItem
  <2>3. RunsLeft = {} /\ IsFiniteSet(runs) /\ Cardinality(RunsLeft) = 0
    BY <2>2, FS_EmptySet DEF RunsLeft
  <2>4. Cardinality(Sessions) \in Nat
    BY UserAssumption, FS_CardinalityType
  <2>5. QED
    BY <2>2, <2>3, <2>4 DEF RunsOfRows, FiniteRuns, ItemsHaveRuns, LeftCounted
<1>2. ItemsHaveRuns /\ LeftCounted => NothingLeftRunning
  BY DEF ItemsHaveRuns, LeftCounted, NothingLeftRunning
<1>3. QED
  BY <1>1, <1>2, RunsNext, RunsFinite, ItemsHaveRunsNext, LeftNext, NextTypeOK, InitTypeOK, PTL
  DEF Spec

-----------------------------------------------------------------------------
(* A session ends early only at a row that is gone, or with the database.  *)

\* Of the steps of a session only its end, and the loss of its row, make it idle.
LEMMA IsolatedStep ==
  ASSUME TypeOK, [Next]_vars, NEW w \in Sessions,
         pc[w] # "idle", pc'[w] = "idle", crashes' = crashes, outages' = outages
  PROVE  (todo[w] = {} /\ baskets[w] = {}) \/ RowRemoved(w)
<1>1. ASSUME NEW v \in Sessions, Begin(v) PROVE FALSE
  BY <1>1 DEF Begin, SyncBasket, SyncAllBaskets, TypeOK
<1>2. ASSUME NEW v \in Sessions, Walk(v)
      PROVE  (todo[w] = {} /\ baskets[w] = {}) \/ RowRemoved(w)
  <2>1. CASE EndSync(v)
    BY <2>1 DEF EndSync, EndSession, TypeOK
  <2>2. ASSUME NEW i \in Items, WalkAborts(v, i) PROVE RowRemoved(w)
    <3>1. v = w /\ ~InFlight(w)
      BY <2>2 DEF WalkAborts, EndSession, InFlight, TypeOK
    <3>2. QED
      BY <2>2, <3>1 DEF WalkAborts, RowRemoved, IsNext
  <2>3. ASSUME NEW i \in Items, StartItem(v, i) PROVE FALSE
    BY <2>3 DEF StartItem, WriteRunning, TypeOK
  <2>4. QED
    BY <1>2, <2>1, <2>2, <2>3 DEF Walk, EnterBasket, SkipDisabled, SkipRunning
<1>3. ASSUME NEW v \in Sessions, SyncItem(v) PROVE RowRemoved(w)
  <2>1. CASE RecordAborts(v)
    <3>1. v = w
      BY <2>1 DEF RecordAborts, EndSession, TypeOK
    <3>2. QED
      BY <2>1, <3>1 DEF RecordAborts, RowRemoved, InFlight
  <2>2. CASE ~RecordAborts(v)
    BY <1>3, <2>2
    DEF SyncItem, FetchDone, FetchFails, ImportDeals, ImportFails, Rebuild, RebuildFails,
        RecordSuccess, RecordError, GoTo, RollBack, TypeOK
  <2>3. QED
    BY <2>1, <2>2
<1>4. CASE Surroundings
  BY <1>4
  DEF Surroundings, UpsertBasket, ReconstructRoute, Trade, Tick, Restart, session, TypeOK
<1>5. CASE UNCHANGED vars
  BY <1>5 DEF vars, session
<1>6. ASSUME NEW v \in Sessions, Outage(v) PROVE FALSE
  BY <1>6, TimeAssumption
  DEF Outage, WalkFails, SkipFails, StartFails, RecordFails, DatabaseFails, TypeOK
<1>7. QED
  BY <1>1, <1>2, <1>3, <1>4, <1>5, <1>6 DEF Next

\* A failure of fetch, import or rebuild of one item does not end a session: it goes on to
\* its other items and baskets, unless an edit took away the very row that it is at, the
\* database fails outside the try block, or the process ends.
THEOREM SessionsGoOn == Spec => ItemsIsolated
<1>1. TypeOK /\ [Next]_vars =>
        [\A w \in Sessions :
           pc[w] # "idle" /\ pc'[w] = "idle" /\ crashes' = crashes /\ outages' = outages
             => (todo[w] = {} /\ baskets[w] = {}) \/ RowRemoved(w)]_pc
  BY IsolatedStep
<1>2. QED
  BY <1>1, NextTypeOK, InitTypeOK, PTL DEF Spec, ItemsIsolated

-----------------------------------------------------------------------------
(* A cursor moves back only for a sync that was taken over.                *)

\* The started and cursor columns are numbers, and so is the end of a window.
LEMMA ColumnTypes ==
  ASSUME TypeOK, NEW i \in Items
  PROVE  row[i] \in ItemRow /\ row[i].cursor \in Int /\ row[i].started \in Int
<1>1. row[i] \in ItemRow
  BY DEF TypeOK
<1>2. row[i].cursor \in Time \cup {NoTime} /\ row[i].started \in Time \cup {NoTime}
  BY <1>1 DEF ItemRow
<1>3. QED
  BY <1>1, <1>2, TimeAssumption DEF Time, NoTime

\* A null timestamp counts as earlier than any other.
LEMMA NoTimeBelow == NoTime \in Int /\ NoTime < 0
BY DEF NoTime

\* The sync that began last on a row keeps the latest window.
LEMMA StartsLastNext == IInv /\ IInv' /\ StartsLast /\ [Next]_vars => StartsLast'
<1>1. SUFFICES ASSUME TypeOK, TypeOK', IInv, StartsLast, [Next]_vars PROVE StartsLast'
  BY DEF IInv
<1> DEFINE Rows == \A i \in Items : row'[i].cursor <= row'[i].started /\ row'[i].started <= clock'
           Kept(w) == /\ InFlight(w)
                      /\ job'[w].item = job[w].item /\ job'[w].id = job[w].id
                      /\ job'[w].end = job[w].end
           Late(w) ==
             Current(job[w].item, job[w].id)' => job'[w].end <= row'[job'[w].item].started
\* Rows keep their numbers, starts never move back, and no window is new.
<1>2. ASSUME Rows, \A w \in Sessions : InFlight(w)' => Kept(w) \/ Late(w),
             \A i \in Items : row'[i].there =>
               \/ /\ row[i].there /\ row'[i].id = row[i].id
                  /\ row[i].started <= row'[i].started
               \/ row'[i].id > row[i].id
      PROVE  StartsLast'
  <2>1. ASSUME NEW w \in Sessions, InFlight(w)', Kept(w), Current(job[w].item, job[w].id)'
        PROVE  job'[w].end <= row'[job'[w].item].started
    <3>1. PICK i \in Items, id \in Nat, end \in Int :
            i = job[w].item /\ id = job[w].id /\ end = job[w].end
      BY <1>1, <2>1, JobTypes
    <3>2. i = job'[w].item /\ id = job'[w].id /\ end = job'[w].end
      BY <2>1, <3>1
    <3>3. id <= row[i].id /\ row[i].id \in Nat
      BY <1>1, <2>1, <3>1, NumberTypes DEF IInv, JobOK
    <3>4. row'[i].there /\ row'[i].id = id
      BY <2>1, <3>2 DEF Current
    <3>5. row[i].there /\ row[i].id = id /\ row[i].started <= row'[i].started
      BY <1>2, <3>3, <3>4
    <3>6. end <= row[i].started
      BY <1>1, <2>1, <3>1, <3>5 DEF StartsLast, Current
    <3>7. row[i].started \in Int /\ row'[i].started \in Int
      BY <1>1, ColumnTypes, TimeAssumption DEF TypeOK, ItemRow, Time, NoTime
    <3>8. end <= row'[i].started
      BY <3>5, <3>6, <3>7
    <3>9. QED
      BY <3>2, <3>8
  <2>2. QED
    BY <1>2, <2>1 DEF StartsLast
<1>3. ASSUME row' = row, clock' = clock, \A w \in Sessions : InFlight(w)' => Kept(w)
      PROVE  StartsLast'
  BY <1>1, <1>2, <1>3, ColumnTypes DEF StartsLast
<1>4. CASE UNCHANGED <<row, clock, pc, job>>
  BY <1>3, <1>4 DEF InFlight
<1>5. ASSUME NEW w \in Sessions, NEW i \in Items, WriteRunning(w, i), clock' = clock,
             InFlight(w)' => job'[w].item = i /\ job'[w].end = clock,
             \A v \in Sessions \ {w} : pc'[v] = pc[v] /\ job'[v] = job[v]
      PROVE  StartsLast'
  <2>1. /\ row' = [row EXCEPT ![i] = Marked(row[i], Seen(w, i))] /\ clock' = clock
        /\ row[i].there
    BY <1>5 DEF WriteRunning, Current
  <2>2. \A k \in Items \ {i} : row'[k] = row[k]
    BY <1>1, <2>1 DEF TypeOK
  <2>3. /\ row'[i].there = row[i].there /\ row'[i].id = row[i].id
        /\ row'[i].cursor = row[i].cursor /\ row'[i].started = clock
    BY <1>1, <2>1 DEF TypeOK, Marked, ItemRow
  <2>4. clock \in Int /\ row[i].cursor <= clock /\ row[i].started <= clock
    BY <1>1, NumberTypes, ColumnTypes DEF StartsLast
  <2>5. Rows
    BY <1>1, <2>1, <2>2, <2>3, <2>4 DEF StartsLast
  <2>7. InFlight(w)' => Late(w)
    BY <1>5, <2>3, <2>4
  <2>8. \A v \in Sessions \ {w} : InFlight(v)' => Kept(v)
    BY <1>5 DEF InFlight
  <2>9. \A k \in Items : /\ row'[k].there => row[k].there
                         /\ row'[k].id = row[k].id /\ row[k].started <= row'[k].started
    BY <1>1, <2>2, <2>3, <2>4, ColumnTypes
  <2>10. QED
    BY <1>2, <2>5, <2>7, <2>8, <2>9
<1>6. ASSUME NEW w \in Sessions, InFlight(w), Current(job[w].item, job[w].id), ~InFlight(w)',
             \E status \in {"success", "error"} : WriteOutcome(w, status), clock' = clock,
             \A v \in Sessions \ {w} : pc'[v] = pc[v] /\ job'[v] = job[v]
      PROVE  StartsLast'
  <2>1. PICK status \in {"success", "error"} : WriteOutcome(w, status)
    BY <1>6
  <2>2. /\ clock' = clock /\ InFlight(w) /\ Current(job[w].item, job[w].id)
        /\ \A v \in Sessions : InFlight(v)' => Kept(v)
    BY <1>6 DEF InFlight
  <2>3. PICK k \in Items, end \in Int : k = job[w].item /\ end = job[w].end
    BY <1>1, <2>2, JobTypes
  <2>4. row' = [row EXCEPT ![k].status = status, ![k].cursor = end]
    BY <2>1, <2>3 DEF WriteOutcome
  <2>5. \A i \in Items \ {k} : row'[i] = row[i]
    BY <1>1, <2>4 DEF TypeOK
  <2>6. /\ row'[k].there = row[k].there /\ row'[k].id = row[k].id
        /\ row'[k].cursor = end /\ row'[k].started = row[k].started
    BY <1>1, <2>4 DEF TypeOK, ItemRow
  <2>7. end <= row[k].started
    BY <1>1, <2>2, <2>3 DEF StartsLast
  <2>8. Rows
    BY <1>1, <2>2, <2>5, <2>6, <2>7 DEF StartsLast
  <2>9. \A i \in Items : /\ row'[i].there => row[i].there
                         /\ row'[i].id = row[i].id /\ row[i].started <= row'[i].started
    BY <1>1, <2>5, <2>6, ColumnTypes
  <2>10. QED
    BY <1>2, <2>2, <2>8, <2>9
<1>7. ASSUME NEW u \in Users, UpsertBasket(u) PROVE StartsLast'
  <2>1. PICK wanted \in SUBSET ItemsOf(u) :
          \E pos \in [wanted -> 0 .. Cardinality(wanted) - 1], on \in [wanted -> BOOLEAN] :
             /\ \A k, j \in wanted : pos[k] = pos[j] => k = j
             /\ row' = [k \in Items |->
                  IF UserOf[k] = u THEN EditedRow(k, wanted, pos, on) ELSE row[k]]
    BY <1>7, Zenon DEF UpsertBasket
  <2>2. PICK pos, on :
          row' = [k \in Items |->
            IF UserOf[k] = u THEN EditedRow(k, wanted, pos, on) ELSE row[k]]
    BY <2>1
  <2>3. clock' = clock /\ clock \in Int /\ clock >= 0
    BY <1>1, <1>7, TimeAssumption DEF UpsertBasket, TypeOK, Time
  <2>4. ASSUME NEW i \in Items
        PROVE  /\ row'[i].cursor <= row'[i].started /\ row'[i].started <= clock'
               /\ row'[i].there =>
                    \/ /\ row[i].there /\ row'[i].id = row[i].id
                       /\ row[i].started <= row'[i].started
                    \/ row'[i].id > row[i].id
    <3>1. /\ row[i] \in ItemRow /\ row[i].id \in Nat
          /\ row[i].cursor \in Int /\ row[i].started \in Int
          /\ row[i].cursor <= row[i].started /\ row[i].started <= clock
      BY <1>1, NumberTypes, ColumnTypes DEF StartsLast
    <3>2. CASE UserOf[i] # u
      BY <2>2, <2>3, <3>1, <3>2
    <3>3. CASE UserOf[i] = u /\ i \notin wanted
      <4>1. row'[i].cursor = NoTime /\ row'[i].started = NoTime /\ ~row'[i].there
        BY <2>2, <3>3 DEF EditedRow, NoItem, NewItem
      <4>2. QED
        BY <2>3, <4>1, NoTimeBelow
    <3>4. CASE UserOf[i] = u /\ i \in wanted /\ row[i].there
      <4>1. /\ row'[i].id = row[i].id /\ row'[i].cursor = row[i].cursor
            /\ row'[i].started = row[i].started
        BY <2>2, <3>1, <3>4 DEF EditedRow, ItemRow
      <4>2. QED
        BY <2>3, <3>1, <3>4, <4>1
    <3>5. CASE UserOf[i] = u /\ i \in wanted /\ ~row[i].there
      <4>1. /\ row'[i].cursor = NoTime /\ row'[i].started = NoTime
            /\ row'[i].id = row[i].id + 1
        BY <2>2, <3>5 DEF EditedRow, NewItem
      <4>2. QED
        BY <2>3, <3>1, <4>1, NoTimeBelow
    <3>6. QED
      BY <3>2, <3>3, <3>4, <3>5
  <2>5. \A w \in Sessions : InFlight(w)' => Kept(w)
    BY <1>7 DEF UpsertBasket, session, InFlight
  <2>6. QED
    BY <1>2, <2>4, <2>5
<1>8. CASE Tick
  <2>1. UNCHANGED <<row, pc, job>> /\ clock' = clock + 1
    BY <1>8 DEF Tick, session
  <2>2. Rows
    BY <1>1, <2>1, NumberTypes, ColumnTypes DEF StartsLast
  <2>3. QED
    BY <1>1, <1>2, <2>1, <2>2, ColumnTypes DEF InFlight
<1>9. CASE UNCHANGED vars
  BY <1>4, <1>9 DEF vars, session
<1>10. ASSUME NEW w \in Sessions, Begin(w) PROVE StartsLast'
  BY <1>1, <1>3, <1>10 DEF Begin, SyncBasket, SyncAllBaskets, InFlight, TypeOK
<1>11. ASSUME NEW w \in Sessions, EndSession(w), UNCHANGED <<row, clock>> PROVE StartsLast'
  BY <1>1, <1>3, <1>11 DEF EndSession, InFlight, TypeOK
<1>12. ASSUME NEW w \in Sessions, Walk(w) PROVE StartsLast'
  <2>1. ASSUME NEW i \in Items, StartItem(w, i) PROVE StartsLast'
    <3>1. /\ WriteRunning(w, i) /\ clock' = clock
          /\ job'[w].item = i /\ job'[w].end = clock
          /\ \A v \in Sessions \ {w} : pc'[v] = pc[v] /\ job'[v] = job[v]
      BY <1>1, <2>1 DEF StartItem, TypeOK
    <3>2. QED
      BY <1>5, <3>1
  <2>2. QED
    BY <1>4, <1>11, <1>12, <2>1
    DEF Walk, EnterBasket, SkipDisabled, SkipRunning, WriteSkipped, WalkAborts, EndSync
<1>13. ASSUME NEW w \in Sessions, SyncItem(w) PROVE StartsLast'
  <2>1. CASE FetchDone(w)
    <3>1. PICK late : job' = [job EXCEPT ![w].got = @ \cup late]
      BY <2>1 DEF FetchDone
    <3>2. job[w] \in Job
      BY <1>1, <2>1, JobTypes DEF FetchDone, InFlight
    <3>3. \A v \in Sessions : InFlight(v)' => Kept(v)
      BY <1>1, <2>1, <3>1, <3>2 DEF FetchDone, InFlight, TypeOK, Job
    <3>4. QED
      BY <1>3, <2>1, <3>3 DEF FetchDone
  <2>2. ASSUME NEW p \in {"import", "rebuild", "finish", "failed"}, InFlight(w),
               pc' = [pc EXCEPT ![w] = p], UNCHANGED <<job, row, clock>>
        PROVE  StartsLast'
    BY <1>1, <1>3, <2>2 DEF InFlight, TypeOK
  <2>3. CASE RecordSuccess(w) \/ RecordError(w)
    <3>1. /\ InFlight(w) /\ Current(job[w].item, job[w].id) /\ ~InFlight(w)'
          /\ \E status \in {"success", "error"} : WriteOutcome(w, status)
          /\ clock' = clock
          /\ \A v \in Sessions \ {w} : pc'[v] = pc[v] /\ job'[v] = job[v]
      BY <1>1, <2>3 DEF RecordSuccess, RecordError, InFlight, TypeOK
    <3>2. QED
      BY <1>6, <3>1
  <2>4. QED
    BY <1>11, <1>13, <2>1, <2>2, <2>3
    DEF SyncItem, FetchFails, ImportDeals, ImportFails, Rebuild, RebuildFails, RecordAborts,
        GoTo, RollBack, InFlight
<1>14. CASE Surroundings
  <2>1. CASE Restart
    BY <1>3, <2>1 DEF Restart, InFlight
  <2>2. QED
    BY <1>4, <1>7, <1>8, <1>14, <2>1 DEF Surroundings, ReconstructRoute, Trade, session
<1>15. ASSUME NEW w \in Sessions, Outage(w) PROVE StartsLast'
  <2>1. /\ EndSession(w) /\ clock' = clock /\ ~InFlight(w)'
        /\ \A v \in Sessions \ {w} : pc'[v] = pc[v] /\ job'[v] = job[v]
    BY <1>1, <1>15
    DEF Outage, WalkFails, SkipFails, StartFails, RecordFails, DatabaseFails, EndSession,
        InFlight, TypeOK
  <2>2. CASE row' = row
    BY <1>11, <2>1, <2>2
  <2>3. CASE RecordFails(w) /\ row' # row
    <3>1. /\ InFlight(w) /\ Current(job[w].item, job[w].id)
          /\ WriteOutcome(w, IF pc[w] = "finish" THEN "success" ELSE "error")
      BY <2>3 DEF RecordFails, InFlight
    <3>2. \E status \in {"success", "error"} : WriteOutcome(w, status)
      BY <3>1
    <3>3. QED
      BY <1>6, <2>1, <3>1, <3>2
  <2>4. QED
    BY <1>5, <1>15, <2>1, <2>2, <2>3
    DEF Outage, WalkFails, SkipFails, WriteSkipped, StartFails
<1>16. QED
  BY <1>1, <1>9, <1>10, <1>12, <1>13, <1>14, <1>15 DEF Next

\* The sync that moves the cursor of a row back, if there is one.
TakenOver(i) ==
  \E w \in Sessions : job'[w] # job[w] /\ job[w].item = i /\ row[i].started # job[w].end

\* A cursor that moves back was written for a window that another sync had taken over.
LEMMA CursorStep ==
  ASSUME TypeOK, TypeOK', StartsLast, [Next]_vars, NEW i \in Items, row[i].there, row'[i].there,
         row'[i].id = row[i].id, row'[i].cursor < row[i].cursor
  PROVE  TakenOver(i)
<1>1. row[i] \in ItemRow /\ row[i].cursor \in Int /\ row[i].started \in Int
  BY ColumnTypes
<1>2. row'[i].cursor # row[i].cursor
  BY <1>1
<1>3. ASSUME NEW w \in Sessions, InFlight(w), Current(job[w].item, job[w].id),
             job' = [job EXCEPT ![w] = NoJob],
             \E status \in {"success", "error"} : WriteOutcome(w, status)
      PROVE  TakenOver(i)
  <2>1. PICK status \in {"success", "error"} : WriteOutcome(w, status)
    BY <1>3
  <2>2. InFlight(w) /\ Current(job[w].item, job[w].id) /\ job'[w] = NoJob
    BY <1>3 DEF TypeOK
  <2>3. PICK k \in Items, end \in Int : k = job[w].item /\ end = job[w].end
    BY <2>2, JobTypes
  <2>4. row' = [row EXCEPT ![k].status = status, ![k].cursor = end]
    BY <2>1, <2>3 DEF WriteOutcome
  <2>5. k = i
    BY <1>2, <2>4 DEF TypeOK
  <2>6. row'[i].cursor = end
    BY <1>1, <2>4, <2>5 DEF TypeOK, ItemRow
  <2>7. row[i].cursor <= row[i].started
    BY DEF StartsLast
  <2>8. row[i].started # end
    BY <1>1, <2>3, <2>6, <2>7
  <2>9. job'[w] # job[w]
    BY <2>2 DEF TypeOK
  <2>10. QED
    BY <2>3, <2>5, <2>8, <2>9 DEF TakenOver
<1>4. ASSUME NEW w \in Sessions, NEW k \in Items, WriteRunning(w, k) PROVE FALSE
  <2>1. row' = [row EXCEPT ![k] = Marked(row[k], Seen(w, k))]
    BY <1>4 DEF WriteRunning
  <2>2. QED
    BY <1>1, <1>2, <2>1 DEF TypeOK, Marked, ItemRow
<1>5. ASSUME NEW u \in Users, UpsertBasket(u) PROVE FALSE
  <2>1. PICK wanted \in SUBSET ItemsOf(u) :
          \E pos \in [wanted -> 0 .. Cardinality(wanted) - 1], on \in [wanted -> BOOLEAN] :
             /\ \A k, j \in wanted : pos[k] = pos[j] => k = j
             /\ row' = [k \in Items |->
                  IF UserOf[k] = u THEN EditedRow(k, wanted, pos, on) ELSE row[k]]
    BY <1>5, Zenon DEF UpsertBasket
  <2>2. PICK pos, on :
          row' = [k \in Items |->
            IF UserOf[k] = u THEN EditedRow(k, wanted, pos, on) ELSE row[k]]
    BY <2>1
  <2>3. row'[i].cursor = row[i].cursor \/ ~row'[i].there
    BY <1>1, <2>2 DEF EditedRow, NoItem, NewItem, ItemRow
  <2>4. QED
    BY <1>2, <2>3
<1>6. row' # row
  BY <1>2
<1>7. ASSUME NEW w \in Sessions, Begin(w) \/ Walk(w) PROVE TakenOver(i)
  BY <1>4, <1>6, <1>7
  DEF Begin, SyncBasket, SyncAllBaskets, Walk, EnterBasket, SkipDisabled, SkipRunning,
      WriteSkipped, StartItem, WalkAborts, EndSync
<1>8. ASSUME NEW w \in Sessions, SyncItem(w) PROVE TakenOver(i)
  <2>1. CASE RecordSuccess(w) \/ RecordError(w)
    BY <1>3, <2>1 DEF RecordSuccess, RecordError, InFlight
  <2>2. QED
    BY <1>6, <1>8, <2>1
    DEF SyncItem, FetchDone, FetchFails, ImportDeals, ImportFails, Rebuild, RebuildFails,
        RecordAborts
<1>9. CASE Surroundings
  BY <1>5, <1>6, <1>9 DEF Surroundings, ReconstructRoute, Trade, Tick, Restart
<1>10. CASE UNCHANGED vars
  BY <1>6, <1>10 DEF vars
<1>11. ASSUME NEW w \in Sessions, Outage(w) PROVE TakenOver(i)
  <2>1. CASE RecordFails(w)
    <3>1. /\ InFlight(w) /\ Current(job[w].item, job[w].id) /\ job' = [job EXCEPT ![w] = NoJob]
          /\ WriteOutcome(w, IF pc[w] = "finish" THEN "success" ELSE "error")
      BY <1>6, <2>1 DEF RecordFails, InFlight, DatabaseFails, EndSession
    <3>2. \E status \in {"success", "error"} : WriteOutcome(w, status)
      BY <3>1
    <3>3. QED
      BY <1>3, <3>1, <3>2
  <2>2. QED
    BY <1>4, <1>6, <1>11, <2>1 DEF Outage, WalkFails, SkipFails, WriteSkipped, StartFails
<1>12. QED
  BY <1>7, <1>8, <1>9, <1>10, <1>11 DEF Next

\* A sync that records its outcome late moves the cursor of its row back only if the row has
\* been taken over meanwhile; a row that only one sync works on goes forward.
THEOREM CursorGoesOn == Spec => CursorNeverMovesBack
<1>1. Init => StartsLast
  <2>1. SUFFICES ASSUME Init PROVE StartsLast
    OBVIOUS
  <2>2. \A i \in Items : row[i].cursor = NoTime /\ row[i].started = NoTime
    BY <2>1 DEF Init, NewItem
  <2>3. clock = 0 /\ \A w \in Sessions : ~InFlight(w)
    BY <2>1 DEF Init, InFlight
  <2>4. QED
    BY <2>2, <2>3, NoTimeBelow DEF StartsLast
<1>2. TypeOK /\ TypeOK' /\ StartsLast /\ [Next]_vars =>
        [\A i \in Items :
           row[i].there /\ row'[i].there /\ row'[i].id = row[i].id /\ row'[i].cursor < row[i].cursor
             => \E w \in Sessions : /\ job'[w] # job[w] /\ job[w].item = i
                                    /\ row[i].started # job[w].end]_vars
  BY CursorStep DEF TakenOver
<1>3. IInv => TypeOK
  BY DEF IInv
<1>4. QED
  BY <1>1, <1>2, <1>3, StartsLastNext, InitIInv, NextIInv, PTL DEF Spec, CursorNeverMovesBack

-----------------------------------------------------------------------------
(* Two sessions that sync one item once each keep apart.                   *)

\* What a session is, for the others.
SameSession(w) ==
  /\ pc'[w] = pc[w] /\ baskets'[w] = baskets[w] /\ todo'[w] = todo[w] /\ view'[w] = view[w]
  /\ expired'[w] = expired[w] /\ begun'[w] = begun[w] /\ job'[w] = job[w]
SameWindow(w) ==
  /\ InFlight(w) /\ job'[w].item = job[w].item /\ job'[w].id = job[w].id
  /\ job'[w].end = job[w].end

\* A row keeps its mark, or is another row than a session can know.
SameMark(i) ==
  row'[i].there =>
    \/ /\ row[i].there /\ row'[i].id = row[i].id
       /\ row'[i].status = row[i].status /\ row'[i].started = row[i].started
    \/ row'[i].id > row[i].id

LEMMA KnowsMarkStays ==
  ASSUME TypeOK, IInv, NEW w \in Sessions, KnowsMark(w), SameSession(w),
         \A i \in Items : SameMark(i)
  PROVE  KnowsMark(w)'
<1>1. Waiting(w)' = Waiting(w)
  BY DEF Waiting, SameSession
<1>2. ASSUME NEW i \in Items, Current(i, view[w][i].id)', pc[w] = "walk", Waiting(w)
      PROVE  Seen(w, i)'.status = row'[i].status /\ Seen(w, i)'.started = row'[i].started
  <2>1. row'[i].there /\ row'[i].id = view[w][i].id
    BY <1>2 DEF Current, SameSession
  <2>2. view[w][i].id <= row[i].id /\ view[w][i].id \in Nat /\ row[i].id \in Nat
    BY NumberTypes DEF IInv, ViewOK
  <2>3. /\ row[i].there /\ row'[i].id = row[i].id
        /\ row'[i].status = row[i].status /\ row'[i].started = row[i].started
    BY <2>1, <2>2 DEF SameMark
  <2>4. Seen(w, i).status = row[i].status /\ Seen(w, i).started = row[i].started
    BY <1>2, <2>1, <2>3 DEF KnowsMark, Current
  <2> QED  BY <2>3, <2>4 DEF Seen, SameSession
<1>3. pc'[w] = "walk" /\ Waiting(w)' =>
        \A i \in Items : Current(i, view[w][i].id)' =>
          Seen(w, i)'.status = row'[i].status /\ Seen(w, i)'.started = row'[i].started
  BY <1>1, <1>2 DEF SameSession
<1> QED  BY <1>3 DEF KnowsMark, SameSession

LEMMA FindsMarkStays ==
  ASSUME TypeOK, IInv, NEW w \in Sessions, FindsMark(w), InFlight(w)' => SameWindow(w),
         \A i \in Items : SameMark(i), \A v \in Sessions \ {w} : Waiting(v)' => Waiting(v)
  PROVE  FindsMark(w)'
<1>1. SUFFICES ASSUME InFlight(w)', Current(job[w].item, job[w].id)',
                      \A v \in Sessions \ {w} : Waiting(v)'
               PROVE  /\ row'[job'[w].item].status = "running"
                      /\ row'[job'[w].item].started = job'[w].end
  BY DEF FindsMark
<1>2. PICK i \in Items, id \in Nat, end \in Int :
        i = job[w].item /\ id = job[w].id /\ end = job[w].end
  BY <1>1, JobTypes DEF SameWindow
<1>3. i = job'[w].item /\ id = job'[w].id /\ end = job'[w].end
  BY <1>1, <1>2 DEF SameWindow
<1>4. row'[i].there /\ row'[i].id = id
  BY <1>1, <1>3 DEF Current
<1>5. id <= row[i].id /\ row[i].id \in Nat
  BY <1>1, <1>2, NumberTypes DEF IInv, JobOK, SameWindow
<1>6. /\ row[i].there /\ row[i].id = id
      /\ row'[i].status = row[i].status /\ row'[i].started = row[i].started
  BY <1>4, <1>5 DEF SameMark
<1>7. row[i].status = "running" /\ row[i].started = end
  BY <1>1, <1>2, <1>6 DEF FindsMark, Current, SameWindow
<1> QED  BY <1>3, <1>6, <1>7

\* Whatever happens beside StartItem: no window is new, and the marks of rows stay, or no
\* session waits that could know them.
LEMMA ApartSteady ==
  ASSUME TypeOK, IInv, ApartOK,
         \A w \in Sessions : InFlight(w)' => SameWindow(w),
         \A w \in Sessions : KnowsMark(w)',
         \A w \in Sessions : FindsMark(w)'
  PROVE  ApartOK'
<1>1. ASSUME NEW v \in Sessions, NEW w \in Sessions, InFlight(v)', InFlight(w)', v # w,
             job'[v].item = job'[w].item, job'[v].id = job'[w].id
      PROVE  job'[w].end - job'[v].end >= Stale[w] \/ job'[v].end - job'[w].end >= Stale[v]
  <2>1. SameWindow(v) /\ SameWindow(w)
    BY <1>1
  <2> QED  BY <1>1, <2>1 DEF ApartOK, OneSyncPerItem, SameWindow
<1> QED  BY <1>1 DEF ApartOK, OneSyncPerItem

\* A step of one session that leaves rows, and the windows of syncs under way, as they are.
LEMMA ApartAlone ==
  ASSUME TypeOK, IInv, ApartOK, NEW w \in Sessions, row' = row,
         \A v \in Sessions \ {w} : SameSession(v),
         KnowsMark(w)', Waiting(w)' => Waiting(w), InFlight(w)' => SameWindow(w)
  PROVE  ApartOK'
<1>1. \A i \in Items : SameMark(i)
  BY DEF SameMark
<1>2. ASSUME NEW v \in Sessions PROVE KnowsMark(v)'
  BY <1>1, KnowsMarkStays DEF ApartOK
<1>3. ASSUME NEW v \in Sessions PROVE Waiting(v)' => Waiting(v)
  BY DEF Waiting, SameSession
<1>4. ASSUME NEW v \in Sessions PROVE InFlight(v)' => SameWindow(v)
  BY DEF InFlight, SameSession, SameWindow
<1>5. ASSUME NEW v \in Sessions PROVE FindsMark(v)'
  BY <1>1, <1>3, <1>4, FindsMarkStays DEF ApartOK
<1> QED  BY <1>2, <1>4, <1>5, ApartSteady

\* An ended session has nothing before it.
LEMMA EndsApart ==
  ASSUME TypeOK, TypeOK', ApartOK, NEW w \in Sessions, EndSession(w), pc[w] # "idle",
         UNCHANGED begun
  PROVE  /\ \A v \in Sessions \ {w} : SameSession(v)
         /\ KnowsMark(w)' /\ ~Waiting(w)' /\ ~InFlight(w)'
<1>1. \A v \in Sessions \ {w} : SameSession(v)
  BY DEF SameSession, EndSession, TypeOK
<1>2. pc'[w] = "idle" /\ baskets'[w] = {} /\ todo'[w] = {} /\ begun'[w] = begun[w]
  BY DEF EndSession, TypeOK
<1>3. begun[w] # 0
  BY DEF ApartOK, KnowsMark
<1>4. KnowsMark(w)' /\ ~Waiting(w)' /\ ~InFlight(w)'
  BY <1>2, <1>3 DEF KnowsMark, Waiting, InFlight
<1> QED  BY <1>1, <1>4

LEMMA ApartEnds ==
  ASSUME TypeOK, TypeOK', IInv, ApartOK, NEW w \in Sessions, EndSession(w), pc[w] # "idle",
         UNCHANGED <<row, begun>>
  PROVE  ApartOK'
BY EndsApart, ApartAlone

\* While a session holds the loop no other walks; so it may write to a row when it has its
\* sync behind it afterwards.
LEMMA ApartWrites ==
  ASSUME TypeOK, IInv, LoopOK, ApartOK, NEW w \in Sessions, loop = w,
         \A v \in Sessions \ {w} : SameSession(v),
         KnowsMark(w)', ~Waiting(w)', ~InFlight(w)'
  PROVE  ApartOK'
<1>1. \A v \in Sessions \ {w} : pc[v] # "walk"
  BY DEF LoopOK
<1>2. ASSUME NEW v \in Sessions PROVE KnowsMark(v)'
  BY <1>1, <1>2 DEF KnowsMark, ApartOK, SameSession
<1>3. ASSUME NEW v \in Sessions PROVE FindsMark(v)'
  BY <1>3 DEF FindsMark
<1>4. ASSUME NEW v \in Sessions PROVE InFlight(v)' => SameWindow(v)
  BY DEF InFlight, SameSession, SameWindow
<1> QED  BY <1>2, <1>3, <1>4, ApartSteady

\* A failure of the database ends the session, whatever of its transaction took place.
LEMMA ApartOutage ==
  ASSUME TypeOK, TypeOK', IInv, LoopOK, ApartOK, NEW w \in Sessions, Outage(w)
  PROVE  ApartOK'
<1>1. loop = w /\ pc[w] # "idle" /\ EndSession(w) /\ begun' = begun
  BY DEF Outage, WalkFails, SkipFails, WriteSkipped, StartFails, WriteRunning, RecordFails,
         DatabaseFails
<1> QED  BY <1>1, EndsApart, ApartWrites

\* A session loads its basket, and the rows as they are.
LEMMA ApartBegins ==
  ASSUME TypeOK, IInv, ApartOK, TwoSyncsOfOneItem, NEW w \in Sessions, Begin(w)
  PROVE  ApartOK'
<1>1. begun[w] = 0 /\ begun' = [begun EXCEPT ![w] = begun[w] + 1] /\ begun[w] \in 0 .. MaxSyncs
  BY DEF Begin, SyncBasket, SyncAllBaskets, MayBegin, TwoSyncsOfOneItem, TypeOK
<1>2. \A t, u \in baskets'[w] : t = u
  BY UserAssumption DEF Begin, SyncBasket, SyncAllBaskets, TwoSyncsOfOneItem, ItemsOf, TypeOK
<1>3. /\ row' = row /\ pc[w] = "idle" /\ todo' = todo /\ expired' = expired /\ job' = job
      /\ pc' = [pc EXCEPT ![w] = "walk"] /\ view' = [view EXCEPT ![w] = row]
      /\ \A v \in Sessions \ {w} : baskets'[v] = baskets[v]
  BY DEF Begin, SyncBasket, SyncAllBaskets, TypeOK
<1>4. \A v \in Sessions \ {w} : SameSession(v)
  BY <1>1, <1>3 DEF SameSession, TypeOK
<1>5. pc'[w] = "walk" /\ view'[w] = row /\ begun'[w] # 0 /\ todo'[w] = {}
  <2>1. begun'[w] = 1
    BY <1>1 DEF TypeOK
  <2>2. pc'[w] = "walk" /\ view'[w] = row
    BY <1>3 DEF TypeOK
  <2> QED  BY <1>3, <2>1, <2>2 DEF ApartOK, KnowsMark
<1>6. KnowsMark(w)'
  BY <1>2, <1>3, <1>5 DEF KnowsMark, Seen
<1>7. ~InFlight(w)' /\ Waiting(w)
  BY <1>1, <1>5 DEF InFlight, Waiting
<1> QED  BY <1>3, <1>4, <1>6, <1>7, ApartAlone

\* A session that walks: until it starts its sync it knows the mark on the row.
LEMMA ApartEnters ==
  ASSUME TypeOK, IInv, ApartOK, NEW w \in Sessions, NEW u \in Users, EnterBasket(w, u)
  PROVE  ApartOK'
<1>1. PICK loaded : loaded = [i \in Items |-> IF i \in ItemsOf(u) \cap expired[w] THEN row[i]
                                              ELSE view[w][i]]
  OBVIOUS
<1>2. /\ row' = row /\ begun' = begun /\ pc' = pc /\ job' = job /\ pc[w] = "walk"
      /\ u \in baskets[w] /\ baskets' = [baskets EXCEPT ![w] = baskets[w] \ {u}]
      /\ view' = [view EXCEPT ![w] = loaded]
      /\ expired' = [expired EXCEPT ![w] = expired[w] \ ItemsOf(u)]
      /\ todo' = [todo EXCEPT ![w] = {i \in ItemsOf(u) : loaded[i].there}]
  BY <1>1 DEF EnterBasket, bounds
<1>3. \A v \in Sessions \ {w} : SameSession(v)
  BY <1>2 DEF SameSession, TypeOK
<1>4. /\ baskets'[w] = baskets[w] \ {u} /\ view'[w] = loaded
      /\ expired'[w] = expired[w] \ ItemsOf(u)
  BY <1>2 DEF TypeOK
<1>5. baskets'[w] = {}
  BY <1>2, <1>4 DEF ApartOK, KnowsMark
<1>6. Waiting(w) /\ begun[w] # 0
  BY <1>2 DEF Waiting, ApartOK, KnowsMark
<1>7. ASSUME NEW i \in Items, Current(i, loaded[i].id)
      PROVE  Seen(w, i)'.status = row[i].status /\ Seen(w, i)'.started = row[i].started
  <2>1. CASE i \in expired[w]
    BY <1>1, <1>2, <1>4, <2>1 DEF Seen
  <2>2. CASE i \notin expired[w]
    <3>1. loaded[i] = view[w][i] /\ Seen(w, i)' = loaded[i] /\ Seen(w, i) = loaded[i]
      BY <1>1, <1>4, <2>2 DEF Seen
    <3> QED  BY <1>2, <1>6, <1>7, <3>1 DEF ApartOK, KnowsMark
  <2> QED  BY <2>1, <2>2
<1>8. KnowsMark(w)'
  <2>1. \A i \in Items : Current(i, view[w][i].id)' => Current(i, loaded[i].id)
    BY <1>2, <1>4 DEF Current
  <2> QED  BY <1>2, <1>5, <1>6, <1>7, <2>1 DEF KnowsMark
<1>9. ~InFlight(w)'
  BY <1>2 DEF InFlight
<1> QED  BY <1>2, <1>3, <1>6, <1>8, <1>9, ApartAlone

LEMMA ApartSkips ==
  ASSUME TypeOK, IInv, ApartOK, NEW w \in Sessions, NEW i \in Items,
         SkipDisabled(w, i) \/ SkipRunning(w, i)
  PROVE  ApartOK'
<1>1. /\ row' = row /\ begun' = begun /\ pc' = pc /\ job' = job /\ pc[w] = "walk"
      /\ baskets' = baskets /\ view' = view /\ expired' = expired
      /\ todo' = [todo EXCEPT ![w] = todo[w] \ {i}] /\ i \in todo[w]
  BY DEF SkipDisabled, SkipRunning, WriteSkipped, IsNext, bounds
<1>2. \A v \in Sessions \ {w} : SameSession(v)
  BY <1>1 DEF SameSession, TypeOK
<1>3. Waiting(w) /\ begun[w] # 0 /\ baskets[w] = {}
  BY <1>1 DEF Waiting, ApartOK, KnowsMark
<1>4. \A k \in Items : Seen(w, k)' = Seen(w, k) /\ (Current(k, view[w][k].id)' = Current(k, view[w][k].id))
  BY <1>1 DEF Seen, Current
<1>5. KnowsMark(w)'
  BY <1>1, <1>3, <1>4 DEF KnowsMark, ApartOK
<1>6. ~InFlight(w)'
  BY <1>1 DEF InFlight
<1> QED  BY <1>1, <1>2, <1>3, <1>5, <1>6, ApartAlone

\* The one step that begins a sync.  Of a sync under way on the same row the session knows
\* the mark, so it would have skipped the row unless that mark were stale.
LEMMA ApartStarts ==
  ASSUME TypeOK, TypeOK', IInv, LoopOK, ApartOK, TwoSyncsOfOneItem,
         NEW w \in Sessions, NEW i \in Items, StartItem(w, i)
  PROVE  ApartOK'
<1>1. /\ loop = w /\ pc[w] = "walk" /\ i \in todo[w] /\ Current(i, view[w][i].id)
      /\ ~RunningAndFresh(w, Seen(w, i), clock)
      /\ row' = [row EXCEPT ![i] = Marked(row[i], Seen(w, i))]
      /\ todo' = [todo EXCEPT ![w] = todo[w] \ {i}] /\ pc' = [pc EXCEPT ![w] = "fetch"]
      /\ view' = view /\ expired' = expired /\ begun' = begun /\ baskets' = baskets
  BY DEF StartItem, WriteRunning, IsNext, bounds
<1>2. /\ job'[w].item = i /\ job'[w].id = view[w][i].id /\ job'[w].end = clock
      /\ \A v \in Sessions \ {w} : job'[v] = job[v]
  BY DEF StartItem, TypeOK
<1>3. \A v \in Sessions \ {w} : SameSession(v)
  BY <1>1, <1>2 DEF SameSession, TypeOK
<1>4. Waiting(w) /\ begun[w] # 0 /\ baskets[w] = {} /\ todo'[w] = {}
  <2>1. todo[w] # {} /\ KnowsMark(w)
    BY <1>1 DEF ApartOK
  <2>2. Waiting(w) /\ begun[w] # 0 /\ baskets[w] = {}
    BY <1>1, <2>1 DEF Waiting, KnowsMark
  <2>3. todo \in [Sessions -> SUBSET Items] /\ todo'[w] = todo[w] \ {i}
    BY <1>1 DEF TypeOK
  <2>4. \A k \in todo[w] : k = i
    BY <2>3 DEF TwoSyncsOfOneItem
  <2> QED  BY <2>2, <2>3, <2>4
<1>5. Seen(w, i).status = row[i].status /\ Seen(w, i).started = row[i].started
  BY <1>1, <1>4 DEF ApartOK, KnowsMark
<1>6. pc'[w] = "fetch" /\ KnowsMark(w)' /\ ~Waiting(w)'
  BY <1>1, <1>4 DEF KnowsMark, Waiting, TypeOK
<1>7. row'[i].status = "running" /\ row'[i].started = clock
  <2>1. row[i] \in ItemRow /\ row'[i] = Marked(row[i], Seen(w, i))
    BY <1>1 DEF TypeOK
  <2> QED  BY <1>5, <2>1 DEF Marked, ItemRow
<1>8. \A v \in Sessions \ {w} : pc[v] # "walk"
  BY <1>1 DEF LoopOK
<1>9. ASSUME NEW v \in Sessions PROVE KnowsMark(v)'
  BY <1>3, <1>6, <1>8, <1>9 DEF KnowsMark, ApartOK, SameSession
<1>10. ASSUME NEW v \in Sessions PROVE FindsMark(v)'
  BY <1>2, <1>6, <1>7, <1>10 DEF FindsMark
<1>11. ASSUME NEW v \in Sessions, v # w, InFlight(v)', job'[v].item = i,
              job'[v].id = view[w][i].id
       PROVE  clock - job'[v].end >= Stale[w]
  <2>1. InFlight(v) /\ job'[v] = job[v]
    BY <1>2, <1>3, <1>11 DEF InFlight, SameSession
  <2>2. \A x \in Sessions \ {v} : Waiting(x)
    BY <1>4, <1>11 DEF TwoSyncsOfOneItem
  <2>3. Current(job[v].item, job[v].id)
    BY <1>1, <1>11, <2>1
  <2>4. row[i].status = "running" /\ row[i].started = job[v].end
    BY <1>11, <2>1, <2>2, <2>3 DEF ApartOK, FindsMark
  <2>5. PICK end \in Time : end = job[v].end
    BY <2>1, JobTypes DEF TypeOK, Job
  <2>6. Seen(w, i).status = "running" /\ Seen(w, i).started = end /\ end # NoTime
    BY <1>5, <2>4, <2>5 DEF Time, NoTime
  <2>7. ~(clock - end < Stale[w])
    BY <1>1, <2>6 DEF RunningAndFresh
  <2>8. clock \in Int /\ end \in Int /\ Stale[w] \in Nat
    BY NumberTypes, TimeAssumption DEF Time
  <2> QED  BY <2>1, <2>5, <2>7, <2>8
<1>12. ASSUME NEW v \in Sessions, NEW x \in Sessions, InFlight(v)', InFlight(x)', v # x,
              job'[v].item = job'[x].item, job'[v].id = job'[x].id
       PROVE  job'[x].end - job'[v].end >= Stale[x] \/ job'[v].end - job'[x].end >= Stale[v]
  <2>1. CASE x = w
    BY <1>2, <1>11, <1>12, <2>1
  <2>2. CASE v = w
    BY <1>2, <1>11, <1>12, <2>2
  <2>3. CASE v # w /\ x # w
    BY <1>12, <2>3 DEF TwoSyncsOfOneItem
  <2> QED  BY <2>1, <2>2, <2>3
<1> QED  BY <1>9, <1>10, <1>12 DEF ApartOK, OneSyncPerItem

\* Inside the try block only what is fetched changes.
LEMMA ApartTries ==
  ASSUME TypeOK, IInv, ApartOK, NEW w \in Sessions, InFlight(w), InFlight(w)', SameWindow(w),
         row' = row, UNCHANGED <<baskets, todo, view, begun>>,
         \A v \in Sessions \ {w} : pc'[v] = pc[v] /\ job'[v] = job[v] /\ expired'[v] = expired[v]
  PROVE  ApartOK'
<1>1. \A v \in Sessions \ {w} : SameSession(v)
  BY DEF SameSession
<1>2. begun[w] # 0 /\ baskets[w] = {} /\ todo[w] = {} /\ pc'[w] # "walk"
  BY DEF ApartOK, KnowsMark, InFlight
<1>3. KnowsMark(w)' /\ ~Waiting(w)'
  BY <1>2 DEF KnowsMark, Waiting
<1> QED  BY <1>1, <1>3, ApartAlone

\* A session that records has its sync behind it.
LEMMA ApartRecords ==
  ASSUME TypeOK, IInv, LoopOK, ApartOK, NEW w \in Sessions, RecordSuccess(w) \/ RecordError(w)
  PROVE  ApartOK'
<1>1. /\ pc[w] \in {"finish", "failed"} /\ loop = w
      /\ pc' = [pc EXCEPT ![w] = "walk"] /\ job' = [job EXCEPT ![w] = NoJob]
      /\ UNCHANGED <<baskets, todo, view, expired, begun>>
  BY DEF RecordSuccess, RecordError, bounds
<1>2. \A v \in Sessions \ {w} : SameSession(v)
  BY <1>1 DEF SameSession, TypeOK
<1>3. begun[w] # 0 /\ baskets[w] = {} /\ todo[w] = {} /\ pc'[w] = "walk"
  BY <1>1 DEF ApartOK, KnowsMark, TypeOK
<1>4. KnowsMark(w)' /\ ~Waiting(w)' /\ ~InFlight(w)'
  BY <1>1, <1>3 DEF KnowsMark, Waiting, InFlight
<1> QED  BY <1>1, <1>2, <1>4, ApartWrites

\* An edit keeps the marks of the rows that stay.
LEMMA ApartEdits ==
  ASSUME TypeOK, IInv, ApartOK, NEW u \in Users, UpsertBasket(u)
  PROVE  ApartOK'
<1>1. PICK wanted \in SUBSET ItemsOf(u) :
        \E pos \in [wanted -> 0 .. Cardinality(wanted) - 1], on \in [wanted -> BOOLEAN] :
           /\ \A k, j \in wanted : pos[k] = pos[j] => k = j
           /\ row' = [k \in Items |->
                IF UserOf[k] = u THEN EditedRow(k, wanted, pos, on) ELSE row[k]]
  BY Zenon DEF UpsertBasket
<1>2. PICK pos, on :
        row' = [k \in Items |->
          IF UserOf[k] = u THEN EditedRow(k, wanted, pos, on) ELSE row[k]]
  BY <1>1
<1>3. ASSUME NEW i \in Items PROVE SameMark(i)
  <2>1. row[i] \in ItemRow /\ row[i].id \in Nat
    BY NumberTypes DEF TypeOK
  <2>2. row'[i] = row[i] \/ row'[i] = EditedRow(i, wanted, pos, on)
    BY <1>2
  <2>3. CASE row'[i] = row[i]
    BY <2>3 DEF SameMark
  <2>4. CASE row'[i] = EditedRow(i, wanted, pos, on) /\ i \notin wanted
    BY <2>4 DEF SameMark, EditedRow, NoItem, NewItem
  <2>5. CASE row'[i] = EditedRow(i, wanted, pos, on) /\ i \in wanted /\ row[i].there
    <3>1. row'[i] = [row[i] EXCEPT !.pos = pos[i], !.enabled = on[i]]
      BY <2>5 DEF EditedRow
    <3> QED  BY <2>1, <2>5, <3>1 DEF SameMark, ItemRow
  <2>6. CASE row'[i] = EditedRow(i, wanted, pos, on) /\ i \in wanted /\ ~row[i].there
    <3>1. row'[i].id = row[i].id + 1
      BY <2>6 DEF EditedRow, NewItem
    <3> QED  BY <2>1, <3>1 DEF SameMark
  <2> QED  BY <2>2, <2>3, <2>4, <2>5, <2>6
<1>4. \A w \in Sessions : SameSession(w) /\ (InFlight(w)' => SameWindow(w))
  BY DEF UpsertBasket, session, SameSession, SameWindow, InFlight
<1>5. ASSUME NEW w \in Sessions PROVE KnowsMark(w)' /\ (Waiting(w)' => Waiting(w))
  BY <1>3, <1>4, KnowsMarkStays DEF ApartOK, Waiting, SameSession
<1>6. ASSUME NEW w \in Sessions PROVE FindsMark(w)'
  BY <1>3, <1>4, <1>5, FindsMarkStays DEF ApartOK
<1> QED  BY <1>4, <1>5, <1>6, ApartSteady

LEMMA ApartNext ==
  ASSUME TwoSyncsOfOneItem
  PROVE  IInv /\ TypeOK' /\ LoopOK /\ ApartOK /\ [Next]_vars => ApartOK'
<1>1. SUFFICES ASSUME TypeOK, IInv, TypeOK', LoopOK, ApartOK, [Next]_vars PROVE ApartOK'
  BY DEF IInv
<1>2. ASSUME UNCHANGED <<row, begun, pc, baskets, todo, view, expired, job>> PROVE ApartOK'
  <2>1. \A w \in Sessions : SameSession(w) /\ (Waiting(w)' = Waiting(w))
    BY <1>2 DEF SameSession, Waiting
  <2>2. \A w \in Sessions : InFlight(w)' => SameWindow(w)
    BY <1>2 DEF SameWindow, InFlight
  <2>3. \A i \in Items : SameMark(i)
    BY <1>2 DEF SameMark
  <2>4. \A w \in Sessions : KnowsMark(w)'
    BY <1>1, <2>1, <2>3, KnowsMarkStays DEF ApartOK
  <2>5. \A w \in Sessions : FindsMark(w)'
    BY <1>1, <2>1, <2>2, <2>3, FindsMarkStays DEF ApartOK
  <2> QED  BY <1>1, <2>2, <2>4, <2>5, ApartSteady
<1>3. ASSUME NEW w \in Sessions, Begin(w) PROVE ApartOK'
  BY <1>1, <1>3, ApartBegins
<1>4. ASSUME NEW w \in Sessions, EndSession(w), pc[w] # "idle", UNCHANGED <<row, bounds>>
      PROVE  ApartOK'
  BY <1>1, <1>4, ApartEnds DEF bounds
<1>5. ASSUME NEW w \in Sessions, Walk(w) PROVE ApartOK'
  <2>1. CASE EndSync(w) \/ \E i \in Items : WalkAborts(w, i)
    BY <1>4, <2>1 DEF EndSync, WalkAborts
  <2> QED  BY <1>1, <1>5, <2>1, ApartEnters, ApartSkips, ApartStarts DEF Walk
<1>6. ASSUME NEW w \in Sessions, SyncItem(w) PROVE ApartOK'
  <2>1. CASE FetchDone(w)
    <3>1. PICK late : job' = [job EXCEPT ![w].got = job[w].got \cup late]
      BY <2>1 DEF FetchDone
    <3>2. job[w] \in Job
      BY <1>1, <2>1, JobTypes DEF FetchDone, InFlight
    <3>3. SameWindow(w) /\ InFlight(w)'
      BY <1>1, <2>1, <3>1, <3>2 DEF FetchDone, InFlight, TypeOK, Job, SameWindow
    <3>4. \A v \in Sessions \ {w} :
            pc'[v] = pc[v] /\ job'[v] = job[v] /\ expired'[v] = expired[v]
      BY <1>1, <2>1, <3>1 DEF FetchDone, TypeOK
    <3>5. row' = row /\ UNCHANGED <<baskets, todo, view, begun>> /\ InFlight(w)
      BY <2>1 DEF FetchDone, bounds, InFlight
    <3> QED  BY <1>1, <3>3, <3>4, <3>5, ApartTries
  <2>2. ASSUME NEW p \in {"import", "rebuild", "finish", "failed"}, InFlight(w),
               GoTo(w, p) \/ RollBack(w), UNCHANGED <<row, bounds>>
        PROVE  ApartOK'
    <3>1. SameWindow(w) /\ InFlight(w)' /\ UNCHANGED <<baskets, todo, view, begun>>
      BY <1>1, <2>2 DEF GoTo, RollBack, InFlight, TypeOK, SameWindow, bounds
    <3>2. \A v \in Sessions \ {w} :
            pc'[v] = pc[v] /\ job'[v] = job[v] /\ expired'[v] = expired[v]
      BY <1>1, <2>2 DEF GoTo, RollBack, TypeOK
    <3> QED  BY <1>1, <2>2, <3>1, <3>2, ApartTries
  <2>3. CASE RecordSuccess(w) \/ RecordError(w)
    BY <1>1, <2>3, ApartRecords
  <2>4. CASE RecordAborts(w)
    BY <1>4, <2>4 DEF RecordAborts
  <2>5. CASE FetchFails(w) \/ ImportFails(w) \/ RebuildFails(w)
    BY <2>2, <2>5 DEF FetchFails, ImportFails, RebuildFails, InFlight
  <2>6. CASE ImportDeals(w) \/ Rebuild(w)
    BY <2>2, <2>6 DEF ImportDeals, Rebuild, InFlight
  <2> QED  BY <1>6, <2>1, <2>3, <2>4, <2>5, <2>6 DEF SyncItem
<1>7. CASE Surroundings
  <2>1. CASE Restart
    <3>1. \A w \in Sessions : pc'[w] = "idle" /\ baskets'[w] = {} /\ todo'[w] = {}
      BY <2>1 DEF Restart
    <3>2. \A w \in Sessions : KnowsMark(w)' /\ FindsMark(w)' /\ ~InFlight(w)'
      BY <3>1 DEF KnowsMark, FindsMark, InFlight
    <3> QED  BY <1>1, <3>2, ApartSteady
  <2>2. CASE Tick \/ (\E i \in Items : ReconstructRoute(i))
             \/ \E i \in Items, t \in Time : Trade(i, t)
    BY <1>2, <2>2 DEF Tick, ReconstructRoute, Trade, session, bounds
  <2> QED  BY <1>1, <1>7, <2>1, <2>2, ApartEdits DEF Surroundings
<1>8. CASE UNCHANGED vars
  BY <1>2, <1>8 DEF vars, session, bounds
<1> QED  BY <1>1, <1>3, <1>5, <1>6, <1>7, <1>8, ApartOutage DEF Next

\* Of two sessions that sync one item once each, whatever is edited, fails or restarts beside
\* them, the second begins beside the first only when it finds it stale ("Sync already
\* running.").  With more items or more sessions this is not so: see the run "double".
THEOREM TwoSyncsKeepApart ==
  ASSUME TwoSyncsOfOneItem
  PROVE  Spec => []OneSyncPerItem
<1>1. Init => ApartOK
  BY DEF Init, ApartOK, OneSyncPerItem, KnowsMark, FindsMark, InFlight
<1>2. Init => LoopOK
  BY DEF Init, LoopOK
<1>3. IInv => TypeOK
  BY DEF IInv
<1>4. ApartOK => OneSyncPerItem
  BY DEF ApartOK
<1>5. IInv /\ TypeOK' /\ LoopOK /\ ApartOK /\ [Next]_vars => ApartOK'
  BY ApartNext
<1> QED
  BY <1>1, <1>2, <1>3, <1>4, <1>5, InitIInv, NextIInv, LoopNext, PTL DEF Spec
=============================================================================
