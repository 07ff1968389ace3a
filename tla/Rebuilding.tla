----------------------------- MODULE Rebuilding -----------------------------
(***************************************************************************)
(* Reconstructions of one user's symbol that run at the same time:         *)
(* PositionReconstructor.reconstruct statement by statement, under the     *)
(* READ COMMITTED isolation that the engine leaves at its default.         *)
(*                                                                         *)
(* The plain routes run in a pool of threads and the basket sync in the    *)
(* event loop, so statements of two reconstructions interleave.  What      *)
(* deals become is the subject of Ledger; here each deal makes a position  *)
(* of its own, and a row tells which.                                      *)
(***************************************************************************)
EXTENDS Integers

CONSTANTS
  Rebuilders,  \* the threads that reconstruct, one transaction each at a time
  MaxDeals,    \* bound: how many deals are imported
  MaxRuns      \* bound: how many reconstructions each of them begins

ASSUME BoundsAssumption == MaxDeals \in Nat /\ MaxRuns \in Nat

VARIABLES
  deals,      \* raw_mexc_order_deals: the deals 1 .. deals are stored
  rows,       \* futures_positions: the committed rows
  pc,         \* the next statement of each transaction
  seen,       \* the snapshot that its DELETE took
  gone,       \* the rows that its DELETE removed, locked until it ends
  loaded,     \* how many deals its SELECT returned
  run,        \* how many transactions each rebuilder has begun
  disturbed   \* history: another transaction was under way beside this one

vars == <<deals, rows, pc, seen, gone, loaded, run, disturbed>>
database == <<deals, rows>>

\* The row of a deal, inserted by a certain transaction.
Row == [deal: Nat, by: Rebuilders, run: Nat]

Deals(rs) == {r.deal : r \in rs}

Active(w) == pc[w] # "idle"

Single(rs) == \A r, s \in rs : r.deal = s.deal => r = s

-----------------------------------------------------------------------------
Init ==
  /\ deals = 0
  /\ rows = {}
  /\ pc = [w \in Rebuilders |-> "idle"]
  /\ seen = [w \in Rebuilders |-> {}]
  /\ gone = [w \in Rebuilders |-> {}]
  /\ loaded = [w \in Rebuilders |-> 0]
  /\ run = [w \in Rebuilders |-> 0]
  /\ disturbed = [w \in Rebuilders |-> FALSE]

\* An import commits a deal.
Import ==
  /\ deals < MaxDeals
  /\ deals' = deals + 1
  /\ UNCHANGED <<rows, pc, seen, gone, loaded, run, disturbed>>

\* The transaction begins, and with it the DELETE, which sees the rows committed by now.
Begin(w) ==
  /\ ~Active(w)
  /\ run[w] < MaxRuns
  /\ run' = [run EXCEPT ![w] = @ + 1]
  /\ seen' = [seen EXCEPT ![w] = rows]
  /\ pc' = [pc EXCEPT ![w] = "delete"]
  /\ disturbed' = [v \in Rebuilders |->
       IF v = w THEN \E u \in Rebuilders : Active(u)
       ELSE disturbed[v] \/ Active(v)]
  /\ UNCHANGED <<deals, rows, gone, loaded>>

Locked(w) == UNION {gone[v] : v \in Rebuilders \ {w}}

\* Mutants: the DELETE passes over locked rows; it removes only rows of its own thread.
DeleteSkipsLocked(w) ==
  /\ pc[w] = "delete"
  /\ gone' = [gone EXCEPT ![w] = (seen[w] \cap rows) \ Locked(w)]
  /\ pc' = [pc EXCEPT ![w] = "load"]
  /\ UNCHANGED <<deals, rows, seen, loaded, run, disturbed>>

DeleteOwn(w) ==
  /\ pc[w] = "delete"
  /\ seen[w] \cap Locked(w) = {}
  /\ gone' = [gone EXCEPT ![w] = {r \in seen[w] \cap rows : r.by = w}]
  /\ pc' = [pc EXCEPT ![w] = "load"]
  /\ UNCHANGED <<deals, rows, seen, loaded, run, disturbed>>

\* The DELETE waits for transactions that removed rows it saw, and passes over those that
\* are gone by then.  Rows committed since its snapshot are not among the ones it saw.
Delete(w) ==
  /\ pc[w] = "delete"
  /\ seen[w] \cap Locked(w) = {}
  /\ gone' = [gone EXCEPT ![w] = seen[w] \cap rows]
  /\ pc' = [pc EXCEPT ![w] = "load"]
  /\ UNCHANGED <<deals, rows, seen, loaded, run, disturbed>>

\* Mutant: the deals of an earlier reconstruction are used again.
LoadOnce(w) ==
  /\ pc[w] = "load"
  /\ loaded' = [loaded EXCEPT ![w] = IF @ = 0 THEN deals ELSE @]
  /\ pc' = [pc EXCEPT ![w] = "insert"]
  /\ UNCHANGED <<deals, rows, seen, gone, run, disturbed>>

Load(w) ==
  /\ pc[w] = "load"
  /\ loaded' = [loaded EXCEPT ![w] = deals]
  /\ pc' = [pc EXCEPT ![w] = "insert"]
  /\ UNCHANGED <<deals, rows, seen, gone, run, disturbed>>

Made(w) == [deal: 1 .. loaded[w], by: {w}, run: {run[w]}]

\* The transaction ends: nothing is locked by it any more.
End(w) ==
  /\ pc' = [pc EXCEPT ![w] = "idle"]
  /\ gone' = [gone EXCEPT ![w] = {}]
  /\ seen' = [seen EXCEPT ![w] = {}]

\* The positions are inserted one by one and become visible with the commit.
Commit(w) ==
  /\ pc[w] = "insert"
  /\ rows' = (rows \ gone[w]) \cup Made(w)
  /\ End(w)
  /\ UNCHANGED <<deals, loaded, run, disturbed>>

\* Mutant: a failed transaction stays open.
AbortKeepsLocks(w) ==
  /\ Active(w)
  /\ pc' = [pc EXCEPT ![w] = "idle"]
  /\ seen' = [seen EXCEPT ![w] = {}]
  /\ UNCHANGED <<deals, rows, gone, loaded, run, disturbed>>

\* An exception, a lost connection or the end of the process rolls the transaction back.
Abort(w) ==
  /\ Active(w)
  /\ End(w)
  /\ UNCHANGED <<deals, rows, loaded, run, disturbed>>

Step(w) == Delete(w) \/ Load(w) \/ Commit(w)

Next ==
  \/ Import
  \/ \E w \in Rebuilders : Begin(w) \/ Step(w) \/ Abort(w)

\* Statements are executed, and a lock is granted once nobody holds it.
Fairness == \A w \in Rebuilders : WF_vars(Step(w))

Spec == Init /\ [][Next]_vars /\ Fairness
-----------------------------------------------------------------------------
(* Properties.                                                             *)

\* A transaction holds rows from its DELETE to its end, and none that another holds.
TypeOK ==
  /\ deals \in 0 .. MaxDeals
  /\ rows \subseteq Row
  /\ pc \in [Rebuilders -> {"idle", "delete", "load", "insert"}]
  /\ seen \in [Rebuilders -> SUBSET Row]
  /\ gone \in [Rebuilders -> SUBSET Row]
  /\ loaded \in [Rebuilders -> Nat]
  /\ run \in [Rebuilders -> 0 .. MaxRuns]
  /\ disturbed \in [Rebuilders -> BOOLEAN]
  /\ \A w \in Rebuilders : pc[w] \in {"idle", "delete"} => gone[w] = {}
  /\ \A v, w \in Rebuilders : v # w => gone[v] \cap gone[w] = {}

\* A deal that the positions show is shown from then on, whichever reconstructions overlap,
\* fail or commit late: the old positions are deleted before the deals are loaded, so what
\* is deleted was made from deals that the transaction is going to load.
NothingUnshown == [][Deals(rows) \subseteq Deals(rows')]_vars

\* Reconstructions that overlap can leave a position more than once, but not more often
\* than there are threads: each removes what it inserted before.
OneCopyPerRebuilder ==
  \A r, s \in rows : r.deal = s.deal /\ r.by = s.by => r = s

\* A reconstruction that nothing overlapped leaves every position once, also when earlier
\* ones had doubled it.
AloneRepairs ==
  [][\A w \in Rebuilders : Commit(w) /\ ~disturbed[w] => Single(rows')]_vars

\* A rebuild leaves no duplicates: test_idempotency_rebuilds_without_duplicates.
NoDuplicates == Single(rows)

\* Every reconstruction ends: none waits for ever for rows that another has removed.
RebuildsEnd == \A w \in Rebuilders : Active(w) ~> ~Active(w)

-----------------------------------------------------------------------------
(* The inductive invariant behind these properties.                        *)

\* What a transaction will remove was made from deals that it has loaded or will load.
CoversGone(w) ==
  /\ pc[w] = "load" => Deals(gone[w]) \subseteq 1 .. deals
  /\ pc[w] = "insert" => Deals(gone[w]) \subseteq 1 .. loaded[w]
  /\ pc[w] = "insert" => loaded[w] <= deals

\* The rows of a thread are older than its transaction; it saw and removes all of them,
\* and only the thread itself can remove them in that time.
OwnRows(w) ==
  /\ \A r \in rows : r.by = w => r.run <= run[w] /\ (Active(w) => r.run < run[w])
  /\ pc[w] = "delete" => \A r \in rows : r.by = w => r \in seen[w]
  /\ pc[w] \in {"load", "insert"} => \A r \in rows : r.by = w => r \in gone[w]

\* A transaction that nothing overlapped runs alone, and removes all rows.
AloneOK(w) ==
  Active(w) /\ ~disturbed[w] =>
    /\ \A v \in Rebuilders \ {w} : ~Active(v)
    /\ pc[w] = "delete" => rows \subseteq seen[w]
    /\ pc[w] \in {"load", "insert"} => rows \subseteq gone[w]

IInv ==
  /\ TypeOK
  /\ Deals(rows) \subseteq 1 .. deals
  /\ OneCopyPerRebuilder
  /\ \A w \in Rebuilders : CoversGone(w) /\ OwnRows(w) /\ AloneOK(w)
=============================================================================
