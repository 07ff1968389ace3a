-------------------------- MODULE RebuildingProofs --------------------------
(***************************************************************************)
(* Proofs about Rebuilding, for any threads and any bounds.                *)
(***************************************************************************)
EXTENDS Rebuilding, TLAPS

\* The rows a transaction makes are new, one for each deal it has loaded.
LEMMA MadeFacts ==
  ASSUME TypeOK, NEW w \in Rebuilders
  PROVE  /\ Made(w) \subseteq Row
         /\ \A r \in Made(w) : r.by = w /\ r.run = run[w]
         /\ Deals(Made(w)) = 1 .. loaded[w]
         /\ Single(Made(w))
<1>1. loaded[w] \in Nat /\ run[w] \in Nat
  BY BoundsAssumption DEF TypeOK
<1>2. ASSUME NEW k \in 1 .. loaded[w]
      PROVE  \E r \in Made(w) : r.deal = k
  <2>1. [deal |-> k, by |-> w, run |-> run[w]] \in Made(w)
    BY DEF Made
  <2> QED  BY <2>1
<1>3. \A r \in Made(w) : r \in Row /\ r.deal \in 1 .. loaded[w] /\ r.by = w /\ r.run = run[w]
  BY <1>1 DEF Made, Row
<1>4. Single(Made(w))
  BY DEF Made, Single
<1> QED  BY <1>2, <1>3, <1>4 DEF Deals

\* The invariant holds in an empty database.
LEMMA InitIInv == Init => IInv
BY BoundsAssumption DEF Init, IInv, TypeOK, OneCopyPerRebuilder, CoversGone, OwnRows, AloneOK,
   Deals, Active, Row

\* An import preserves the invariant: it adds a deal and changes nothing else.
LEMMA ImportStep ==
  ASSUME IInv, Import
  PROVE  IInv'
<1>1. deals \in Nat /\ deals' = deals + 1 /\ deals' \in 0 .. MaxDeals
  BY BoundsAssumption DEF IInv, TypeOK, Import
<1>2. UNCHANGED <<rows, pc, seen, gone, loaded, run, disturbed>>
  BY DEF Import
<1>3. 1 .. deals \subseteq 1 .. deals'
  BY <1>1
<1>4. TypeOK' /\ OneCopyPerRebuilder'
  BY <1>1, <1>2 DEF IInv, TypeOK, OneCopyPerRebuilder
<1>5. ASSUME NEW w \in Rebuilders PROVE CoversGone(w)' /\ OwnRows(w)' /\ AloneOK(w)'
  <2>1. CoversGone(w) /\ OwnRows(w) /\ AloneOK(w) /\ loaded[w] \in Nat
    BY DEF IInv, TypeOK
  <2>2. CoversGone(w)'
    BY <1>1, <1>2, <1>3, <2>1 DEF CoversGone, Deals
  <2> QED  BY <1>2, <2>1, <2>2 DEF OwnRows, AloneOK, Active
<1>6. Deals(rows)' \subseteq 1 .. deals'
  BY <1>2, <1>3 DEF IInv, Deals
<1> QED  BY <1>4, <1>5, <1>6 DEF IInv

\* The begin of a transaction preserves the invariant: it sees all rows.
LEMMA BeginStep ==
  ASSUME IInv, NEW w \in Rebuilders, Begin(w)
  PROVE  IInv'
<1> USE DEF IInv, TypeOK, Active
<1>1. /\ pc[w] = "idle" /\ run[w] < MaxRuns /\ run[w] \in Nat
      /\ run' = [run EXCEPT ![w] = @ + 1]
      /\ seen' = [seen EXCEPT ![w] = rows]
      /\ pc' = [pc EXCEPT ![w] = "delete"]
      /\ UNCHANGED <<deals, rows, gone, loaded>>
  BY BoundsAssumption DEF Begin
<1>2. /\ disturbed'[w] <=> \E u \in Rebuilders : Active(u)
      /\ \A v \in Rebuilders \ {w} : disturbed'[v] <=> disturbed[v] \/ Active(v)
      /\ disturbed' \in [Rebuilders -> BOOLEAN]
  BY DEF Begin
<1>3. gone[w] = {}
  BY <1>1
<1>4. TypeOK'
  <2>1. run[w] + 1 \in 0 .. MaxRuns
    BY <1>1, BoundsAssumption
  <2>2. run' \in [Rebuilders -> 0 .. MaxRuns]
    BY <1>1, <2>1
  <2>3. seen' \in [Rebuilders -> SUBSET Row]
    BY <1>1
  <2>4. pc' \in [Rebuilders -> {"idle", "delete", "load", "insert"}]
    BY <1>1
  <2>5. \A v \in Rebuilders : pc'[v] \in {"idle", "delete"} => gone'[v] = {}
    BY <1>1, <1>3
  <2> QED  BY <1>1, <1>2, <2>2, <2>3, <2>4, <2>5
<1>5. ASSUME NEW v \in Rebuilders, v # w
      PROVE  CoversGone(v)' /\ OwnRows(v)' /\ AloneOK(v)'
  <2>1. pc'[v] = pc[v] /\ seen'[v] = seen[v] /\ run'[v] = run[v] /\ pc'[w] = "delete"
    BY <1>1, <1>5
  <2>2. CoversGone(v) /\ OwnRows(v)
    OBVIOUS
  <2>3. Active(v) => disturbed'[v]
    BY <1>2, <1>5
  <2> QED  BY <1>1, <2>1, <2>2, <2>3, <1>5 DEF CoversGone, OwnRows, AloneOK
<1>6. CoversGone(w)' /\ OwnRows(w)' /\ AloneOK(w)'
  <2>1. pc'[w] = "delete" /\ seen'[w] = rows /\ run'[w] = run[w] + 1
    BY <1>1
  <2>2. CoversGone(w)'
    BY <2>1 DEF CoversGone
  <2>3. OwnRows(w)'
    <3>1. \A r \in rows : r.run \in Nat
      BY DEF Row
    <3> QED  BY <1>1, <2>1, <3>1 DEF OwnRows
  <2>4. AloneOK(w)'
    <3>1. ASSUME NEW v \in Rebuilders \ {w}, ~disturbed'[w] PROVE pc'[v] = "idle"
      BY <1>1, <1>2, <3>1
    <3> QED  BY <1>1, <2>1, <3>1 DEF AloneOK
  <2> QED  BY <2>2, <2>3, <2>4
<1> QED  BY <1>1, <1>4, <1>5, <1>6 DEF OneCopyPerRebuilder, Deals

\* The DELETE preserves the invariant: it takes the rows it saw that are still there.
LEMMA DeleteStep ==
  ASSUME IInv, NEW w \in Rebuilders, Delete(w)
  PROVE  IInv'
<1> USE DEF IInv, TypeOK, Active
<1>1. /\ pc[w] = "delete" /\ seen[w] \cap Locked(w) = {}
      /\ gone' = [gone EXCEPT ![w] = seen[w] \cap rows]
      /\ pc' = [pc EXCEPT ![w] = "load"]
      /\ UNCHANGED <<deals, rows, seen, loaded, run, disturbed>>
  BY DEF Delete
<1>2. \A v \in Rebuilders \ {w} : (seen[w] \cap rows) \cap gone[v] = {}
  BY <1>1 DEF Locked
<1>3. TypeOK'
  <2>1. seen[w] \cap rows \in SUBSET Row
    OBVIOUS
  <2> QED  BY <1>1, <1>2, <2>1
<1>4. ASSUME NEW v \in Rebuilders, v # w
      PROVE  CoversGone(v)' /\ OwnRows(v)' /\ AloneOK(v)'
  <2>1. pc'[v] = pc[v] /\ gone'[v] = gone[v]
    BY <1>1, <1>4
  <2> QED  BY <1>1, <1>4, <2>1 DEF CoversGone, OwnRows, AloneOK
<1>5. CoversGone(w)' /\ OwnRows(w)' /\ AloneOK(w)'
  <2>1. pc'[w] = "load" /\ gone'[w] = seen[w] \cap rows
    BY <1>1
  <2>2. Deals(seen[w] \cap rows) \subseteq 1 .. deals
    BY DEF Deals
  <2>3. CoversGone(w)'
    BY <1>1, <2>1, <2>2 DEF CoversGone, Deals
  <2>4. OwnRows(w)'
    BY <1>1, <2>1 DEF OwnRows
  <2>5. AloneOK(w)'
    BY <1>1, <2>1 DEF AloneOK
  <2> QED  BY <2>3, <2>4, <2>5
<1> QED  BY <1>1, <1>3, <1>4, <1>5 DEF OneCopyPerRebuilder, Deals

\* The SELECT preserves the invariant: the deals of the removed rows are among its result.
LEMMA LoadStep ==
  ASSUME IInv, NEW w \in Rebuilders, Load(w)
  PROVE  IInv'
<1> USE DEF IInv, TypeOK, Active
<1>1. /\ pc[w] = "load"
      /\ loaded' = [loaded EXCEPT ![w] = deals]
      /\ pc' = [pc EXCEPT ![w] = "insert"]
      /\ UNCHANGED <<deals, rows, seen, gone, run, disturbed>>
  BY DEF Load
<1>2. deals \in Nat
  BY BoundsAssumption
<1>3. TypeOK'
  BY <1>1, <1>2
<1>4. ASSUME NEW v \in Rebuilders, v # w
      PROVE  CoversGone(v)' /\ OwnRows(v)' /\ AloneOK(v)'
  <2>1. pc'[v] = pc[v] /\ loaded'[v] = loaded[v]
    BY <1>1, <1>4
  <2> QED  BY <1>1, <1>4, <2>1 DEF CoversGone, OwnRows, AloneOK
<1>5. CoversGone(w)' /\ OwnRows(w)' /\ AloneOK(w)'
  <2>1. pc'[w] = "insert" /\ loaded'[w] = deals
    BY <1>1
  <2> QED  BY <1>1, <1>2, <2>1 DEF CoversGone, OwnRows, AloneOK
<1> QED  BY <1>1, <1>3, <1>4, <1>5 DEF OneCopyPerRebuilder, Deals

\* The end of another transaction that leaves the rows alone preserves the invariant.
LEMMA AbortStep ==
  ASSUME IInv, NEW w \in Rebuilders, Abort(w)
  PROVE  IInv'
<1> USE DEF IInv, TypeOK, Active
<1>1. /\ pc' = [pc EXCEPT ![w] = "idle"]
      /\ gone' = [gone EXCEPT ![w] = {}]
      /\ seen' = [seen EXCEPT ![w] = {}]
      /\ UNCHANGED <<deals, rows, loaded, run, disturbed>>
      /\ pc[w] # "idle"
  BY DEF Abort, End
<1>2. TypeOK'
  BY <1>1
<1>3. ASSUME NEW v \in Rebuilders, v # w
      PROVE  CoversGone(v)' /\ OwnRows(v)' /\ AloneOK(v)'
  <2>1. pc'[v] = pc[v] /\ gone'[v] = gone[v] /\ seen'[v] = seen[v]
    BY <1>1, <1>3
  <2> QED  BY <1>1, <1>3, <2>1 DEF CoversGone, OwnRows, AloneOK
<1>4. CoversGone(w)' /\ OwnRows(w)' /\ AloneOK(w)'
  <2>1. pc'[w] = "idle"
    BY <1>1
  <2>2. \A r \in rows : r.run \in Nat
    BY DEF Row
  <2> QED  BY <1>1, <2>1, <2>2 DEF CoversGone, OwnRows, AloneOK
<1> QED  BY <1>1, <1>2, <1>3, <1>4 DEF OneCopyPerRebuilder, Deals

\* What a commit does to the rows: those it removes make room for one of each deal.
LEMMA CommitRows ==
  ASSUME IInv, NEW w \in Rebuilders, Commit(w)
  PROVE  /\ rows' = (rows \ gone[w]) \cup Made(w)
         /\ Made(w) \subseteq Row
         /\ \A r \in Made(w) : r.by = w /\ r.run = run[w]
         /\ Deals(Made(w)) = 1 .. loaded[w]
         /\ Single(Made(w))
         /\ \A r \in rows \ gone[w] : r.by # w
         /\ Deals(gone[w]) \subseteq 1 .. loaded[w]
         /\ loaded[w] <= deals /\ loaded[w] \in Nat /\ deals \in Nat
<1>1. pc[w] = "insert" /\ rows' = (rows \ gone[w]) \cup Made(w)
  BY DEF Commit
<1>2. TypeOK /\ CoversGone(w) /\ OwnRows(w)
  BY DEF IInv
<1>3. loaded[w] \in Nat /\ deals \in Nat
  BY <1>2, BoundsAssumption DEF TypeOK
<1>4. Deals(gone[w]) \subseteq 1 .. loaded[w] /\ loaded[w] <= deals
  BY <1>1, <1>2 DEF CoversGone
<1>5. \A r \in rows \ gone[w] : r.by # w
  BY <1>1, <1>2 DEF OwnRows
<1> QED  BY <1>1, <1>2, <1>3, <1>4, <1>5, MadeFacts

\* A commit preserves the invariant.
LEMMA CommitStep ==
  ASSUME IInv, NEW w \in Rebuilders, Commit(w)
  PROVE  IInv'
<1> USE DEF IInv, TypeOK, Active
<1>1. /\ pc[w] = "insert"
      /\ pc' = [pc EXCEPT ![w] = "idle"]
      /\ gone' = [gone EXCEPT ![w] = {}]
      /\ seen' = [seen EXCEPT ![w] = {}]
      /\ UNCHANGED <<deals, loaded, run, disturbed>>
  BY DEF Commit, End
<1>2. /\ rows' = (rows \ gone[w]) \cup Made(w)
      /\ Made(w) \subseteq Row
      /\ \A r \in Made(w) : r.by = w /\ r.run = run[w]
      /\ Deals(Made(w)) = 1 .. loaded[w]
      /\ Single(Made(w))
      /\ \A r \in rows \ gone[w] : r.by # w
      /\ loaded[w] <= deals /\ loaded[w] \in Nat /\ deals \in Nat
  BY CommitRows
<1>3. TypeOK'
  BY <1>1, <1>2
<1>4. Deals(rows)' \subseteq 1 .. deals'
  <2>1. Deals(rows) \subseteq 1 .. deals /\ Deals(Made(w)) \subseteq 1 .. deals
    BY <1>2
  <2>2. Deals(rows') \subseteq Deals(rows) \cup Deals(Made(w))
    BY <1>2 DEF Deals
  <2>3. Deals(rows)' = Deals(rows')
    BY DEF Deals
  <2> QED  BY <1>1, <2>1, <2>2, <2>3
<1>5. OneCopyPerRebuilder'
  BY <1>2 DEF OneCopyPerRebuilder, Single
<1>6. ASSUME NEW v \in Rebuilders, v # w
      PROVE  CoversGone(v)' /\ OwnRows(v)' /\ AloneOK(v)'
  <2>1. /\ pc'[v] = pc[v] /\ gone'[v] = gone[v] /\ seen'[v] = seen[v]
        /\ run'[v] = run[v] /\ loaded'[v] = loaded[v] /\ disturbed'[v] = disturbed[v]
    BY <1>1, <1>6
  <2>2. CoversGone(v)'
    BY <1>1, <2>1 DEF CoversGone, Deals
  <2>3. \A r \in rows' : r.by = v => r \in rows
    BY <1>2, <1>6
  <2>4. OwnRows(v)'
    BY <2>1, <2>3 DEF OwnRows
  <2>5. AloneOK(v)'
    BY <1>1, <1>6, <2>1 DEF AloneOK
  <2> QED  BY <2>2, <2>4, <2>5
<1>7. CoversGone(w)' /\ OwnRows(w)' /\ AloneOK(w)'
  <2>1. pc'[w] = "idle" /\ run'[w] = run[w] /\ run[w] \in Nat
    BY <1>1, BoundsAssumption
  <2>2. \A r \in rows' : r.by = w => r.run = run[w]
    BY <1>2
  <2> QED  BY <2>1, <2>2 DEF CoversGone, OwnRows, AloneOK
<1> QED  BY <1>3, <1>4, <1>5, <1>6, <1>7

\* Every step preserves the invariant.
LEMMA NextStep ==
  ASSUME IInv, [Next]_vars
  PROVE  IInv'
<1>1. CASE Next
  BY <1>1, ImportStep, BeginStep, DeleteStep, LoadStep, CommitStep, AbortStep DEF Next, Step
<1>2. CASE UNCHANGED vars
  BY <1>2 DEF vars, IInv, TypeOK, OneCopyPerRebuilder, CoversGone, OwnRows, AloneOK, Active,
     Deals
<1> QED  BY <1>1, <1>2

\* The invariant holds in every reachable state.
LEMMA Invariant == Spec => []IInv
<1>1. IInv /\ [Next]_vars => IInv'
  BY NextStep
<1> QED  BY <1>1, InitIInv, PTL DEF Spec

\* Every variable keeps its type, and no two transactions hold the same row.
THEOREM TypeCorrect == Spec => []TypeOK
<1>1. IInv => TypeOK
  BY DEF IInv
<1> QED  BY <1>1, Invariant, PTL

\* No thread leaves two copies of a position, so there are never more than threads.
THEOREM CopiesBounded == Spec => []OneCopyPerRebuilder
<1>1. IInv => OneCopyPerRebuilder
  BY DEF IInv
<1> QED  BY <1>1, Invariant, PTL

\* No step takes a deal out of the positions that show it: the order of DELETE and SELECT
\* in reconstruct is what makes overlapping reconstructions harmless in this respect.
THEOREM DealsStayShown == Spec => NothingUnshown
<1>1. ASSUME IInv, [Next]_vars PROVE [Deals(rows) \subseteq Deals(rows')]_vars
  <2>1. CASE \E w \in Rebuilders : Commit(w)
    <3>1. PICK w \in Rebuilders : Commit(w)
      BY <2>1
    <3>2. /\ rows' = (rows \ gone[w]) \cup Made(w)
          /\ Deals(Made(w)) = 1 .. loaded[w] /\ Deals(gone[w]) \subseteq 1 .. loaded[w]
      BY <1>1, <3>1, CommitRows
    <3>3. Deals(rows) \subseteq Deals(rows \ gone[w]) \cup Deals(gone[w])
      BY DEF Deals
    <3>4. Deals(rows') = Deals(rows \ gone[w]) \cup Deals(Made(w))
      BY <3>2 DEF Deals
    <3> QED  BY <3>2, <3>3, <3>4
  <2>2. CASE ~\E w \in Rebuilders : Commit(w)
    <3>1. rows' = rows
      BY <1>1, <2>2 DEF Next, Import, Begin, Step, Delete, Load, Abort, vars
    <3> QED  BY <3>1
  <2> QED  BY <2>1, <2>2
<1> QED  BY <1>1, Invariant, PTL DEF Spec, NothingUnshown

\* A reconstruction that nothing overlapped removes all rows and leaves each position once.
THEOREM AloneLeavesOne == Spec => AloneRepairs
<1>1. ASSUME IInv, NEW w \in Rebuilders, Commit(w), ~disturbed[w]
      PROVE  Single(rows')
  <2>1. pc[w] = "insert"
    BY <1>1 DEF Commit
  <2>2. rows \subseteq gone[w]
    BY <1>1, <2>1 DEF IInv, AloneOK, Active
  <2>3. rows' = (rows \ gone[w]) \cup Made(w) /\ Single(Made(w))
    BY <1>1, CommitRows
  <2>4. rows' = Made(w)
    BY <2>2, <2>3
  <2> QED  BY <2>3, <2>4
<1>2. IInv => \A w \in Rebuilders : Commit(w) /\ ~disturbed[w] => Single(rows')
  BY <1>1
<1> QED  BY <1>2, Invariant, PTL DEF Spec, AloneRepairs
=============================================================================
