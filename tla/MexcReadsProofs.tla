--------------------------- MODULE MexcReadsProofs ---------------------------
(***************************************************************************)
(* Proofs about MexcReads: pages shift while they are read, and still no   *)
(* item is missed.                                                         *)
(***************************************************************************)
EXTENDS MexcReads, SetLemmas

-----------------------------------------------------------------------------
(* The inductive invariant.                                                *)

Outcomes == {"new", "read", "pause", "store", "choose", "upstream", "imported", "lost", "found"}
RequestRecord ==
  [kind : {"deals", "stops"}, position : Positions \cup {None}, from : Int, to : Int, began : Int,
   attempt : Nat, page : Nat \ {0}, collected : SUBSET (Deals \cup StopOrders), read : Nat,
   imported : Nat, skipped : Int, stop : StopOrders \cup {None}]

\* What a request looks for: all of its range that was listed when it began.
Old(r) == {i \in Items(r) : i.at <= r.began /\ r.from <= i.at /\ i.at <= r.to}
InRange(r) == {i \in Items(r) : r.from <= i.at /\ i.at <= r.to}

\* What is known of a request that has begun.
Fits(p, from, to) ==
  /\ p \in Positions
  /\ from = p.opened - Lookback /\ to <= p.opened + Lookahead
  /\ p.closed # None /\ p.closed > p.opened => to <= p.closed
Sound(r) ==
  /\ r \in RequestRecord
  /\ r.began <= clock /\ r.collected \subseteq InRange(r)
  /\ \/ r.kind = "deals" /\ r.to = MaxTime
     \/ r.kind = "stops" /\ Fits(r.position, r.from, r.to)

\* What was listed when the request began has been read, or stands behind the pages read.
Behind(i, r) ==
  Cardinality(Ahead(i, Listed(Items(r), r.from, r.to))) >= PageSize * (r.page - 1)
NothingPassed(r) == \A i \in Old(r) : i \in r.collected \/ Behind(i, r)

\* The stop order that _find_opening_stop_loss_order returns.
Candidates(r) == {o \in r.collected : Matches(o, r.position)}
IsFirst(stop, r) ==
  stop \in Candidates(r) /\ \A other \in Candidates(r) : ~Before(other, stop, r.position)
Chosen(r) ==
  \/ Candidates(r) = {} /\ r.stop = None
  \/ IsFirst(r.stop, r)

RequestOK(r, at) ==
  /\ at # "new" => Sound(r)
  /\ at \in {"read", "pause"} => NothingPassed(r)
  /\ at \in {"pause", "store", "imported", "lost"} => r.kind = "deals"
  /\ at \in {"choose", "found"} => r.kind = "stops"
  /\ at \in {"store", "choose", "found"} => Old(r) \subseteq r.collected
  /\ at = "imported" => Old(r) \subseteq table
  /\ at = "found" => Chosen(r)

ImportedBy == [s \in Done |-> request[s].imported]

\* The inductive invariant: what each request has passed, and how the table fills.
IInv ==
  /\ clock \in Nat /\ clock <= MaxTime
  /\ newestFirst \in BOOLEAN
  /\ table \subseteq Deals
  /\ pc \in [Requests -> Outcomes] /\ request = [s \in Requests |-> request[s]]
  /\ \A s \in Requests : RequestOK(request[s], pc[s])
  /\ Cardinality(table) = SumFunctionOnSet(ImportedBy, Done)

-----------------------------------------------------------------------------
(* Pages.                                                                  *)

\* What is listed is finite, and "ahead of" is a strict order of it.
LEMMA ListingOrder ==
  ASSUME NEW items \in {Deals, StopOrders}, NEW from, NEW to, newestFirst \in BOOLEAN,
         NEW listed, listed = Listed(items, from, to),
         NEW before, before = [i \in listed |-> Ahead(i, listed)]
  PROVE  IsFiniteSet(listed) /\ StrictOrder(listed, before)
<1>1. IsFiniteSet(listed)
  <2>1. IsFiniteSet(items) /\ listed \in SUBSET items
    BY ListedAssumption DEF Listed
  <2> QED  BY <2>1, FS_Subset
<1>2. \A a, b \in listed : a.at \in Int /\ a.id \in Int /\ (a.id = b.id => a = b)
  BY ListedAssumption DEF Listed
<1>3. before \in [listed -> SUBSET listed]
  BY DEF Ahead
<1>4. CASE newestFirst
  <2>1. \A i, j \in listed : j \in before[i] <=> Older(i, j)
    BY <1>4 DEF Ahead
  <2>2. \A i, j, k \in listed : /\ ~Older(i, i)
                                /\ Older(i, j) /\ Older(j, k) => Older(i, k)
                                /\ i # j => Older(i, j) \/ Older(j, i)
    BY <1>2 DEF Older
  <2> QED  BY <1>1, <1>3, <2>1, <2>2 DEF StrictOrder
<1>5. CASE ~newestFirst
  <2>1. \A i, j \in listed : j \in before[i] <=> Older(j, i)
    BY <1>5 DEF Ahead
  <2>2. \A i, j, k \in listed : /\ ~Older(i, i)
                                /\ Older(i, j) /\ Older(j, k) => Older(i, k)
                                /\ i # j => Older(i, j) \/ Older(j, i)
    BY <1>2 DEF Older
  <2> QED  BY <1>1, <1>3, <2>1, <2>2 DEF StrictOrder
<1> QED  BY <1>4, <1>5

\* The number of items ahead of a listed one.
LEMMA AheadCount ==
  ASSUME NEW items \in {Deals, StopOrders}, NEW from, NEW to, newestFirst \in BOOLEAN,
         NEW listed, listed = Listed(items, from, to), NEW i
  PROVE  /\ IsFiniteSet(listed) /\ IsFiniteSet(Ahead(i, listed))
         /\ Cardinality(Ahead(i, listed)) \in Nat
<1>1. IsFiniteSet(listed)
  <2>1. IsFiniteSet(items) /\ listed \in SUBSET items
    BY ListedAssumption DEF Listed
  <2> QED  BY <2>1, FS_Subset
<1>2. Ahead(i, listed) \in SUBSET listed
  BY DEF Ahead
<1>3. IsFiniteSet(Ahead(i, listed))
  BY <1>1, <1>2, FS_Subset
<1> QED  BY <1>1, <1>3, FS_CardinalityType

LEMMA Places ==
  ASSUME NEW n \in Nat \ {0}
  PROVE  /\ PageSize * (n - 1) \in Nat /\ PageSize * n \in Nat
         /\ PageSize * (n - 1) + PageSize = PageSize * n
BY ReadsAssumption

\* An item that stands behind the pages read is on the next page or behind that one too.
LEMMA NextPage ==
  ASSUME NEW items \in {Deals, StopOrders}, NEW from, NEW to, newestFirst \in BOOLEAN,
         NEW n \in Nat \ {0}, NEW page, page = Page(items, from, to, n),
         NEW listed, listed = Listed(items, from, to), NEW i \in listed, i \notin page,
         Cardinality(Ahead(i, listed)) >= PageSize * (n - 1)
  PROVE  Cardinality(Ahead(i, listed)) >= PageSize * n
<1>1. PICK place : place = Cardinality(Ahead(i, listed))
  OBVIOUS
<1>2. place \in Nat
  BY <1>1, AheadCount
<1>3. place \notin PageSize * (n - 1) .. PageSize * n - 1
  BY <1>1 DEF Page
<1>4. PICK low, high : low = PageSize * (n - 1) /\ high = PageSize * n
  OBVIOUS
<1>5. low \in Nat /\ high \in Nat /\ place >= low /\ place \notin low .. high - 1
  BY <1>1, <1>3, <1>4, Places
<1>6. place >= high
  BY <1>2, <1>5
<1> QED  BY <1>1, <1>4, <1>6

\* Nothing stands behind a page that is not full.
LEMMA NothingBehindLast ==
  ASSUME NEW items \in {Deals, StopOrders}, NEW from, NEW to, newestFirst \in BOOLEAN,
         NEW n \in Nat \ {0}, NEW page, page = Page(items, from, to, n), LastPage(page),
         NEW listed, listed = Listed(items, from, to), NEW i \in listed
  PROVE  ~ (Cardinality(Ahead(i, listed)) >= PageSize * n)
<1>1. SUFFICES ASSUME Cardinality(Ahead(i, listed)) >= PageSize * n PROVE FALSE
  OBVIOUS
<1>2. PICK before : before = [j \in listed |-> Ahead(j, listed)]
  OBVIOUS
<1>3. IsFiniteSet(listed) /\ StrictOrder(listed, before)
  BY <1>2, ListingOrder
<1>4. PICK low : low = PageSize * (n - 1)
  OBVIOUS
<1>5. low \in Nat /\ PageSize \in Nat /\ PageSize * n = low + PageSize
  BY <1>4, Places, ReadsAssumption
<1>6. Cardinality(before[i]) >= low + PageSize
  BY <1>1, <1>2, <1>5
<1>7. page = {j \in listed : Cardinality(before[j]) \in low .. low + PageSize - 1}
  BY <1>2, <1>4, <1>5 DEF Page
<1>8. IsFiniteSet(page) /\ Cardinality(page) >= PageSize
  BY <1>3, <1>5, <1>6, <1>7, RunIsFull
<1>9. Cardinality(page) \in Nat /\ Cardinality(page) < PageSize
  BY <1>8, FS_CardinalityType DEF LastPage
<1> QED  BY <1>5, <1>8, <1>9

\* A page is part of the listing.
LEMMA PageListed ==
  ASSUME NEW items, NEW from, NEW to, NEW n
  PROVE  Page(items, from, to, n) \subseteq Listed(items, from, to)
BY DEF Page

\* While time passes, what is ahead of an item only grows.
LEMMA AheadGrows ==
  ASSUME NEW items \in {Deals, StopOrders}, NEW from, NEW to, newestFirst \in BOOLEAN,
         newestFirst' = newestFirst, clock \in Int, clock' \in Int, clock <= clock',
         NEW i, NEW n, n <= Cardinality(Ahead(i, Listed(items, from, to))), n \in Int
  PROVE  n <= Cardinality(Ahead(i, Listed(items, from, to)))'
<1>1. PICK before, after : before = Ahead(i, Listed(items, from, to))
                           /\ after = Ahead(i, Listed(items, from, to))'
  OBVIOUS
<1>2. before \subseteq after
  <2>1. \A j \in items : j.at \in Int
    BY ListedAssumption
  <2> QED  BY <1>1, <2>1 DEF Ahead, Listed, Older
<1>3. IsFiniteSet(after)
  <2>1. IsFiniteSet(items) /\ after \in SUBSET items
    BY <1>1, ListedAssumption DEF Ahead, Listed
  <2> QED  BY <2>1, FS_Subset
<1>4. Cardinality(before) <= Cardinality(after)
  BY <1>2, <1>3, FS_Subset
<1>5. IsFiniteSet(before) /\ Cardinality(before) \in Nat /\ Cardinality(after) \in Nat
  BY <1>2, <1>3, FS_Subset, FS_CardinalityType
<1> QED  BY <1>1, <1>4, <1>5

-----------------------------------------------------------------------------
(* What a step leaves alone.                                               *)

\* The steps that move time or the table move them forward.
GoesOn ==
  /\ clock \in Nat /\ clock' \in Nat /\ clock <= clock'
  /\ newestFirst \in BOOLEAN /\ newestFirst' = newestFirst
  /\ table \subseteq table'

LEMMA SoundStays ==
  ASSUME GoesOn, NEW r, Sound(r)
  PROVE  Sound(r)'
<1>1. r.began \in Int /\ r.began <= clock'
  BY DEF GoesOn, Sound, RequestRecord
<1> QED  BY <1>1 DEF Sound

LEMMA PassedStays ==
  ASSUME GoesOn, NEW r, Sound(r), NothingPassed(r)
  PROVE  NothingPassed(r)'
<1>1. SUFFICES ASSUME NEW i \in Old(r), i \notin r.collected PROVE Behind(i, r)'
  BY DEF NothingPassed
<1>2. PICK n : n = PageSize * (r.page - 1)
  OBVIOUS
<1>3. n \in Int
  BY <1>2, Places DEF Sound, RequestRecord
<1>4. Behind(i, r)
  BY <1>1 DEF NothingPassed
<1>5. PICK items, from, to : items = Items(r) /\ from = r.from /\ to = r.to
  OBVIOUS
<1>6. items \in {Deals, StopOrders}
  BY <1>5 DEF Items
<1>7. n <= Cardinality(Ahead(i, Listed(items, from, to)))
  <2>1. Cardinality(Ahead(i, Listed(items, from, to))) \in Nat
    BY <1>6, AheadCount DEF GoesOn
  <2> QED  BY <1>2, <1>3, <1>4, <1>5, <2>1 DEF Behind
<1>8. n <= Cardinality(Ahead(i, Listed(items, from, to)))'
  <2>1. clock \in Int /\ clock' \in Int /\ clock <= clock' /\ newestFirst \in BOOLEAN
        /\ newestFirst' = newestFirst
    BY DEF GoesOn
  <2> QED  BY <1>3, <1>6, <1>7, <2>1, AheadGrows
<1>9. Cardinality(Ahead(i, Listed(items, from, to)))' \in Nat
  <2>1. IsFiniteSet(Ahead(i, Listed(items, from, to)))'
    <3>1. IsFiniteSet(items)
      BY <1>6, ListedAssumption
    <3>2. Ahead(i, Listed(items, from, to))' \in SUBSET items
      BY DEF Ahead, Listed
    <3> QED  BY <3>1, <3>2, FS_Subset
  <2> QED  BY <2>1, FS_CardinalityType
<1> QED  BY <1>2, <1>3, <1>5, <1>8, <1>9 DEF Behind

\* What holds of a request goes on holding.
LEMMA RequestStays ==
  ASSUME GoesOn, NEW r, NEW at, RequestOK(r, at)
  PROVE  RequestOK(r, at)'
<1>1. at # "new" => Sound(r)'
  BY SoundStays DEF RequestOK
<1>2. at \in {"read", "pause"} => NothingPassed(r)'
  BY PassedStays DEF RequestOK
<1>3. at = "imported" => Old(r) \subseteq table'
  BY DEF RequestOK, GoesOn
<1> QED  BY <1>1, <1>2, <1>3 DEF RequestOK

\* The requests after a step of one of them.
LEMMA RequestsStay ==
  ASSUME GoesOn, IInv, NEW s \in Requests, NEW r, request' = [request EXCEPT ![s] = r],
         NEW at \in Outcomes, pc' = [pc EXCEPT ![s] = at], RequestOK(r, at)'
  PROVE  /\ pc' \in [Requests -> Outcomes] /\ request' = [q \in Requests |-> request'[q]]
         /\ \A q \in Requests : RequestOK(request[q], pc[q])'
<1>1. request'[s] = r /\ pc'[s] = at
  BY DEF IInv
<1>2. ASSUME NEW q \in Requests, q # s PROVE RequestOK(request[q], pc[q])'
  <2>1. PICK old, was : old = request[q] /\ was = pc[q]
    OBVIOUS
  <2>2. request'[q] = old /\ pc'[q] = was
    BY <1>2, <2>1 DEF IInv
  <2>3. RequestOK(old, was)'
    BY <2>1, RequestStays DEF IInv
  <2> QED  BY <2>2, <2>3
<1>3. pc' \in [Requests -> Outcomes] /\ request' = [q \in Requests |-> request'[q]]
  BY DEF IInv
<1> QED  BY <1>1, <1>2, <1>3

\* A step of a request that leaves the table alone.
LEMMA StepKept ==
  ASSUME IInv, NEW s \in Requests, NEW r, request' = [request EXCEPT ![s] = r],
         NEW at \in Outcomes, pc' = [pc EXCEPT ![s] = at], RequestOK(r, at),
         UNCHANGED <<clock, newestFirst, table>>, pc[s] # "imported", at # "imported"
  PROVE  IInv'
<1>1. GoesOn
  BY DEF GoesOn, IInv
<1>2. RequestOK(r, at)'
  BY <1>1, RequestStays
<1>3. /\ pc' \in [Requests -> Outcomes] /\ request' = [q \in Requests |-> request'[q]]
      /\ \A q \in Requests : RequestOK(request[q], pc[q])'
  BY <1>1, <1>2, RequestsStay
<1>4. Done' = Done /\ \A q \in Done : request'[q] = request[q]
  BY DEF Done, IInv
<1>5. ImportedBy' = ImportedBy
  BY <1>4 DEF ImportedBy
<1>6. Cardinality(table') = SumFunctionOnSet(ImportedBy', Done')
  BY <1>4, <1>5 DEF IInv
<1> QED  BY <1>3, <1>6 DEF IInv

\* A function is itself with its own value put in.
LEMMA Unchanged ==
  ASSUME NEW f, f = [q \in DOMAIN f |-> f[q]], NEW s
  PROVE  f = [f EXCEPT ![s] = f[s]]
OBVIOUS

-----------------------------------------------------------------------------
(* The steps.                                                              *)

\* Before the first page everything is still behind.
LEMMA FreshPasses ==
  ASSUME newestFirst \in BOOLEAN, NEW r, r.page = 1
  PROVE  NothingPassed(r)
<1>1. SUFFICES ASSUME NEW i \in Old(r) PROVE Behind(i, r)
  BY DEF NothingPassed
<1>2. PICK items, from, to : items = Items(r) /\ from = r.from /\ to = r.to
  OBVIOUS
<1>3. items \in {Deals, StopOrders}
  BY <1>2 DEF Items
<1>4. Cardinality(Ahead(i, Listed(items, from, to))) \in Nat
  BY <1>3, AheadCount
<1>5. PageSize * (r.page - 1) = 0
  BY ReadsAssumption
<1> QED  BY <1>2, <1>4, <1>5 DEF Behind

LEMMA BeginImportKept ==
  ASSUME IInv, NEW s \in Requests, BeginImport(s)
  PROVE  IInv'
<1>1. PICK r : \E from \in Froms :
        /\ pc[s] = "new" /\ r = Begun("deals", None, from, MaxTime)
        /\ request' = [request EXCEPT ![s] = r]
        /\ pc' = [pc EXCEPT ![s] = "read"]
        /\ UNCHANGED <<clock, newestFirst, table>>
  BY DEF BeginImport
<1> PICK from \in Froms : r = Begun("deals", None, from, MaxTime)
  BY <1>1
<1>2. /\ r \in RequestRecord
      /\ r.kind = "deals" /\ r.from = from /\ r.to = MaxTime /\ r.began = clock
      /\ r.page = 1 /\ r.collected = {}
  BY <1>1, TimeAssumption DEF Begun, RequestRecord, IInv
<1>3. Sound(r)
  BY <1>2, TimeAssumption DEF Sound, IInv
<1>4. NothingPassed(r)
  BY <1>2, FreshPasses DEF IInv
<1>5. RequestOK(r, "read")
  BY <1>3, <1>4 DEF RequestOK
<1> QED  BY <1>1, <1>5, StepKept DEF Outcomes

\* The range in which the stop order of a position is looked for.
LEMMA WindowFits ==
  ASSUME IInv, NEW p \in Positions, NEW w, w = Window(p)
  PROVE  w.from \in Int /\ w.to \in Int /\ Fits(p, w.from, w.to)
BY TimeAssumption, OrdersAssumption DEF Window, Earlier, Fits, IInv

LEMMA BeginLookupKept ==
  ASSUME IInv, NEW s \in Requests, BeginLookup(s)
  PROVE  IInv'
<1>1. PICK p \in Positions :
        /\ pc[s] = "new"
        /\ request' = [request EXCEPT ![s] = Begun("stops", p, Window(p).from, Window(p).to)]
        /\ pc' = [pc EXCEPT ![s] = "read"]
        /\ UNCHANGED <<clock, newestFirst, table>>
  BY DEF BeginLookup
<1> PICK from, to, r :
      from = Window(p).from /\ to = Window(p).to /\ r = Begun("stops", p, from, to)
  OBVIOUS
<1>2. from \in Int /\ to \in Int /\ Fits(p, from, to)
  BY <1>1, WindowFits
<1>3. /\ r \in RequestRecord
      /\ r.kind = "stops" /\ r.from = from /\ r.to = to /\ r.began = clock
      /\ r.page = 1 /\ r.collected = {} /\ r.position = p
  BY <1>1, <1>2 DEF Begun, RequestRecord, IInv
<1>4. Sound(r)
  BY <1>2, <1>3 DEF Sound, IInv
<1>5. NothingPassed(r)
  BY <1>3, FreshPasses DEF IInv
<1>6. RequestOK(r, "read")
  BY <1>4, <1>5 DEF RequestOK
<1> QED  BY <1>1, <1>6, StepKept DEF Outcomes

\* What Collect and Restart leave alone.
LEMMA CollectFields ==
  ASSUME NEW r \in RequestRecord, NEW page \in SUBSET (Deals \cup StopOrders),
         Cardinality(page) \in Nat
  PROVE  /\ Collect(r, page) \in RequestRecord
         /\ Collect(r, page).kind = r.kind /\ Collect(r, page).position = r.position
         /\ Collect(r, page).from = r.from /\ Collect(r, page).to = r.to
         /\ Collect(r, page).began = r.began /\ Collect(r, page).page = r.page + 1
         /\ Collect(r, page).collected = r.collected \cup page
<1>1. PICK collected, n, read :
        collected = r.collected \cup page /\ n = r.page + 1 /\ read = r.read + Cardinality(page)
  OBVIOUS
<1>2. collected \in SUBSET (Deals \cup StopOrders) /\ n \in Nat \ {0} /\ read \in Nat
  BY <1>1 DEF RequestRecord
<1>3. Collect(r, page) = [r EXCEPT !.collected = collected, !.page = n, !.read = read]
  BY <1>1 DEF Collect
<1>4. Collect(r, page) \in RequestRecord
  BY <1>2, <1>3 DEF RequestRecord
<1> QED  BY <1>1, <1>3, <1>4 DEF RequestRecord

LEMMA RestartFields ==
  ASSUME NEW r \in RequestRecord
  PROVE  /\ Restart(r) \in RequestRecord
         /\ Restart(r).kind = r.kind /\ Restart(r).position = r.position
         /\ Restart(r).from = r.from /\ Restart(r).to = r.to /\ Restart(r).began = r.began
         /\ Restart(r).page = 1 /\ Restart(r).collected = {}
<1>1. PICK collected, n, read, attempt :
        collected = {} /\ n = 1 /\ read = 0 /\ attempt = r.attempt + 1
  OBVIOUS
<1>2. /\ collected \in SUBSET (Deals \cup StopOrders) /\ n \in Nat \ {0} /\ read \in Nat
      /\ attempt \in Nat
  BY <1>1 DEF RequestRecord
<1>3. Restart(r) =
        [r EXCEPT !.page = n, !.collected = collected, !.read = read, !.attempt = attempt]
  BY <1>1 DEF Restart
<1>4. Restart(r) \in RequestRecord
  BY <1>2, <1>3 DEF RequestRecord
<1> QED  BY <1>1, <1>3, <1>4 DEF RequestRecord

\* A page takes the request on: what it holds is collected, and the rest is behind it.
LEMMA PageTurned ==
  ASSUME IInv, NEW r, Sound(r), NothingPassed(r),
         NEW page, page = Page(Items(r), r.from, r.to, r.page),
         NEW next, next = Collect(r, page)
  PROVE  /\ Sound(next) /\ NothingPassed(next) /\ next.kind = r.kind
         /\ LastPage(page) => Old(next) \subseteq next.collected
<1>1. PICK items, from, to, n, listed :
        /\ items = Items(r) /\ from = r.from /\ to = r.to /\ n = r.page
        /\ listed = Listed(items, from, to)
  OBVIOUS
<1>2. items \in {Deals, StopOrders} /\ n \in Nat \ {0} /\ newestFirst \in BOOLEAN
  BY <1>1 DEF Items, Sound, IInv, RequestRecord
<1>3. /\ page = Page(items, from, to, n) /\ page \subseteq listed
      /\ page \subseteq Deals \cup StopOrders /\ Cardinality(page) \in Nat
  <2>1. page = Page(items, from, to, n) /\ page \subseteq listed
    BY <1>1, PageListed
  <2>2. page \in SUBSET items /\ IsFiniteSet(items)
    BY <1>1, <1>2, <2>1, ListedAssumption DEF Listed
  <2>3. Cardinality(page) \in Nat
    BY <2>2, FS_Subset, FS_CardinalityType
  <2> QED  BY <1>2, <2>1, <2>2, <2>3
<1>4. /\ next \in RequestRecord /\ next.kind = r.kind /\ next.position = r.position
      /\ next.from = from /\ next.to = to /\ next.began = r.began
      /\ next.page = n + 1 /\ next.collected = r.collected \cup page
  <2>1. r \in RequestRecord
    BY DEF Sound
  <2> QED  BY <1>1, <1>3, <2>1, CollectFields
<1>5. Items(next) = items /\ InRange(next) = InRange(r) /\ Old(next) = Old(r)
  BY <1>1, <1>4 DEF Items, InRange, Old
<1>6. page \subseteq InRange(r)
  BY <1>1, <1>3 DEF Listed, InRange
<1>7. Sound(next)
  BY <1>1, <1>2, <1>4, <1>5, <1>6 DEF Sound
<1>8. Old(r) \subseteq listed
  <2>1. \A i \in items : i.at \in Int
    BY <1>2, ListedAssumption
  <2> QED  BY <1>1, <2>1 DEF Old, Listed, Sound, RequestRecord, IInv
<1>9. ASSUME NEW i \in Old(r), i \notin next.collected
      PROVE  Cardinality(Ahead(i, listed)) >= PageSize * n
  <2>1. i \in listed /\ i \notin page /\ i \notin r.collected
    BY <1>4, <1>8, <1>9
  <2>2. Cardinality(Ahead(i, listed)) >= PageSize * (n - 1)
    BY <1>1, <1>9, <2>1 DEF NothingPassed, Behind
  <2> QED  BY <1>1, <1>2, <1>3, <2>1, <2>2, NextPage
<1>10. NothingPassed(next)
  <2>1. SUFFICES ASSUME NEW i \in Old(r), i \notin next.collected PROVE Behind(i, next)
    BY <1>5 DEF NothingPassed
  <2>2. next.page - 1 = n
    BY <1>2, <1>4
  <2>3. Cardinality(Ahead(i, listed)) >= PageSize * n
    BY <1>9, <2>1
  <2> QED  BY <1>1, <1>4, <1>5, <2>2, <2>3 DEF Behind
<1>11. ASSUME LastPage(page), NEW i \in Old(r), i \notin next.collected PROVE FALSE
  <2>1. i \in listed
    BY <1>8, <1>11
  <2>2. ~ (Cardinality(Ahead(i, listed)) >= PageSize * n)
    BY <1>1, <1>2, <1>3, <1>11, <2>1, NothingBehindLast
  <2> QED  BY <1>9, <1>11, <2>2
<1> QED  BY <1>4, <1>5, <1>7, <1>10, <1>11

LEMMA ReadPageKept ==
  ASSUME IInv, NEW s \in Requests, ReadPage(s)
  PROVE  IInv'
<1>1. PICK r, page : r = request[s] /\ page = Page(Items(r), r.from, r.to, r.page)
  OBVIOUS
<1>2. PICK next, at :
        /\ next = Collect(r, page)
        /\ at = IF ~LastPage(page) THEN "read" ELSE IF r.kind = "deals" THEN "store" ELSE "choose"
  OBVIOUS
<1>3. /\ pc[s] = "read" /\ UNCHANGED <<clock, newestFirst, table>>
      /\ request' = [request EXCEPT ![s] = next] /\ pc' = [pc EXCEPT ![s] = at]
  BY <1>1, <1>2 DEF ReadPage, IInv
<1>4. Sound(r) /\ NothingPassed(r)
  BY <1>1, <1>3 DEF IInv, RequestOK
<1>5. /\ Sound(next) /\ NothingPassed(next) /\ next.kind = r.kind
      /\ LastPage(page) => Old(next) \subseteq next.collected
  BY <1>1, <1>2, <1>4, PageTurned
<1>6. r.kind \in {"deals", "stops"}
  BY <1>4 DEF Sound
<1>7. RequestOK(next, at) /\ at \in Outcomes /\ at # "imported"
  BY <1>2, <1>5, <1>6 DEF RequestOK, Outcomes
<1> QED  BY <1>3, <1>7, StepKept

LEMMA ReadFailsKept ==
  ASSUME IInv, NEW s \in Requests, ReadFails(s)
  PROVE  IInv'
<1>1. PICK r, again : r = request[s] /\ again = Restart(r)
  OBVIOUS
<1>2. pc[s] = "read" /\ UNCHANGED <<clock, newestFirst, table>>
  BY DEF ReadFails
<1>3. Sound(r) /\ NothingPassed(r)
  BY <1>1, <1>2 DEF IInv, RequestOK
<1>4. CASE /\ r.kind = "deals"
           /\ request' = [request EXCEPT ![s] = again] /\ pc' = [pc EXCEPT ![s] = "pause"]
  <2>1. /\ again \in RequestRecord /\ again.kind = "deals" /\ again.position = r.position
        /\ again.from = r.from /\ again.to = r.to /\ again.began = r.began
        /\ again.page = 1 /\ again.collected = {}
    <3>1. r \in RequestRecord
      BY <1>3 DEF Sound
    <3> QED  BY <1>1, <1>4, <3>1, RestartFields
  <2>2. Sound(again)
    BY <1>3, <1>4, <2>1 DEF Sound
  <2>3. NothingPassed(again)
    BY <2>1, FreshPasses DEF IInv
  <2>4. RequestOK(again, "pause")
    BY <2>1, <2>2, <2>3 DEF RequestOK
  <2> QED  BY <1>2, <1>4, <2>4, StepKept DEF Outcomes
<1>5. CASE pc' = [pc EXCEPT ![s] = "upstream"] /\ request' = request
  <2>1. request' = [request EXCEPT ![s] = r]
    <3>1. request = [q \in DOMAIN request |-> request[q]]
      BY DEF IInv
    <3> QED  BY <1>1, <1>5, <3>1, Unchanged
  <2>2. RequestOK(r, "upstream")
    BY <1>3 DEF RequestOK
  <2> QED  BY <1>2, <1>5, <2>1, <2>2, StepKept DEF Outcomes
<1> QED  BY <1>1, <1>4, <1>5 DEF ReadFails

LEMMA ResumeKept ==
  ASSUME IInv, NEW s \in Requests, Resume(s)
  PROVE  IInv'
<1>1. PICK r : r = request[s]
  OBVIOUS
<1>2. /\ pc[s] = "pause" /\ pc' = [pc EXCEPT ![s] = "read"]
      /\ UNCHANGED <<clock, newestFirst, table, request>>
  BY DEF Resume
<1>3. request' = [request EXCEPT ![s] = r]
  <2>1. request = [q \in DOMAIN request |-> request[q]]
    BY DEF IInv
  <2> QED  BY <1>1, <1>2, <2>1, Unchanged
<1>4. RequestOK(r, "read")
  BY <1>1, <1>2 DEF IInv, RequestOK
<1> QED  BY <1>2, <1>3, <1>4, StepKept DEF Outcomes

\* A request that has stored is one more that accounts for the table.
LEMMA OneMoreDone ==
  ASSUME IInv, NEW s \in Requests, pc[s] = "store", pc' = [pc EXCEPT ![s] = "imported"],
         NEW r, request' = [request EXCEPT ![s] = r],
         NEW new \in SUBSET Deals, new \cap table = {}, table' = table \cup new,
         r.imported = Cardinality(new)
  PROVE  Cardinality(table') = SumFunctionOnSet(ImportedBy', Done')
<1>1. PICK before, after, done, more :
        before = ImportedBy /\ after = ImportedBy' /\ done = Done /\ more = done \cup {s}
  OBVIOUS
<1>2. Done' = more /\ s \notin done /\ done \subseteq Requests
  BY <1>1 DEF Done, IInv
<1>3. /\ after = [q \in more |-> request'[q].imported]
      /\ before = [q \in done |-> request[q].imported]
  BY <1>1, <1>2 DEF ImportedBy
<1>4. /\ \A q \in done : before[q] \in Nat /\ after[q] = before[q]
      /\ after[s] = Cardinality(new)
  <2>1. \A q \in done : pc[q] = "imported" /\ q # s /\ q \in Requests
    BY <1>1, <1>2 DEF Done
  <2>2. \A q \in done : Sound(request[q])
    BY <2>1 DEF IInv, RequestOK
  <2>3. \A q \in done : request[q].imported \in Nat
    BY <2>2 DEF Sound, RequestRecord
  <2>4. \A q \in done : request'[q] = request[q]
    BY <2>1 DEF IInv
  <2>5. request'[s] = r
    BY DEF IInv
  <2> QED  BY <1>1, <1>3, <2>3, <2>4, <2>5
<1>5. IsFiniteSet(done)
  BY <1>2, ListedAssumption, FS_Subset
<1>6. IsFiniteSet(new) /\ IsFiniteSet(table) /\ Cardinality(new) \in Nat
  <2>1. table \in SUBSET Deals /\ IsFiniteSet(Deals)
    BY ListedAssumption DEF IInv
  <2> QED  BY <2>1, FS_Subset, FS_CardinalityType
<1>7. Cardinality(table \cup new) = Cardinality(table) + Cardinality(new)
  BY <1>6, DisjointCount
<1>8. SumFunctionOnSet(after, more) = SumFunctionOnSet(after, done) + after[s]
  <2>1. \A q \in done \cup {s} : after[q] \in Int
    BY <1>4, <1>6
  <2> QED  BY <1>1, <1>2, <1>5, <2>1, SumAddOne
<1>9. SumFunctionOnSet(before, done) = SumFunctionOnSet(after, done)
  BY <1>4, <1>5, SumSame
<1>10. Cardinality(table) = SumFunctionOnSet(before, done)
  BY <1>1 DEF IInv
<1> QED  BY <1>1, <1>2, <1>4, <1>7, <1>8, <1>9, <1>10

LEMMA StoreKept ==
  ASSUME IInv, NEW s \in Requests, Store(s)
  PROVE  IInv'
<1>1. PICK r, new : r = request[s] /\ new = r.collected \ table
  OBVIOUS
<1>2. pc[s] = "store" /\ UNCHANGED <<clock, newestFirst>>
  BY DEF Store
<1>3. /\ Sound(r) /\ r.kind = "deals" /\ Old(r) \subseteq r.collected /\ r \in RequestRecord
  BY <1>1, <1>2 DEF IInv, RequestOK, Sound
<1>4. r.collected \subseteq Deals
  BY <1>3 DEF Sound, InRange, Items
<1>5. CASE /\ table' = table \cup new
           /\ request' = [request EXCEPT ![s].imported = Cardinality(new),
                                         ![s].skipped = r.read - Cardinality(new)]
           /\ pc' = [pc EXCEPT ![s] = "imported"]
  <2>1. PICK count, rest : count = Cardinality(new) /\ rest = r.read - Cardinality(new)
    OBVIOUS
  <2>2. count \in Nat /\ rest \in Int
    <3>1. new \in SUBSET Deals /\ IsFiniteSet(Deals)
      BY <1>1, <1>4, ListedAssumption
    <3>2. count \in Nat
      BY <2>1, <3>1, FS_Subset, FS_CardinalityType
    <3>3. r.read \in Nat
      BY <1>3 DEF RequestRecord
    <3> QED  BY <2>1, <3>2, <3>3
  <2>3. PICK next : next = [r EXCEPT !.imported = count, !.skipped = rest]
    OBVIOUS
  <2>4. /\ next \in RequestRecord /\ next.kind = r.kind /\ next.position = r.position
        /\ next.from = r.from /\ next.to = r.to /\ next.began = r.began
        /\ next.page = r.page /\ next.collected = r.collected /\ next.imported = count
    <3>1. next \in RequestRecord
      BY <1>3, <2>2, <2>3 DEF RequestRecord
    <3> QED  BY <1>3, <2>3, <3>1 DEF RequestRecord
  <2>5. request' = [request EXCEPT ![s] = next]
    BY <1>1, <1>3, <1>5, <2>1, <2>3 DEF RequestRecord, IInv
  <2>6. Sound(next)
    BY <1>3, <2>4 DEF Sound, InRange, Items
  <2>7. Old(next) \subseteq table'
    BY <1>1, <1>3, <1>5, <2>4 DEF Old, Items
  <2>8. GoesOn
    BY <1>2, <1>5 DEF GoesOn, IInv
  <2>9. RequestOK(next, "imported")'
    <3>1. Sound(next)'
      BY <2>6, <2>8, SoundStays
    <3> QED  BY <1>3, <2>4, <2>7, <3>1 DEF RequestOK
  <2>10. /\ pc' \in [Requests -> Outcomes] /\ request' = [q \in Requests |-> request'[q]]
         /\ \A q \in Requests : RequestOK(request[q], pc[q])'
    <3>1. "imported" \in Outcomes
      BY DEF Outcomes
    <3> QED  BY <1>5, <2>5, <2>8, <2>9, <3>1, RequestsStay
  <2>11. Cardinality(table') = SumFunctionOnSet(ImportedBy', Done')
    <3>1. new \in SUBSET Deals /\ new \cap table = {} /\ next.imported = Cardinality(new)
      BY <1>1, <1>4, <2>1, <2>4
    <3> QED  BY <1>2, <1>5, <2>5, <3>1, OneMoreDone
  <2> QED  BY <1>1, <1>2, <1>4, <1>5, <2>10, <2>11 DEF IInv
<1>6. CASE pc' = [pc EXCEPT ![s] = "lost"] /\ UNCHANGED <<table, request>>
  <2>1. request' = [request EXCEPT ![s] = r]
    <3>1. request = [q \in DOMAIN request |-> request[q]]
      BY DEF IInv
    <3> QED  BY <1>1, <1>6, <3>1, Unchanged
  <2>2. RequestOK(r, "lost")
    BY <1>3 DEF RequestOK
  <2> QED  BY <1>2, <1>6, <2>1, <2>2, StepKept DEF Outcomes
<1> QED  BY <1>1, <1>5, <1>6 DEF Store

LEMMA TickKept ==
  ASSUME IInv, Tick
  PROVE  IInv'
<1>1. GoesOn
  BY TimeAssumption DEF Tick, GoesOn, IInv
<1>2. ASSUME NEW q \in Requests PROVE RequestOK(request[q], pc[q])'
  <2>1. PICK r, at : r = request[q] /\ at = pc[q]
    OBVIOUS
  <2>2. RequestOK(r, at)'
    BY <1>1, <2>1, RequestStays DEF IInv
  <2> QED  BY <2>1, <2>2 DEF Tick
<1>3. ImportedBy' = ImportedBy /\ Done' = Done
  BY DEF ImportedBy, Done, Tick
<1> QED  BY <1>1, <1>2, <1>3, TimeAssumption DEF IInv, Tick, GoesOn

-----------------------------------------------------------------------------
(* The stop order.                                                         *)

\* The rank orders the candidates: one of them has none before it.
LEMMA FirstExists ==
  ASSUME NEW candidates \in SUBSET StopOrders, candidates # {}, NEW p
  PROVE  \E o \in candidates : \A other \in candidates : ~Before(other, o, p)
<1>1. PICK linked, best :
        /\ linked = {o \in candidates : Linked(o, p)}
        /\ best = IF linked # {} THEN linked ELSE candidates
  OBVIOUS
<1>2. best # {} /\ best \subseteq candidates
  BY <1>1
<1>3. \A o \in best, other \in candidates :
        /\ ~ (Linked(other, p) /\ ~Linked(o, p))
        /\ (Linked(o, p) <=> Linked(other, p)) => other \in best
  BY <1>1
<1>4. \A o \in StopOrders : Created(o) \in Nat /\ o.id \in Nat
  BY ListedAssumption, TimeAssumption, OrdersAssumption DEF Created
<1>5. PICK t \in {Created(o) : o \in best} : \A u \in {Created(o) : o \in best} : t <= u
  <2>1. {Created(o) : o \in best} \subseteq Nat /\ {Created(o) : o \in best} # {}
    BY <1>2, <1>4
  <2> QED  BY <2>1, LeastNatural
<1>6. PICK early : early = {o \in best : Created(o) = t} /\ early # {}
  BY <1>5
<1>7. PICK n \in {o.id : o \in early} : \A m \in {o.id : o \in early} : n <= m
  <2>1. {o.id : o \in early} \subseteq Nat /\ {o.id : o \in early} # {}
    BY <1>2, <1>4, <1>6
  <2> QED  BY <2>1, LeastNatural
<1>8. PICK first \in early : first.id = n
  BY <1>7
<1>9. first \in best /\ first \in candidates /\ Created(first) = t
  BY <1>2, <1>6
<1>10. ASSUME NEW other \in candidates, Before(other, first, p) PROVE FALSE
  <2>1. other \in best
    BY <1>3, <1>9, <1>10 DEF Before
  <2>2. Created(other) < t \/ (Created(other) = t /\ other.id < first.id)
    BY <1>3, <1>9, <1>10 DEF Before
  <2>3. t <= Created(other)
    BY <1>5, <2>1
  <2>4. Created(other) \in Nat /\ t \in Nat /\ other.id \in Nat /\ first.id \in Nat
    BY <1>4, <1>9
  <2>5. Created(other) = t /\ other.id < first.id
    BY <2>2, <2>3, <2>4
  <2>6. other \in early
    BY <1>6, <2>1, <2>5
  <2>7. first.id <= other.id
    BY <1>7, <1>8, <2>6
  <2> QED  BY <2>4, <2>5, <2>7
<1> QED  BY <1>9, <1>10

LEMMA ChooseKept ==
  ASSUME IInv, NEW s \in Requests, Choose(s)
  PROVE  IInv'
<1>1. PICK r, candidates : r = request[s] /\ candidates = Candidates(r)
  OBVIOUS
<1>2. PICK first, stop :
        /\ first = CHOOSE o \in candidates :
                     \A other \in candidates : ~Before(other, o, r.position)
        /\ stop = IF candidates = {} THEN None ELSE first
  OBVIOUS
<1>3. /\ pc[s] = "choose" /\ UNCHANGED <<clock, newestFirst, table>>
      /\ request' = [request EXCEPT ![s].stop = stop] /\ pc' = [pc EXCEPT ![s] = "found"]
  BY <1>1, <1>2 DEF Choose, Candidates
<1>4. /\ Sound(r) /\ r.kind = "stops" /\ Old(r) \subseteq r.collected /\ r \in RequestRecord
  BY <1>1, <1>3 DEF IInv, RequestOK, Sound
<1>5. candidates \in SUBSET StopOrders
  BY <1>1, <1>4 DEF Candidates, Sound, InRange, Items
<1>6. candidates # {} =>
        first \in candidates /\ \A other \in candidates : ~Before(other, first, r.position)
  BY <1>2, <1>5, FirstExists
<1>7. stop \in StopOrders \cup {None}
  BY <1>2, <1>5, <1>6
<1>8. PICK next : next = [r EXCEPT !.stop = stop]
  OBVIOUS
<1>9. /\ next \in RequestRecord /\ next.kind = r.kind /\ next.position = r.position
      /\ next.from = r.from /\ next.to = r.to /\ next.began = r.began
      /\ next.page = r.page /\ next.collected = r.collected /\ next.stop = stop
  <2>1. next \in RequestRecord
    BY <1>4, <1>7, <1>8 DEF RequestRecord
  <2> QED  BY <1>4, <1>8, <2>1 DEF RequestRecord
<1>10. Sound(next) /\ Old(next) \subseteq next.collected
  BY <1>4, <1>9 DEF Sound, InRange, Items, Old
<1>11. Chosen(next)
  <2>1. Candidates(next) = candidates
    BY <1>1, <1>9 DEF Candidates
  <2> QED  BY <1>2, <1>6, <1>9, <2>1 DEF Chosen, IsFirst
<1>12. RequestOK(next, "found")
  BY <1>4, <1>9, <1>10, <1>11 DEF RequestOK
<1>13. request' = [request EXCEPT ![s] = next]
  BY <1>1, <1>3, <1>8 DEF IInv
<1> QED  BY <1>3, <1>12, <1>13, StepKept DEF Outcomes

-----------------------------------------------------------------------------
(* The theorems.                                                           *)

LEMMA InitInv == Init => IInv
<1>1. SUFFICES ASSUME Init PROVE IInv
  OBVIOUS
<1>2. Done = {} /\ table = {}
  BY <1>1 DEF Init, Done
<1>3. Cardinality(table) = SumFunctionOnSet(ImportedBy, Done)
  BY <1>2, FS_EmptySet, SumEmpty
<1> QED  BY <1>1, <1>3, TimeAssumption DEF Init, IInv, RequestOK, Outcomes

LEMMA InductiveStep == IInv /\ [Next]_vars => IInv'
<1>1. SUFFICES ASSUME IInv, [Next]_vars PROVE IInv'
  OBVIOUS
<1>2. CASE Tick
  BY <1>1, <1>2, TickKept
<1>3. ASSUME NEW s \in Requests,
             BeginImport(s) \/ BeginLookup(s) \/ ReadPage(s) \/ ReadFails(s) \/ Resume(s)
               \/ Store(s) \/ Choose(s)
      PROVE  IInv'
  BY <1>1, <1>3, BeginImportKept, BeginLookupKept, ReadPageKept, ReadFailsKept, ResumeKept,
     StoreKept, ChooseKept
<1>4. CASE UNCHANGED vars
  <2>1. ImportedBy' = ImportedBy /\ Done' = Done
    BY <1>4 DEF ImportedBy, Done, vars
  <2>2. ASSUME NEW q \in Requests PROVE RequestOK(request[q], pc[q])'
    <3>1. PICK r, at : r = request[q] /\ at = pc[q]
      OBVIOUS
    <3>2. GoesOn
      BY <1>1, <1>4 DEF GoesOn, IInv, vars
    <3>3. RequestOK(r, at)'
      BY <1>1, <3>1, <3>2, RequestStays DEF IInv
    <3> QED  BY <1>4, <3>1, <3>3 DEF vars
  <2> QED  BY <1>1, <1>4, <2>1, <2>2 DEF IInv, vars
<1> QED  BY <1>1, <1>2, <1>3, <1>4 DEF Next

LEMMA Invariance == Spec => []IInv
BY InitInv, InductiveStep, PTL DEF Spec

\* Every deal of the range that was listed when an import began is stored when it succeeds,
\* and each stored deal was imported by just one request (import_order_deals), however many
\* deals and requests there are, whatever the size of a page and the order of the listing.
THEOREM ImportsComplete == Spec => []ImportComplete
<1>1. IInv => ImportComplete
  <2>1. SUFFICES ASSUME IInv PROVE ImportComplete
    OBVIOUS
  <2>2. ASSUME NEW s \in Done, NEW d \in Deals,
               request[s].from <= d.at, d.at <= request[s].began
        PROVE  d \in table
    <3>1. s \in Requests /\ pc[s] = "imported"
      BY DEF Done
    <3>2. PICK r : r = request[s]
      OBVIOUS
    <3>3. Sound(r) /\ r.kind = "deals" /\ Old(r) \subseteq table
      BY <2>1, <3>1, <3>2 DEF IInv, RequestOK
    <3>4. r.to = MaxTime /\ r.began <= clock /\ r.began \in Int
      BY <3>3 DEF Sound, RequestRecord
    <3>5. d.at <= r.to
      <4>1. d.at \in Int
        BY ListedAssumption
      <4> QED  BY <2>1, <2>2, <3>2, <3>4, <4>1, TimeAssumption DEF IInv
    <3>6. d \in Old(r)
      BY <2>2, <3>2, <3>3, <3>5 DEF Old, Items
    <3> QED  BY <3>3, <3>6
  <2> QED  BY <2>1, <2>2 DEF ImportComplete, IInv, ImportedBy
<1> QED  BY <1>1, Invariance, PTL

\* The stop order a position is shown with is its own and the one it was opened with, as far
\* as MEXC tells, and none is shown only if none was listed (_find_opening_stop_loss_order).
THEOREM StopsAreTheOpeningOnes == Spec => []StopIsTheOpeningOne
<1>1. IInv => StopIsTheOpeningOne
  <2>1. SUFFICES ASSUME IInv, NEW s \in Requests, pc[s] = "found",
                        NEW r, r = request[s], NEW p, p = r.position, NEW stop, stop = r.stop,
                        NEW own, own = Own(r)
                 PROVE  \/ stop = None /\ own = {}
                        \/ /\ stop # None /\ IsOpeningStop(stop, p)
                           /\ \A o \in own : AsGood(stop, o, p)
    BY DEF StopIsTheOpeningOne
  <2>2. /\ Sound(r) /\ r.kind = "stops" /\ Old(r) \subseteq r.collected /\ Chosen(r)
        /\ Fits(p, r.from, r.to) /\ r.from \in Int /\ r.to \in Int
    BY <2>1 DEF IInv, RequestOK, Sound, RequestRecord
  <2>3. own \subseteq Candidates(r)
    <3>1. \A o \in own : Matches(o, p)
      BY <2>1, OrdersAssumption DEF Matches, Own
    <3>2. own \subseteq Old(r)
      BY <2>1, <2>2 DEF Old, Items, Own
    <3> QED  BY <2>1, <2>2, <3>1, <3>2 DEF Candidates
  <2>4. None \notin Candidates(r) /\ Candidates(r) \subseteq StopOrders
    BY <2>2, OrdersAssumption DEF Candidates, Sound, InRange, Items
  <2>5. CASE stop = None
    BY <2>1, <2>2, <2>3, <2>4, <2>5 DEF Chosen, IsFirst
  <2>6. CASE stop # None
    <3>1. /\ stop \in Candidates(r) /\ stop \in StopOrders /\ Matches(stop, p)
          /\ \A other \in Candidates(r) : ~Before(other, stop, p)
      BY <2>1, <2>2, <2>4, <2>6 DEF Chosen, IsFirst, Candidates
    <3>2. stop.type \in {None, p.type} /\ stop.price > 0 /\ stop.side # 1
      <4>1. p.type # None /\ None # 1
        BY <2>2, OrdersAssumption, TimeAssumption DEF Fits
      <4> QED  BY <3>1, <4>1 DEF Matches
    <3>3. r.from <= stop.at /\ stop.at <= r.to /\ stop.at \in Int
      BY <2>2, <3>1, ListedAssumption DEF Candidates, Sound, InRange
    <3>4. /\ p.opened - Lookback <= stop.at /\ stop.at <= p.opened + Lookahead
          /\ p.closed # None /\ p.closed > p.opened => stop.at <= p.closed
      BY <2>2, <3>3, OrdersAssumption, TimeAssumption DEF Fits
    <3> IsOpeningStop(stop, p)
      BY <3>2, <3>4 DEF IsOpeningStop
    <3>5. ASSUME NEW o \in own PROVE AsGood(stop, o, p)
      <4>1. ~Before(o, stop, p) /\ o \in StopOrders
        BY <2>1, <2>3, <3>1 DEF Own
      <4>2. None \notin o.orders /\ None \notin stop.orders
        BY <3>1, <4>1, OrdersAssumption
      <4>3. p.opening \in o.orders => p.opening \in stop.orders
        BY <4>1, <4>2 DEF Before, Linked
      <4>4. CASE p.opening \in stop.orders \ o.orders
        BY <4>3, <4>4 DEF AsGood
      <4>5. CASE o.created \in {None, 0}
        BY <4>3, <4>5 DEF AsGood
      <4>6. CASE p.opening \notin stop.orders \ o.orders /\ o.created \notin {None, 0}
        <5>1. Linked(o, p) <=> Linked(stop, p)
          BY <4>2, <4>3, <4>6 DEF Linked
        <5>2. ~ (Created(o) < Created(stop))
          BY <4>1, <5>1 DEF Before
        <5>3. Created(o) = o.created /\ o.created \in Nat /\ o.created < UnknownTime
          BY <4>1, <4>6, OrdersAssumption DEF Created
        <5>4. stop.created \notin {None, 0}
          BY <5>2, <5>3, TimeAssumption DEF Created
        <5>5. Created(stop) = stop.created /\ stop.created \in Nat
          BY <3>1, <5>4, OrdersAssumption DEF Created
        <5> QED  BY <4>3, <5>2, <5>3, <5>4, <5>5 DEF AsGood
      <4> QED  BY <4>4, <4>5, <4>6
    <3> QED  BY <2>6, <3>5
  <2> QED  BY <2>5, <2>6
<1> QED  BY <1>1, Invariance, PTL
=============================================================================
