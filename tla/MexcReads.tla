------------------------------ MODULE MexcReads ------------------------------
(***************************************************************************)
(* Reading the history of MEXC page by page: the import of order deals and   *)
(* the search for the stop order a position was opened with.  New deals and *)
(* orders are listed while pages are read, so that the pages shift.          *)
(***************************************************************************)
EXTENDS Integers, FiniteSets, Functions

CONSTANTS
  Requests,      \* the requests that may be made
  Deals,         \* what MEXC will have listed: records with their time "at"
  StopOrders,    \* the same of stop orders
  Positions,     \* records [opened, closed, type, opening]
  Froms,         \* starts of the imported range
  PageSize,      \* MAX_ORDER_DEALS_PAGE_SIZE, MAX_STOP_ORDERS_PAGE_SIZE
  MaxRetries,
  Lookback,      \* OPENING_STOP_LOOKBACK
  Lookahead,     \* OPENING_STOP_LOOKAHEAD
  MaxTime,       \* bound of the clock
  UnknownTime,   \* 9_999_999_999_999, later than any order
  None

ASSUME ReadsAssumption == PageSize \in Nat \ {0} /\ MaxRetries \in Nat \ {0}

\* The items of a listing differ in their ids.
ASSUME ListedAssumption ==
  /\ IsFiniteSet(Requests) /\ IsFiniteSet(Deals) /\ IsFiniteSet(StopOrders)
  /\ \A items \in {Deals, StopOrders} : \A a, b \in items :
       a.at \in Int /\ a.id \in Nat /\ (a.id = b.id => a = b)

ASSUME TimeAssumption ==
  /\ MaxTime \in Nat \ {0} /\ Froms \subseteq Int /\ UnknownTime \in Nat /\ None \notin Int
  /\ Lookback \in Nat /\ Lookahead \in Nat \ {0}

\* A side of MEXC is 1 for a take profit and 2 for a stop loss; a position has a direction.
ASSUME OrdersAssumption ==
  /\ None \notin StopOrders
  /\ \A o \in StopOrders :
       /\ o.price \in Int \cup {None} /\ o.side \in {None, 0, 1, 2} /\ None \notin o.orders
       /\ o.created = None \/ (o.created \in Nat /\ o.created < UnknownTime)
  /\ \A p \in Positions :
       p.opened \in Int /\ p.closed \in Int \cup {None} /\ p.type # None

VARIABLES
  clock,
  newestFirst,   \* the order in which MEXC lists, which no source states
  table,         \* the deals in raw_mexc_order_deals
  request,       \* what each request reads and what it returned
  pc             \* where it is, or how it ended

vars == <<clock, newestFirst, table, request, pc>>

Init ==
  /\ clock = 1
  /\ newestFirst \in BOOLEAN
  /\ table = {}
  /\ request = [s \in Requests |-> [kind |-> "none"]]
  /\ pc = [s \in Requests |-> "new"]

Tick ==
  /\ clock < MaxTime /\ clock' = clock + 1
  /\ UNCHANGED <<newestFirst, table, request, pc>>

-----------------------------------------------------------------------------
(* The exchange                                                            *)

\* A page holds the items listed at its places; ids break ties.
Older(a, b) == a.at < b.at \/ (a.at = b.at /\ a.id < b.id)
Listed(items, from, to) == {i \in items : i.at <= clock /\ from <= i.at /\ i.at <= to}
Ahead(i, listed) == {j \in listed : IF newestFirst THEN Older(i, j) ELSE Older(j, i)}
Page(items, from, to, number) ==
  LET listed == Listed(items, from, to)
      places == PageSize * (number - 1) .. PageSize * number - 1
  IN  {i \in listed : Cardinality(Ahead(i, listed)) \in places}

-----------------------------------------------------------------------------
(* The requests                                                            *)

Earlier(a, b) == IF a < b THEN a ELSE b

\* _opening_stop_order_window_ms; a position that is still open may run until now.
Window(p) ==
  LET latest == Earlier(p.opened + Lookahead, IF p.closed = None THEN clock ELSE p.closed)
  IN  [from |-> p.opened - Lookback, to |-> IF latest <= p.opened THEN p.opened + 1 ELSE latest]

Begun(kind, position, from, to) ==
  [kind |-> kind, position |-> position, from |-> from, to |-> to, began |-> clock, attempt |-> 1,
   page |-> 1, collected |-> {}, read |-> 0, imported |-> 0, skipped |-> 0, stop |-> None]

BeginImport(s) ==
  \E from \in Froms :
    /\ pc[s] = "new"
    /\ request' = [request EXCEPT ![s] = Begun("deals", None, from, MaxTime)]
    /\ pc' = [pc EXCEPT ![s] = "read"]
    /\ UNCHANGED <<clock, newestFirst, table>>

BeginLookup(s) ==
  \E p \in Positions :
    /\ pc[s] = "new" /\ p.opened <= clock /\ (p.closed # None => p.closed <= clock)
    /\ request' = [request EXCEPT ![s] = Begun("stops", p, Window(p).from, Window(p).to)]
    /\ pc' = [pc EXCEPT ![s] = "read"]
    /\ UNCHANGED <<clock, newestFirst, table>>

Items(r) == IF r.kind = "deals" THEN Deals ELSE StopOrders

\* iter_order_deals, iter_stop_orders: an empty or a short page is the last.
LastPage(page) == Cardinality(page) < PageSize

Collect(r, page) == [r EXCEPT !.collected = @ \cup page, !.page = @ + 1,
                              !.read = @ + Cardinality(page)]

ReadPage(s) ==
  LET r == request[s]
      page == Page(Items(r), r.from, r.to, r.page)
  IN
  /\ pc[s] = "read"
  /\ request' = [request EXCEPT ![s] = Collect(@, page)]
  /\ pc' = [pc EXCEPT ![s] = IF ~LastPage(page) THEN "read"
                             ELSE IF r.kind = "deals" THEN "store" ELSE "choose"]
  /\ UNCHANGED <<clock, newestFirst, table>>

\* _collect_order_deals_with_retry: a temporary failure begins again at the first page after
\* a pause, at most MaxRetries times in all.  The search for a stop order is not repeated.
\* Mutant: the next attempt goes on at the page that failed.
RestartHere(r) == [r EXCEPT !.collected = {}, !.read = 0, !.attempt = @ + 1]
Restart(r) == [r EXCEPT !.page = 1, !.collected = {}, !.read = 0, !.attempt = @ + 1]

ReadFails(s) ==
  LET again == request[s].kind = "deals" /\ request[s].attempt < MaxRetries
  IN
  /\ pc[s] = "read"
  /\ \/ /\ again
        /\ request' = [request EXCEPT ![s] = Restart(@)]
        /\ pc' = [pc EXCEPT ![s] = "pause"]
     \/ /\ pc' = [pc EXCEPT ![s] = "upstream"]
        /\ UNCHANGED request
  /\ UNCHANGED <<clock, newestFirst, table>>

Resume(s) ==
  /\ pc[s] = "pause"
  /\ pc' = [pc EXCEPT ![s] = "read"]
  /\ UNCHANGED <<clock, newestFirst, table, request>>

\* import_order_deals: one transaction without an await.  A failure leaves the table alone.
Store(s) ==
  LET r == request[s]
      new == r.collected \ table
  IN
  /\ pc[s] = "store"
  /\ \/ /\ table' = table \cup new
        /\ request' = [request EXCEPT ![s].imported = Cardinality(new),
                                         ![s].skipped = r.read - Cardinality(new)]
        /\ pc' = [pc EXCEPT ![s] = "imported"]
     \/ /\ pc' = [pc EXCEPT ![s] = "lost"]
        /\ UNCHANGED <<table, request>>
  /\ UNCHANGED <<clock, newestFirst>>

-----------------------------------------------------------------------------
(* The stop order of a position                                            *)

\* _is_matching_stop_loss_order
Matches(o, p) ==
  /\ o.price # None /\ o.price > 0
  /\ p.type # None /\ o.type # None => o.type = p.type
  /\ o.side \in {None, 0, 2}

\* _stop_order_rank, ids ordered as they are compared.  A time of zero counts as unknown.
\* Mutant: an order of unknown time comes first.
CreatedFirst(o) == IF o.created = None THEN 0 ELSE o.created
Created(o) == IF o.created \in {None, 0} THEN UnknownTime ELSE o.created
Linked(o, p) == p.opening # None /\ p.opening \in o.orders
Before(a, b, p) ==
  \/ Linked(a, p) /\ ~Linked(b, p)
  \/ /\ Linked(a, p) <=> Linked(b, p)
     /\ \/ Created(a) < Created(b)
        \/ Created(a) = Created(b) /\ a.id < b.id

\* _find_opening_stop_loss_order
Choose(s) ==
  LET r == request[s]
      candidates == {o \in r.collected : Matches(o, r.position)}
      stop == CHOOSE o \in candidates : \A other \in candidates : ~Before(other, o, r.position)
  IN
  /\ pc[s] = "choose"
  /\ request' = [request EXCEPT ![s].stop = IF candidates = {} THEN None ELSE stop]
  /\ pc' = [pc EXCEPT ![s] = "found"]
  /\ UNCHANGED <<clock, newestFirst, table>>

Next ==
  \/ Tick
  \/ \E s \in Requests : \/ BeginImport(s) \/ BeginLookup(s) \/ ReadPage(s) \/ ReadFails(s)
                         \/ Resume(s) \/ Store(s) \/ Choose(s)

Spec == Init /\ [][Next]_vars

-----------------------------------------------------------------------------
(* Properties                                                              *)

\* The requests whose import succeeded.
Done == {s \in Requests : pc[s] = "imported"}

\* An import that succeeds has stored every deal of its range that was listed when it began,
\* in whichever order MEXC lists, however pages shift and attempts fail in between, and all
\* it read is accounted for: each stored deal was imported by just one request, the others
\* skipped it (import_order_deals).
ImportComplete ==
  /\ \A s \in Done : {d \in Deals : request[s].from <= d.at /\ d.at <= request[s].began} \subseteq table
  /\ Cardinality(table) = SumFunctionOnSet([s \in Done |-> request[s].imported], Done)

\* The orders listed at the start that can be the stop of the position.
Own(r) ==
  {o \in StopOrders : /\ o.at <= r.began /\ r.from <= o.at /\ o.at <= r.to
                      /\ o.price # None /\ o.price > 0 /\ o.side # 1
                      /\ o.type = None \/ o.type = r.position.type}
IsOpeningStop(stop, p) ==
  /\ stop.type \in {None, p.type} /\ stop.price > 0 /\ stop.side # 1
  /\ p.opened - Lookback <= stop.at /\ stop.at <= p.opened + Lookahead
  /\ p.closed # None /\ p.closed > p.opened => stop.at <= p.closed
AsGood(stop, o, p) ==
  /\ p.opening \in o.orders => p.opening \in stop.orders
  /\ p.opening \in stop.orders \ o.orders \/ o.created \in {None, 0}
       \/ (stop.created \notin {None, 0} /\ stop.created <= o.created)

\* The stop a position is shown with is one of its own: on its side of the market, placed
\* near its opening and before its end, with the opening order rather than later, and as
\* early as any whose time is known.  Without one, no order listed at the start matched.
StopIsTheOpeningOne ==
  \A s \in Requests : pc[s] = "found" =>
    LET r == request[s]
    IN  \/ r.stop = None /\ Own(r) = {}
        \/ /\ r.stop # None /\ IsOpeningStop(r.stop, r.position)
           /\ \A o \in Own(r) : AsGood(r.stop, o, r.position)
=============================================================================
