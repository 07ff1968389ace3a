---------------------------- MODULE LedgerProofs ----------------------------
(***************************************************************************)
(* Proofs about Ledger, LedgerReference and Dashboard, for any set of deals. *)
(***************************************************************************)
EXTENDS Dashboard, SetLemmas, SequenceTheorems, TLAPS

\* The two directions have sides of their own.
LEMMA SideFacts ==
  /\ \A d \in Direction : EntrySide(d) # ExitSide(d)
  /\ \A d, e \in Direction :
       d # e => {EntrySide(d), ExitSide(d)} \cap {EntrySide(e), ExitSide(e)} = {}
  /\ \A d \in Direction : EntrySide(d) \in Sides /\ ExitSide(d) \in Sides
BY DEF Direction, EntrySide, ExitSide, Sides, MEXC_SIDE_OPEN_LONG, MEXC_SIDE_CLOSE_SHORT,
       MEXC_SIDE_OPEN_SHORT, MEXC_SIDE_CLOSE_LONG

\* A new ledger holds the one deal.
LEMMA NewLedgerType ==
  ASSUME NEW deal \in Deals, NEW n \in Nat, deal.vol > 0
  PROVE  NewLedger(deal, n) \in LedgerRecord
BY DealsAssumption DEF NewLedger, LedgerRecord, Abs

\* What the fields of a deal are.
LEMMA DealTypes ==
  ASSUME NEW deal \in Deals
  PROVE  /\ deal.side \in Int /\ deal.vol \in Int /\ deal.price \in Int
         /\ deal.profit \in Int /\ deal.time \in Nat
         /\ Abs(deal.fee) \in Nat
BY DealsAssumption DEF Abs

\* An entry adds to a ledger.
LEMMA AddEntryType ==
  ASSUME NEW deal \in Deals, NEW n \in Nat, deal.vol > 0, NEW l \in LedgerRecord
  PROVE  /\ AddEntry(l, deal, n) \in LedgerRecord
         /\ AddEntry(l, deal, n).open = l.open + deal.vol
         /\ AddEntry(l, deal, n).total = l.total + deal.vol
         /\ AddEntry(l, deal, n).closed = l.closed
         /\ AddEntry(l, deal, n).opened = l.opened
         /\ AddEntry(l, deal, n).links = l.links \cup {n}
<1> DEFINE total == l.total + deal.vol
           open == l.open + deal.vol
           cost == l.cost + deal.price * deal.vol
           fees == l.fees + Abs(deal.fee)
           links == l.links \cup {n}
<1>1. /\ l.total \in Nat /\ l.open \in Nat /\ l.cost \in Int /\ l.fees \in Nat
      /\ l.links \in SUBSET Nat
  BY DEF LedgerRecord
<1>2. deal.vol \in Nat /\ deal.price * deal.vol \in Int /\ Abs(deal.fee) \in Nat
  BY DealTypes
<1>3. /\ total \in Nat /\ open \in Nat /\ cost \in Int /\ fees \in Nat
      /\ links \in SUBSET Nat
  BY <1>1, <1>2
<1>4. AddEntry(l, deal, n) =
        [l EXCEPT !.total = total, !.open = open, !.cost = cost, !.fees = fees,
                  !.links = links]
  BY DEF AddEntry
<1> HIDE DEF total, open, cost, fees, links
<1>5. [l EXCEPT !.total = total, !.open = open, !.cost = cost, !.fees = fees,
                !.links = links] \in LedgerRecord
  BY <1>3 DEF LedgerRecord
<1>6. /\ AddEntry(l, deal, n).open = open
      /\ AddEntry(l, deal, n).total = total
      /\ AddEntry(l, deal, n).closed = l.closed
      /\ AddEntry(l, deal, n).opened = l.opened
      /\ AddEntry(l, deal, n).links = links
  BY <1>4 DEF LedgerRecord
<1> QED  BY <1>4, <1>5, <1>6 DEF total, open, links

\* An exit takes from the open volume what it can.
LEMMA AddExitType ==
  ASSUME NEW deal \in Deals, NEW n \in Nat, deal.vol > 0, NEW l \in LedgerRecord
  PROVE  /\ Applied(l, deal) \in Nat
         /\ Applied(l, deal) = IF deal.vol < l.open THEN deal.vol ELSE l.open
         /\ AddExit(l, deal, n) \in LedgerRecord
         /\ AddExit(l, deal, n).open = l.open - Applied(l, deal)
         /\ AddExit(l, deal, n).total = l.total
         /\ AddExit(l, deal, n).closed = l.closed + Applied(l, deal)
         /\ AddExit(l, deal, n).opened = l.opened
         /\ AddExit(l, deal, n).links = l.links \cup {n}
<1> DEFINE applied == Applied(l, deal)
           closed == l.closed + applied
           open == IF l.open < applied THEN 0 ELSE l.open - applied
           exitCost == l.exitCost + deal.price * applied
           fees == l.fees + Abs(deal.fee)
           pnl == l.pnl + deal.profit
           links == l.links \cup {n}
<1>1. /\ l.open \in Nat /\ l.closed \in Nat /\ l.exitCost \in Int /\ l.fees \in Nat
      /\ l.pnl \in Int /\ l.links \in SUBSET Nat
  BY DEF LedgerRecord
<1>2. /\ applied \in Nat /\ applied <= l.open
      /\ applied = IF deal.vol < l.open THEN deal.vol ELSE l.open
  BY <1>1, DealTypes DEF Applied
<1>3. AddExit(l, deal, n) =
        [l EXCEPT !.closed = closed, !.open = open, !.exitCost = exitCost,
                  !.fees = fees, !.pnl = pnl, !.links = links]
  BY DEF AddExit
<1> HIDE DEF applied
<1>4. deal.price * applied \in Int /\ Abs(deal.fee) \in Nat /\ deal.profit \in Int
  BY <1>2, DealTypes
<1>5. /\ closed \in Nat /\ open \in Nat /\ exitCost \in Int /\ fees \in Nat
      /\ pnl \in Int /\ links \in SUBSET Nat
  BY <1>1, <1>2, <1>4
<1>6. open = l.open - applied
  BY <1>1, <1>2
<1> HIDE DEF closed, open, exitCost, fees, pnl, links
<1>7. [l EXCEPT !.closed = closed, !.open = open, !.exitCost = exitCost,
                !.fees = fees, !.pnl = pnl, !.links = links] \in LedgerRecord
  BY <1>5 DEF LedgerRecord
<1>8. /\ AddExit(l, deal, n).open = open
      /\ AddExit(l, deal, n).total = l.total
      /\ AddExit(l, deal, n).closed = closed
      /\ AddExit(l, deal, n).opened = l.opened
      /\ AddExit(l, deal, n).links = links
  BY <1>3 DEF LedgerRecord
<1> QED  BY <1>2, <1>3, <1>6, <1>7, <1>8 DEF applied, closed, links

\* A ledger makes a position.
LEMMA ToModelType ==
  ASSUME NEW d \in Direction, NEW l \in LedgerRecord, NEW status \in {"open", "closed"},
         NEW at \in Nat \cup {NoTime}
  PROVE  ToModel(d, l, status, at) \in Position
BY DEF ToModel, Position, LedgerRecord

-----------------------------------------------------------------------------
(* What taking a deal does to the deals, and what it leaves alone.         *)

\* What appending does to a sequence.
LEMMA AppendFacts ==
  ASSUME NEW S, NEW s \in Seq(S), NEW e \in S
  PROVE  /\ Append(s, e) \in Seq(S)
         /\ Len(Append(s, e)) = Len(s) + 1
         /\ DOMAIN Append(s, e) = 1 .. Len(s) + 1
         /\ DOMAIN s = 1 .. Len(s)
         /\ \A k \in 1 .. Len(s) : Append(s, e)[k] = s[k]
         /\ Append(s, e)[Len(s) + 1] = e
  OBVIOUS

\* A taken deal gets a new place, after all others in time.
LEMMA Taken ==
  ASSUME TypeOK, NEW deal \in Deals, Take(deal)
  PROVE  /\ ~done /\ ~done' /\ done' \in BOOLEAN
         /\ deals' \in Seq(Deals) /\ Len(deals') <= MaxDeals
         /\ This \in Nat /\ This \notin Indices
         /\ Indices' = Indices \cup {This}
         /\ \A k \in Indices : k < This /\ deals'[k] = deals[k]
         /\ deals'[This] = deal
         /\ \A k \in Indices : deals[k].time \in Nat /\ deals[k].time <= deal.time
<1>1. /\ deals \in Seq(Deals) /\ ~done /\ done' = done /\ Len(deals) < MaxDeals
      /\ deals' = Append(deals, deal) /\ InOrder(deal)
  BY DEF TypeOK, Take
<1>2. /\ deals' \in Seq(Deals) /\ Len(deals') = Len(deals) + 1
      /\ \A k \in 1 .. Len(deals) : deals'[k] = deals[k]
      /\ deals'[Len(deals) + 1] = deal
  BY <1>1, AppendFacts
<1>3. Len(deals) \in Nat
  BY <1>1
<1>4. \A k \in Indices : deals[k] \in Deals
  BY <1>1 DEF Indices
<1>5. \A k \in Indices : deals[k].time \in Nat /\ deals[k].time <= deal.time
  BY <1>1, <1>4, DealTypes DEF InOrder
<1>6. MaxDeals \in Nat
  BY DealsAssumption
<1>7. ~done' /\ done' \in BOOLEAN
  BY <1>1 DEF TypeOK
<1> QED  BY <1>1, <1>2, <1>3, <1>5, <1>6, <1>7 DEF Indices, This

\* Links and positions stay right when a deal is taken.
LEMMA LinksStable ==
  ASSUME TypeOK, NEW deal \in Deals, Take(deal),
         NEW d, NEW links, NEW opened, LinksOK(d, links, opened)
  PROVE  LinksOK(d, links, opened)'
BY Taken DEF LinksOK

\* A taken deal disturbs no position.
LEMMA PositionStable ==
  ASSUME TypeOK, NEW deal \in Deals, Take(deal), NEW pos, PositionOK(pos)
  PROVE  PositionOK(pos)'
<1>1. LinksOK(pos.direction, pos.links, pos.opened)'
  BY LinksStable DEF PositionOK
<1>2. pos.links \subseteq Indices
  BY DEF PositionOK, LinksOK
<1> QED  BY <1>1, <1>2, Taken DEF PositionOK

\* A new deal is in no ledger, no position and no list of skipped deals.
LEMMA Fresh ==
  ASSUME IInv, NEW deal \in Deals, Take(deal)
  PROVE  /\ This \notin skipped
         /\ \A d \in Direction : ledgers[d] # NoLedger => This \notin ledgers[d].links
         /\ \A p \in DOMAIN positions : This \notin positions[p].links
<1>1. TypeOK /\ This \notin Indices
  BY Taken DEF IInv
<1> QED  BY <1>1 DEF IInv, TypeOK, LedgerOK, PositionOK, LinksOK

-----------------------------------------------------------------------------
(* The inductive invariant, step by step.                                  *)

\* The invariant holds before the first deal.
LEMMA InitIInv == Init => IInv
<1> SUFFICES ASSUME Init PROVE IInv
  OBVIOUS
<1>1. TypeOK
  <2>1. deals \in Seq(Deals) /\ Len(deals) = 0 /\ positions \in Seq(Position)
    BY EmptySeq DEF Init
  <2>2. Len(deals) <= MaxDeals
    BY <2>1, DealsAssumption
  <2> QED  BY <2>1, <2>2 DEF Init, TypeOK
<1>2. /\ \A d \in Direction : ledgers[d] = NoLedger
      /\ DOMAIN positions = {} /\ Indices = {}
  BY DEF Init, Indices
<1> QED  BY <1>1, <1>2 DEF IInv, VolumesBalance, EachDealOnce, PositionsFollow, LedgerOK, Live

\* A skipped deal preserves the invariant: its place joins the skipped ones.
LEMMA SkipStep ==
  ASSUME IInv, NEW deal \in Deals, Take(deal), Skip
  PROVE  IInv'
<1>1. TypeOK
  BY DEF IInv
<1>2. /\ skipped' = skipped \cup {This} /\ ledgers' = ledgers /\ positions' = positions
      /\ clamped' = clamped
  BY DEF Skip
<1>3. TypeOK'
  <2>1. /\ deals' \in Seq(Deals) /\ Len(deals') <= MaxDeals /\ done' \in BOOLEAN
        /\ Indices' = Indices \cup {This}
    BY <1>1, Taken
  <2>2. /\ ledgers' \in [Direction -> LedgerRecord \cup {NoLedger}]
        /\ positions' \in Seq(Position)
    BY <1>1, <1>2 DEF TypeOK
  <2>3. skipped' \subseteq Indices' /\ clamped' \subseteq Indices'
    BY <1>1, <1>2, <2>1 DEF TypeOK
  <2> QED  BY <2>1, <2>2, <2>3 DEF TypeOK
<1>4. VolumesBalance'
  BY <1>2 DEF IInv, VolumesBalance
<1>5. Live' = Live
  BY <1>1, <1>2, Taken DEF Live
<1>6. EachDealOnce'
  <2>1. EachDealOnce
    BY DEF IInv
  <2>2. Live \subseteq {d \in Direction : ledgers[d] # NoLedger}
    BY DEF Live
  <2> QED  BY <1>1, <1>2, <1>5, <2>1, <2>2, Taken, Fresh DEF EachDealOnce
<1>7. PositionsFollow'
  BY <1>2, <1>5 DEF IInv, PositionsFollow
<1>8. \A d \in Direction : LedgerOK(d)'
  BY <1>1, <1>2, LinksStable DEF IInv, LedgerOK
<1>9. (\A p \in DOMAIN positions : PositionOK(positions[p]))'
  BY <1>1, <1>2, PositionStable DEF IInv
<1> QED  BY <1>3, <1>4, <1>6, <1>7, <1>8, <1>9 DEF IInv

\* One more deal of the direction keeps links right.
LEMMA LinksGrow ==
  ASSUME TypeOK, NEW deal \in Deals, Take(deal), NEW n, n = This, NEW d,
         NEW old, NEW opened \in Nat, LinksOK(d, old, opened),
         deal.side \in {EntrySide(d), ExitSide(d)}
  PROVE  LinksOK(d, old \cup {n}, opened)'
<1>1. LinksOK(d, old, opened)'
  BY LinksStable
<1>2. \A k \in old : k \in Indices /\ k \in Nat /\ k <= n
  <2>1. \A k \in Indices : k \in Nat /\ k < This => k <= This
    BY Taken DEF Indices
  <2> QED  BY <2>1, Taken DEF LinksOK, Indices
<1>3. opened <= deal.time
  <2>1. PICK first \in old : deals[first].time = opened
    BY DEF LinksOK
  <2> QED  BY <1>2, <2>1, Taken, DealTypes
<1>4. n \in Nat /\ deals'[n] = deal /\ Indices' = Indices \cup {n}
  BY Taken
<1>5. PICK first \in old : /\ deals'[first].side = EntrySide(d)
                          /\ deals'[first].time = opened
                          /\ \A k \in old : first <= k
  BY <1>1 DEF LinksOK
<1>6. \A k \in old \cup {n} : first <= k
  BY <1>2, <1>4, <1>5
<1>7. \A k \in old \cup {n} : /\ opened <= deals'[k].time
                            /\ deals'[k].side \in {EntrySide(d), ExitSide(d)}
  BY <1>1, <1>3, <1>4 DEF LinksOK
<1> QED  BY <1>1, <1>4, <1>5, <1>6, <1>7 DEF LinksOK

\* A step that puts the deal into a ledger that is kept, whether new or not.
LEMMA KeepLedgerStep ==
  ASSUME IInv, NEW deal \in Deals, Take(deal), NEW d \in Direction, NEW l \in LedgerRecord,
         l.open > 0, l.open + l.closed = l.total,
         ledgers' = [ledgers EXCEPT ![d] = l],
         positions' = positions, skipped' = skipped, clamped' \subseteq Indices',
         \/ /\ ledgers[d] = NoLedger
            /\ l.links = {This} /\ l.opened = deal.time
            /\ deal.side = EntrySide(d)
         \/ /\ ledgers[d] # NoLedger
            /\ l.links = ledgers[d].links \cup {This} /\ l.opened = ledgers[d].opened
            /\ deal.side \in {EntrySide(d), ExitSide(d)}
  PROVE  IInv'
<1>1. TypeOK
  BY DEF IInv
<1>2. l # NoLedger
  BY NoLedgerAssumption
<1>3. /\ ledgers \in [Direction -> LedgerRecord \cup {NoLedger}]
      /\ ledgers'[d] = l
      /\ \A e \in Direction : e # d => ledgers'[e] = ledgers[e]
  BY <1>1 DEF TypeOK
<1>4. Live = {e \in Direction : ledgers[e] # NoLedger} /\ Live' = Live \cup {d}
  BY <1>1, <1>2, <1>3, Taken DEF Live
<1>5. TypeOK'
  <2>1. /\ deals' \in Seq(Deals) /\ Len(deals') <= MaxDeals /\ done' \in BOOLEAN
        /\ Indices' = Indices \cup {This}
    BY <1>1, Taken
  <2>2. /\ ledgers' \in [Direction -> LedgerRecord \cup {NoLedger}]
        /\ positions' \in Seq(Position)
    BY <1>1, <1>3 DEF TypeOK
  <2>3. skipped' \subseteq Indices' /\ clamped' \subseteq Indices'
    BY <1>1, <2>1 DEF TypeOK
  <2> QED  BY <2>1, <2>2, <2>3 DEF TypeOK
<1>6. VolumesBalance'
  BY <1>3 DEF IInv, VolumesBalance
<1>7. EachDealOnce'
  <2> DEFINE old == IF ledgers[d] = NoLedger THEN {} ELSE ledgers[d].links
  <2>1. l.links = old \cup {This}
    OBVIOUS
  <2>2. \A e \in Live' : ledgers'[e].links = IF e = d THEN old \cup {This}
                                            ELSE ledgers[e].links
    BY <1>3, <1>4, <2>1
  <2>3. \A e \in Live' : e # d => e \in Live
    BY <1>4
  <2>4. d \in Live => old = ledgers[d].links
    BY <1>4
  <2>5. d \notin Live => old = {}
    BY <1>4
  <2> HIDE DEF old
  <2>6. EachDealOnce
    BY DEF IInv
  <2>7. /\ Indices' = Indices \cup {This} /\ d \in Live'
        /\ This \notin skipped
        /\ \A e \in Live : This \notin ledgers[e].links
        /\ \A p \in DOMAIN positions : This \notin positions[p].links
    BY <1>1, <1>4, Taken, Fresh
  <2>8. \A k \in Indices' :
          \/ k \in skipped'
          \/ \E p \in DOMAIN positions' : k \in positions'[p].links
          \/ \E e \in Live' : k \in ledgers'[e].links
    BY <1>4, <2>2, <2>4, <2>6, <2>7 DEF EachDealOnce
  <2>9. \A p \in DOMAIN positions' : \A e \in Live' :
          positions'[p].links \cap ledgers'[e].links = {}
    BY <2>2, <2>3, <2>4, <2>5, <2>6, <2>7 DEF EachDealOnce
  <2>10. \A e \in Live' : /\ ledgers'[e].links \cap skipped' = {}
                          /\ \A f \in Live' : e # f =>
                               ledgers'[e].links \cap ledgers'[f].links = {}
    BY <2>2, <2>3, <2>4, <2>5, <2>6, <2>7 DEF EachDealOnce
  <2> QED  BY <2>6, <2>8, <2>9, <2>10 DEF EachDealOnce
<1>8. PositionsFollow'
  <2>1. ASSUME NEW p \in DOMAIN positions, NEW e \in Live', positions[p].direction = e
        PROVE  positions[p].status = "closed" /\ positions[p].closedAt <= ledgers'[e].opened
    <3>1. CASE e \in Live
      BY <1>3, <1>4, <2>1, <3>1 DEF IInv, PositionsFollow
    <3>2. CASE e \notin Live
      <4>1. e = d /\ ledgers'[e].opened = deal.time
        BY <1>3, <1>4, <3>2
      <4>2. positions[p].status = "closed"
            /\ \E k \in Indices : deals[k].time = positions[p].closedAt
        BY <1>1, Taken DEF IInv, PositionOK
      <4> QED  BY <1>1, <4>1, <4>2, Taken
    <3> QED  BY <3>1, <3>2
  <2> QED  BY <2>1 DEF IInv, PositionsFollow
<1>9. \A e \in Direction : LedgerOK(e)'
  <2>1. ASSUME NEW e \in Direction, e # d
        PROVE  LedgerOK(e)'
    BY <1>1, <1>3, <2>1, LinksStable DEF IInv, LedgerOK
  <2>2. LinksOK(d, l.links, l.opened)'
    <3>1. CASE ledgers[d] = NoLedger
      <4>1. l.links = {This} /\ l.opened = deal.time /\ deal.side = EntrySide(d)
        BY <3>1
      <4> QED  BY <1>1, <4>1, Taken, DealTypes DEF LinksOK
    <3>2. CASE ledgers[d] # NoLedger
      <4>1. PICK old, opened : old = ledgers[d].links /\ opened = ledgers[d].opened
        OBVIOUS
      <4>2. LinksOK(d, old, opened)
        BY <3>2, <4>1 DEF IInv, LedgerOK
      <4>3. opened \in Nat
        BY <1>1, <3>2, <4>1 DEF TypeOK, LedgerRecord
      <4>4. PICK n : n = This
        OBVIOUS
      <4>5. l.links = old \cup {n} /\ l.opened = opened
            /\ deal.side \in {EntrySide(d), ExitSide(d)}
        BY <3>2, <4>1, <4>4
      <4>6. LinksOK(d, old \cup {n}, opened)'
        BY <1>1, <4>2, <4>3, <4>4, <4>5, LinksGrow
      <4> QED  BY <4>5, <4>6
    <3> QED  BY <3>1, <3>2
  <2> QED  BY <1>3, <2>1, <2>2 DEF LedgerOK
<1>10. (\A p \in DOMAIN positions : PositionOK(positions[p]))'
  BY <1>1, PositionStable DEF IInv
<1> QED  BY <1>5, <1>6, <1>7, <1>8, <1>9, <1>10 DEF IInv

\* An entry preserves the invariant: it opens a ledger, or adds to one.
LEMMA EnterStep ==
  ASSUME IInv, NEW deal \in Deals, NEW d \in Direction, Enter(d, deal)
  PROVE  IInv'
<1>1. /\ TypeOK /\ Take(deal) /\ deal.side = EntrySide(d) /\ deal.vol > 0
      /\ positions' = positions /\ skipped' = skipped /\ clamped' = clamped
  BY DEF IInv, Enter
<1>2. PICK l : l = IF ledgers[d] = NoLedger THEN NewLedger(deal, This)
                   ELSE AddEntry(ledgers[d], deal, This)
  OBVIOUS
<1>3. ledgers' = [ledgers EXCEPT ![d] = l]
  BY <1>2 DEF Enter
<1>4. This \in Nat /\ deal.vol \in Nat /\ clamped' \subseteq Indices'
  BY <1>1, Taken, DealTypes DEF TypeOK
<1>5. CASE ledgers[d] = NoLedger
  <2>1. /\ l \in LedgerRecord /\ l.open = deal.vol /\ l.closed = 0 /\ l.total = deal.vol
        /\ l.links = {This} /\ l.opened = deal.time
    BY <1>1, <1>2, <1>4, <1>5, NewLedgerType DEF NewLedger
  <2>2. l.open > 0 /\ l.open + l.closed = l.total
    BY <1>1, <1>4, <2>1
  <2> QED  BY <1>1, <1>3, <1>4, <1>5, <2>1, <2>2, KeepLedgerStep
<1>6. CASE ledgers[d] # NoLedger
  <2>1. PICK old \in LedgerRecord : old = ledgers[d]
    BY <1>1, <1>6 DEF TypeOK
  <2>2. old.open > 0 /\ old.open + old.closed = old.total
    BY <1>6, <2>1 DEF IInv, VolumesBalance
  <2>3. /\ l \in LedgerRecord /\ l.open = old.open + deal.vol /\ l.closed = old.closed
        /\ l.total = old.total + deal.vol
        /\ l.links = old.links \cup {This} /\ l.opened = old.opened
    BY <1>1, <1>2, <1>4, <1>6, <2>1, AddEntryType
  <2>4. old.open \in Nat /\ old.closed \in Nat
    BY DEF LedgerRecord
  <2>5. l.open > 0 /\ l.open + l.closed = l.total
    BY <1>4, <2>2, <2>3, <2>4
  <2> QED  BY <1>1, <1>3, <1>4, <1>6, <2>1, <2>3, <2>5, KeepLedgerStep
<1> QED  BY <1>5, <1>6

\* What an exit finds and leaves.
LEMMA ExitFacts ==
  ASSUME IInv, NEW deal \in Deals, NEW d \in Direction, Take(deal), HasOpen(d),
         deal.vol > 0, WarnExcess(d, deal)
  PROVE  \E l \in LedgerRecord :
           /\ l = AddExit(ledgers[d], deal, This)
           /\ l.open + l.closed = l.total
           /\ l.open = IF deal.vol < ledgers[d].open THEN ledgers[d].open - deal.vol ELSE 0
           /\ l.open \in Nat
           /\ l.links = ledgers[d].links \cup {This} /\ l.opened = ledgers[d].opened
           /\ clamped' \subseteq Indices'
<1>1. TypeOK
  BY DEF IInv
<1>2. This \in Nat /\ Indices' = Indices \cup {This} /\ deal.vol \in Nat
  BY <1>1, Taken, DealTypes
<1>3. clamped' \subseteq Indices'
  BY <1>1, <1>2 DEF WarnExcess, TypeOK
<1>4. PICK old \in LedgerRecord : old = ledgers[d]
  BY <1>1 DEF TypeOK, HasOpen
<1>5. old.open > 0 /\ old.open + old.closed = old.total /\ old.open \in Nat /\ old.closed \in Nat
  BY <1>4 DEF IInv, VolumesBalance, HasOpen, LedgerRecord
<1> DEFINE applied == Applied(old, deal)
           l == AddExit(old, deal, This)
<1>6. applied \in Nat
  BY <1>2, AddExitType
<1>7. l \in LedgerRecord
  BY <1>2, AddExitType
<1>8. /\ applied = IF deal.vol < old.open THEN deal.vol ELSE old.open
      /\ l.open = old.open - applied /\ l.closed = old.closed + applied
      /\ l.total = old.total
      /\ l.links = old.links \cup {This} /\ l.opened = old.opened
  BY <1>2, AddExitType
<1> HIDE DEF applied, l
<1>9. l.open + l.closed = l.total
  BY <1>5, <1>6, <1>8
<1>10. l.open = IF deal.vol < old.open THEN old.open - deal.vol ELSE 0
  BY <1>2, <1>5, <1>8
<1>11. l.open \in Nat
  BY <1>7 DEF LedgerRecord
<1> QED  BY <1>3, <1>4, <1>7, <1>8, <1>9, <1>10, <1>11 DEF l

\* An exit that leaves a volume preserves the invariant.
LEMMA ExitInPartStep ==
  ASSUME IInv, NEW deal \in Deals, NEW d \in Direction, ExitInPart(d, deal)
  PROVE  IInv'
<1>1. /\ Take(deal) /\ deal.side = ExitSide(d) /\ HasOpen(d) /\ deal.vol > 0
      /\ AddExit(ledgers[d], deal, This).open # 0 /\ WarnExcess(d, deal)
      /\ ledgers' = [ledgers EXCEPT ![d] = AddExit(ledgers[d], deal, This)]
      /\ positions' = positions /\ skipped' = skipped
  BY DEF ExitInPart
<1>2. PICK l \in LedgerRecord :
        /\ l = AddExit(ledgers[d], deal, This)
        /\ l.open + l.closed = l.total /\ l.open \in Nat
        /\ l.links = ledgers[d].links \cup {This} /\ l.opened = ledgers[d].opened
        /\ clamped' \subseteq Indices'
  BY <1>1, ExitFacts
<1>3. l.open > 0 /\ ledgers[d] # NoLedger /\ ledgers' = [ledgers EXCEPT ![d] = l]
  BY <1>1, <1>2 DEF HasOpen
<1> QED  BY <1>1, <1>2, <1>3, KeepLedgerStep

\* An exit that closes the ledger preserves the invariant: the links move to a position.
LEMMA ExitAllStep ==
  ASSUME IInv, NEW deal \in Deals, NEW d \in Direction, ExitAll(d, deal)
  PROVE  IInv'
<1>1. /\ Take(deal) /\ deal.side = ExitSide(d) /\ HasOpen(d) /\ deal.vol > 0
      /\ AddExit(ledgers[d], deal, This).open = 0 /\ WarnExcess(d, deal)
      /\ positions' = Append(positions, ToModel(d, AddExit(ledgers[d], deal, This),
                                                "closed", deal.time))
      /\ ledgers' = [ledgers EXCEPT ![d] = NoLedger]
      /\ skipped' = skipped
  BY DEF ExitAll
<1>2. PICK l \in LedgerRecord :
        /\ l = AddExit(ledgers[d], deal, This)
        /\ l.open + l.closed = l.total /\ l.open \in Nat
        /\ l.links = ledgers[d].links \cup {This} /\ l.opened = ledgers[d].opened
        /\ clamped' \subseteq Indices'
  BY <1>1, ExitFacts
<1>3. TypeOK /\ d \in Live /\ Live' = Live \ {d}
  BY <1>1, Taken DEF IInv, TypeOK, Live, HasOpen
<1>4. /\ ledgers \in [Direction -> LedgerRecord \cup {NoLedger}]
      /\ ledgers'[d] = NoLedger
      /\ \A e \in Direction : e # d => ledgers'[e] = ledgers[e]
  BY <1>1, <1>3 DEF TypeOK
<1>5. PICK pos \in Position : pos = ToModel(d, l, "closed", deal.time)
  BY <1>2, DealTypes, ToModelType
<1>6. /\ pos.direction = d /\ pos.status = "closed" /\ pos.closedAt = deal.time
      /\ pos.opened = ledgers[d].opened /\ pos.links = ledgers[d].links \cup {This}
      /\ pos.closed = pos.total
  <2>1. l.closed = l.total
    BY <1>1, <1>2 DEF LedgerRecord
  <2> QED  BY <1>2, <1>5, <2>1 DEF ToModel
<1>7. PICK new \in Nat :
        /\ new \notin DOMAIN positions /\ DOMAIN positions' = DOMAIN positions \cup {new}
        /\ \A p \in DOMAIN positions : p < new /\ positions'[p] = positions[p]
        /\ positions'[new] = pos
        /\ positions' \in Seq(Position)
  <2>1. positions \in Seq(Position) /\ positions' = Append(positions, pos)
    BY <1>1, <1>2, <1>3, <1>5 DEF TypeOK
  <2>2. Len(positions) \in Nat
    BY <2>1
  <2>3. /\ positions' \in Seq(Position)
        /\ DOMAIN positions' = 1 .. Len(positions) + 1
        /\ DOMAIN positions = 1 .. Len(positions)
        /\ \A k \in 1 .. Len(positions) : positions'[k] = positions[k]
        /\ positions'[Len(positions) + 1] = pos
    BY <2>1, AppendFacts
  <2> WITNESS Len(positions) + 1 \in Nat
  <2> QED  BY <2>2, <2>3
<1>8. TypeOK'
  <2>1. /\ deals' \in Seq(Deals) /\ Len(deals') <= MaxDeals /\ done' \in BOOLEAN
        /\ Indices' = Indices \cup {This}
    BY <1>1, <1>3, Taken
  <2>2. ledgers' \in [Direction -> LedgerRecord \cup {NoLedger}]
    BY <1>1, <1>4
  <2>3. skipped' \subseteq Indices' /\ clamped' \subseteq Indices'
    BY <1>1, <1>2, <1>3, <2>1 DEF TypeOK
  <2> QED  BY <1>7, <2>1, <2>2, <2>3 DEF TypeOK
<1>9. VolumesBalance'
  BY <1>4, <1>6, <1>7 DEF IInv, VolumesBalance
<1>10. EachDealOnce'
  <2>1. EachDealOnce
    BY DEF IInv
  <2>2. /\ Indices' = Indices \cup {This}
        /\ This \notin skipped
        /\ \A e \in Live : This \notin ledgers[e].links
        /\ \A p \in DOMAIN positions : This \notin positions[p].links
    BY <1>1, <1>3, Taken, Fresh DEF Live
  <2>3. \A e \in Live' : e \in Live /\ e # d /\ ledgers'[e] = ledgers[e]
    BY <1>3, <1>4 DEF Live
  <2>4. \A e \in Live : e = d \/ (e \in Live' /\ ledgers'[e] = ledgers[e])
    <3>1. \A e \in Live : e # d => e \in Live'
      BY <1>3
    <3> QED  BY <2>3, <3>1
  <2>5. \A k \in Indices' :
          \/ k \in skipped'
          \/ \E p \in DOMAIN positions' : k \in positions'[p].links
          \/ \E e \in Live' : k \in ledgers'[e].links
    BY <1>1, <1>6, <1>7, <2>1, <2>2, <2>4 DEF EachDealOnce
  <2>6. \A p \in DOMAIN positions' : positions'[p].links \cap skipped' = {}
    BY <1>1, <1>3, <1>6, <1>7, <2>1, <2>2 DEF EachDealOnce
  <2>7. \A p, q \in DOMAIN positions' :
          p # q => positions'[p].links \cap positions'[q].links = {}
    <3>1. \A p \in DOMAIN positions : positions[p].links \cap pos.links = {}
      BY <1>3, <1>6, <2>1, <2>2 DEF EachDealOnce
    <3> QED  BY <1>7, <2>1, <3>1 DEF EachDealOnce
  <2>8. \A p \in DOMAIN positions' : \A e \in Live' :
          positions'[p].links \cap ledgers'[e].links = {}
    <3>1. \A e \in Live' : pos.links \cap ledgers[e].links = {}
      BY <1>3, <1>6, <2>1, <2>2, <2>3 DEF EachDealOnce
    <3> QED  BY <1>7, <2>1, <2>3, <3>1 DEF EachDealOnce
  <2>9. \A e \in Live' : /\ ledgers'[e].links \cap skipped' = {}
                         /\ \A f \in Live' : e # f =>
                              ledgers'[e].links \cap ledgers'[f].links = {}
    BY <1>1, <2>1, <2>3 DEF EachDealOnce
  <2> QED  BY <2>5, <2>6, <2>7, <2>8, <2>9 DEF EachDealOnce
<1>11. PositionsFollow'
  <2>1. PositionsFollow
    BY DEF IInv
  <2>2. \A p \in DOMAIN positions :
          positions[p].direction = d =>
            positions[p].status = "closed" /\ positions[p].closedAt <= pos.opened
    BY <1>3, <1>6, <2>1 DEF PositionsFollow
  <2>3. \A e \in Live' : e \in Live /\ e # d /\ ledgers'[e] = ledgers[e]
    BY <1>3, <1>4 DEF Live
  <2>4. \A p, q \in DOMAIN positions' :
          p < q /\ positions'[p].direction = positions'[q].direction =>
            positions'[p].status = "closed" /\ positions'[p].closedAt <= positions'[q].opened
    <3>1. SUFFICES ASSUME NEW p \in DOMAIN positions', NEW q \in DOMAIN positions', p < q,
                          positions'[p].direction = positions'[q].direction
                   PROVE  positions'[p].status = "closed"
                          /\ positions'[p].closedAt <= positions'[q].opened
      OBVIOUS
    <3>2. p \in DOMAIN positions
      <4>1. \A k \in DOMAIN positions : k \in Nat
        BY <1>3 DEF TypeOK
      <4> QED  BY <1>7, <3>1, <4>1
    <3>3. CASE q = new
      BY <1>6, <1>7, <2>2, <3>1, <3>2, <3>3
    <3>4. CASE q \in DOMAIN positions
      BY <1>7, <2>1, <3>1, <3>2, <3>4 DEF PositionsFollow
    <3> QED  BY <1>7, <3>3, <3>4
  <2>5. \A p \in DOMAIN positions' : \A e \in Live' :
          positions'[p].direction = e =>
            positions'[p].status = "closed" /\ positions'[p].closedAt <= ledgers'[e].opened
    BY <1>6, <1>7, <2>1, <2>3 DEF PositionsFollow
  <2> QED  BY <2>4, <2>5 DEF PositionsFollow
<1>12. \A e \in Direction : LedgerOK(e)'
  <2>1. ASSUME NEW e \in Direction, e # d
        PROVE  LedgerOK(e)'
    BY <1>1, <1>3, <1>4, <2>1, LinksStable DEF IInv, LedgerOK
  <2> QED  BY <1>4, <2>1 DEF LedgerOK
<1>13. PositionOK(pos)'
  <2>1. PICK old, opened : old = ledgers[d].links /\ opened = ledgers[d].opened
    OBVIOUS
  <2>2. LinksOK(d, old, opened)
    BY <1>1, <2>1 DEF IInv, LedgerOK, HasOpen
  <2>3. LinksOK(d, pos.links, pos.opened)'
    <3>1. opened \in Nat
      BY <1>1, <1>4, <2>1 DEF HasOpen, LedgerRecord
    <3>2. PICK n : n = This
      OBVIOUS
    <3>3. LinksOK(d, old \cup {n}, opened)'
      BY <1>1, <1>3, <2>2, <3>1, <3>2, LinksGrow
    <3>4. pos.links = old \cup {n} /\ pos.opened = opened
      BY <1>6, <2>1, <3>2
    <3> QED  BY <3>3, <3>4
  <2>4. /\ \A k \in pos.links : k \in Indices \/ k = This
        /\ This \in Indices' /\ deals'[This] = deal
        /\ \A k \in Indices : deals'[k] = deals[k] /\ deals[k].time <= deal.time
        /\ deal.time \in Nat
    BY <1>1, <1>3, <1>6, <2>1, <2>2, Taken, DealTypes DEF LinksOK
  <2> QED  BY <1>6, <2>3, <2>4 DEF PositionOK
<1>14. (\A p \in DOMAIN positions : PositionOK(positions[p]))'
  <2>1. \A p \in DOMAIN positions : PositionOK(positions[p])
    BY DEF IInv
  <2> QED  BY <1>1, <1>3, <1>7, <1>13, <2>1, PositionStable
<1> QED  BY <1>8, <1>9, <1>10, <1>11, <1>12, <1>14 DEF IInv

\* A sequence of one element appends it.
LEMMA ConcatOne ==
  ASSUME NEW S, NEW s \in Seq(S), NEW e \in S
  PROVE  s \o <<>> = s /\ s \o <<e>> = Append(s, e)
  OBVIOUS

\* The positions after the walk: those before, then one for each ledger that is left.
LEMMA FinishShape ==
  ASSUME IInv, Finish
  PROVE  /\ positions' \in Seq(Position)
         /\ \A p \in DOMAIN positions : p \in DOMAIN positions' /\ positions'[p] = positions[p]
         /\ \A p \in DOMAIN positions' \ DOMAIN positions :
              /\ \A q \in DOMAIN positions : q < p
              /\ \E d \in Direction :
                   HasOpen(d) /\ positions'[p] = ToModel(d, ledgers[d], "open", NoTime)
              /\ \A q \in DOMAIN positions' \ DOMAIN positions :
                   p # q => positions'[p].direction # positions'[q].direction
         /\ \A d \in Direction : HasOpen(d) =>
              \E p \in DOMAIN positions' \ DOMAIN positions :
                positions'[p] = ToModel(d, ledgers[d], "open", NoTime)
<1> DEFINE open(d) == ToModel(d, ledgers[d], "open", NoTime)
           n == Len(positions)
<1>1. /\ positions \in Seq(Position) /\ n \in Nat /\ DOMAIN positions = 1 .. n
      /\ positions' = positions \o OpenPosition("long") \o OpenPosition("short")
  BY DEF IInv, TypeOK, Finish
<1>2. \A d \in Direction : HasOpen(d) => open(d) \in Position /\ open(d).direction = d
  <2>1. SUFFICES ASSUME NEW d \in Direction, HasOpen(d)
                 PROVE  open(d) \in Position /\ open(d).direction = d
    OBVIOUS
  <2>2. ledgers[d] \in LedgerRecord
    BY <2>1 DEF IInv, TypeOK, HasOpen
  <2> QED  BY <2>2, ToModelType DEF ToModel
<1>3. Direction = {"long", "short"}
  BY DEF Direction
<1>4. \A d \in Direction : OpenPosition(d) = IF HasOpen(d) THEN <<open(d)>> ELSE <<>>
  BY DEF OpenPosition
<1> HIDE DEF open
<1>5. CASE ~HasOpen("long") /\ ~HasOpen("short")
  <2>1. positions' = positions
    BY <1>1, <1>3, <1>4, <1>5, ConcatEmptySeq
  <2> QED  BY <1>1, <1>3, <1>5, <2>1 DEF open
<1>6. ASSUME NEW d \in Direction, HasOpen(d), \A e \in Direction : e # d => ~HasOpen(e)
      PROVE  positions' = Append(positions, open(d))
  <2>1. CASE d = "long"
    <3>1. positions' = Append(positions, open("long")) \o <<>>
      BY <1>1, <1>2, <1>3, <1>4, <1>6, <2>1, ConcatOne
    <3>2. Append(positions, open("long")) \in Seq(Position)
      BY <1>1, <1>2, <1>6, <2>1, AppendFacts
    <3> QED  BY <2>1, <3>1, <3>2, ConcatOne
  <2>2. CASE d = "short"
    BY <1>1, <1>2, <1>3, <1>4, <1>6, <2>2, ConcatOne
  <2> QED  BY <1>3, <2>1, <2>2
<1>7. CASE \E d \in Direction : HasOpen(d) /\ \A e \in Direction : e # d => ~HasOpen(e)
  <2>1. PICK d \in Direction : HasOpen(d) /\ \A e \in Direction : e # d => ~HasOpen(e)
    BY <1>7
  <2>2. positions' = Append(positions, open(d)) /\ open(d) \in Position
    BY <1>2, <1>6, <2>1
  <2>3. /\ positions' \in Seq(Position) /\ DOMAIN positions' = 1 .. n + 1
        /\ \A p \in 1 .. n : positions'[p] = positions[p]
        /\ positions'[n + 1] = open(d)
    <3>1. PICK e \in Position : e = open(d)
      BY <2>2
    <3>2. positions \in Seq(Position) /\ positions' = Append(positions, e)
      BY <1>1, <2>2, <3>1
    <3> QED  BY <3>1, <3>2, AppendFacts
  <2>4. /\ DOMAIN positions' \ DOMAIN positions = {n + 1}
        /\ \A q \in DOMAIN positions : q < n + 1 /\ q \in DOMAIN positions'
    <3>1. n \in Nat /\ DOMAIN positions = 1 .. n /\ DOMAIN positions' = 1 .. n + 1
      BY <1>1, <2>3
    <3> HIDE DEF n
    <3>2. (1 .. n + 1) \ (1 .. n) = {n + 1}
          /\ \A q \in 1 .. n : q < n + 1 /\ q \in 1 .. n + 1
      BY <3>1
    <3> QED  BY <3>1, <3>2
  <2>5. \A p \in DOMAIN positions : positions'[p] = positions[p]
    BY <1>1, <2>3
  <2>6. \A e \in Direction : HasOpen(e) => e = d
    BY <2>1
  <2>7. \A p \in DOMAIN positions' \ DOMAIN positions : p = n + 1
    BY <2>4
  <2>8. /\ \A p \in DOMAIN positions : p \in DOMAIN positions' /\ positions'[p] = positions[p]
        /\ \A p \in DOMAIN positions' \ DOMAIN positions :
             /\ \A q \in DOMAIN positions : q < p
             /\ \A q \in DOMAIN positions' \ DOMAIN positions : p = q
             /\ positions'[p] = open(d)
        /\ n + 1 \in DOMAIN positions' \ DOMAIN positions
    BY <2>3, <2>4, <2>5, <2>7
  <2> QED  BY <2>1, <2>3, <2>6, <2>8 DEF open
<1>8. CASE HasOpen("long") /\ HasOpen("short")
  <2>1. positions' = Append(Append(positions, open("long")), open("short"))
    <3>1. positions' = Append(positions, open("long")) \o <<open("short")>>
      BY <1>1, <1>2, <1>3, <1>4, <1>8, ConcatOne
    <3>2. Append(positions, open("long")) \in Seq(Position) /\ open("short") \in Position
      BY <1>1, <1>2, <1>3, <1>8, AppendFacts
    <3> QED  BY <3>1, <3>2, ConcatOne
  <2>2. /\ open("long") \in Position /\ open("short") \in Position
        /\ open("long").direction # open("short").direction
    BY <1>2, <1>3, <1>8
  <2>3. PICK s \in Seq(Position) : s = Append(positions, open("long"))
    BY <1>1, <2>2, AppendFacts
  <2>4. /\ Len(s) = n + 1 /\ \A p \in 1 .. n : s[p] = positions[p]
        /\ s[n + 1] = open("long")
    BY <1>1, <2>2, <2>3, AppendFacts
  <2>5. /\ positions' \in Seq(Position) /\ DOMAIN positions' = 1 .. n + 2
        /\ \A p \in 1 .. n + 1 : positions'[p] = s[p]
        /\ positions'[n + 2] = open("short")
    <3>1. (n + 1) + 1 = n + 2
      BY <1>1
    <3>2. /\ positions' \in Seq(Position) /\ DOMAIN positions' = 1 .. Len(s) + 1
          /\ \A p \in 1 .. Len(s) : positions'[p] = s[p]
          /\ positions'[Len(s) + 1] = open("short")
      BY <2>1, <2>2, <2>3, AppendFacts
    <3> QED  BY <2>4, <3>1, <3>2
  <2>6. /\ DOMAIN positions' \ DOMAIN positions = {n + 1, n + 2}
        /\ \A q \in DOMAIN positions : q < n + 1 /\ q < n + 2 /\ q \in DOMAIN positions'
    <3>1. n \in Nat /\ DOMAIN positions = 1 .. n /\ DOMAIN positions' = 1 .. n + 2
      BY <1>1, <2>5
    <3> HIDE DEF n
    <3>2. /\ (1 .. n + 2) \ (1 .. n) = {n + 1, n + 2}
          /\ \A q \in 1 .. n : q < n + 1 /\ q < n + 2 /\ q \in 1 .. n + 2
      BY <3>1
    <3> QED  BY <3>1, <3>2
  <2>7. /\ positions'[n + 1] = open("long") /\ positions'[n + 2] = open("short")
        /\ \A p \in DOMAIN positions : positions'[p] = positions[p]
    <3>1. n \in Nat /\ DOMAIN positions = 1 .. n
      BY <1>1
    <3>2. /\ s[n + 1] = open("long") /\ \A p \in 1 .. n : s[p] = positions[p]
          /\ \A p \in 1 .. n + 1 : positions'[p] = s[p]
          /\ positions'[n + 2] = open("short")
      BY <2>4, <2>5
    <3> HIDE DEF n
    <3>3. n + 1 \in 1 .. n + 1 /\ \A p \in 1 .. n : p \in 1 .. n + 1
      BY <3>1
    <3> QED  BY <3>1, <3>2, <3>3
  <2> QED  BY <1>3, <1>8, <2>2, <2>5, <2>6, <2>7 DEF open
<1> QED  BY <1>3, <1>5, <1>7, <1>8

\* The end of the walk preserves the invariant.
LEMMA FinishStep ==
  ASSUME IInv, Finish
  PROVE  IInv'
<1>1. /\ TypeOK /\ ~done /\ done' = TRUE
      /\ deals' = deals /\ ledgers' = ledgers /\ skipped' = skipped /\ clamped' = clamped
  BY DEF IInv, Finish
<1>2. /\ positions' \in Seq(Position)
      /\ \A p \in DOMAIN positions : p \in DOMAIN positions' /\ positions'[p] = positions[p]
  BY FinishShape
<1>3. Live' = {} /\ Indices' = Indices /\ Live = {d \in Direction : ledgers[d] # NoLedger}
  BY <1>1 DEF Live, Indices
<1>4. \A d \in Live : HasOpen(d)
  BY DEF IInv, VolumesBalance, Live, HasOpen
<1>5. ASSUME NEW p \in DOMAIN positions' \ DOMAIN positions
      PROVE  \E d \in Live :
               /\ positions'[p].direction = d /\ positions'[p].status = "open"
               /\ positions'[p].links = ledgers[d].links
               /\ positions'[p].opened = ledgers[d].opened
               /\ positions'[p].closedAt = NoTime
               /\ positions'[p].closed < positions'[p].total
  <2>1. PICK d \in Direction :
          HasOpen(d) /\ positions'[p] = ToModel(d, ledgers[d], "open", NoTime)
    BY <1>5, FinishShape
  <2>2. d \in Live
    BY <1>3, <2>1 DEF HasOpen
  <2>3. ledgers[d].closed < ledgers[d].total
    <3>1. PICK l \in LedgerRecord : l = ledgers[d]
      BY <1>1, <2>1 DEF TypeOK, HasOpen
    <3>2. l.open > 0 /\ l.open + l.closed = l.total
      BY <2>1, <3>1 DEF IInv, VolumesBalance, HasOpen
    <3> QED  BY <3>1, <3>2 DEF LedgerRecord
  <2> QED  BY <2>1, <2>2, <2>3 DEF ToModel
<1>6. TypeOK'
  BY <1>1, <1>2, <1>3 DEF TypeOK
<1>7. VolumesBalance'
  <2>1. \A p \in DOMAIN positions' :
          IF positions'[p].status = "closed" THEN positions'[p].closed = positions'[p].total
          ELSE positions'[p].closed < positions'[p].total
    <3>1. ASSUME NEW p \in DOMAIN positions' \ DOMAIN positions
          PROVE  positions'[p].status # "closed" /\ positions'[p].closed < positions'[p].total
      BY <1>5
    <3> QED  BY <1>2, <3>1 DEF IInv, VolumesBalance
  <2> QED  BY <1>1, <2>1 DEF IInv, VolumesBalance
<1>8. EachDealOnce'
  <2>1. EachDealOnce
    BY DEF IInv
  <2>2. \A d \in Live : \E p \in DOMAIN positions' : positions'[p].links = ledgers[d].links
    <3>1. SUFFICES ASSUME NEW d \in Live
                   PROVE  \E p \in DOMAIN positions' : positions'[p].links = ledgers[d].links
      OBVIOUS
    <3>2. d \in Direction /\ HasOpen(d)
      BY <1>3, <1>4
    <3>3. PICK p \in DOMAIN positions' \ DOMAIN positions :
            positions'[p] = ToModel(d, ledgers[d], "open", NoTime)
      BY <3>2, FinishShape
    <3> QED  BY <3>3 DEF ToModel
  <2>3. \A k \in Indices' :
          \/ k \in skipped'
          \/ \E p \in DOMAIN positions' : k \in positions'[p].links
    <3>1. SUFFICES ASSUME NEW k \in Indices, k \notin skipped
                   PROVE  \E p \in DOMAIN positions' : k \in positions'[p].links
      BY <1>1, <1>3
    <3>2. CASE \E p \in DOMAIN positions : k \in positions[p].links
      BY <1>2, <3>2
    <3>3. CASE \E d \in Live : k \in ledgers[d].links
      BY <2>2, <3>3
    <3> QED  BY <2>1, <3>1, <3>2, <3>3 DEF EachDealOnce
  <2>4. \A p \in DOMAIN positions' : positions'[p].links \cap skipped' = {}
    <3>1. ASSUME NEW p \in DOMAIN positions' \ DOMAIN positions
          PROVE  positions'[p].links \cap skipped = {}
      BY <1>5, <2>1 DEF EachDealOnce
    <3> QED  BY <1>1, <1>2, <2>1, <3>1 DEF EachDealOnce
  <2>5. ASSUME NEW p \in DOMAIN positions', NEW q \in DOMAIN positions', p # q
        PROVE  positions'[p].links \cap positions'[q].links = {}
    <3>1. CASE p \in DOMAIN positions /\ q \in DOMAIN positions
      BY <1>2, <2>1, <2>5, <3>1 DEF EachDealOnce
    <3>2. CASE p \in DOMAIN positions /\ q \notin DOMAIN positions
      BY <1>2, <1>5, <2>1, <3>2 DEF EachDealOnce
    <3>3. CASE p \notin DOMAIN positions /\ q \in DOMAIN positions
      BY <1>2, <1>5, <2>1, <3>3 DEF EachDealOnce
    <3>4. CASE p \notin DOMAIN positions /\ q \notin DOMAIN positions
      <4>1. positions'[p].direction # positions'[q].direction
        BY <2>5, <3>4, FinishShape
      <4> QED  BY <1>5, <2>1, <3>4, <4>1 DEF EachDealOnce
    <3> QED  BY <3>1, <3>2, <3>3, <3>4
  <2> QED  BY <1>3, <2>3, <2>4, <2>5 DEF EachDealOnce
<1>9. PositionsFollow'
  <2>1. PositionsFollow
    BY DEF IInv
  <2>2. ASSUME NEW p \in DOMAIN positions', NEW q \in DOMAIN positions', p < q,
               positions'[p].direction = positions'[q].direction
        PROVE  positions'[p].status = "closed" /\ positions'[p].closedAt <= positions'[q].opened
    <3>1. p \in Nat /\ q \in Nat
      BY <1>2
    <3>2. p \in DOMAIN positions
      <4>1. CASE q \in DOMAIN positions
        <5>1. DOMAIN positions = 1 .. Len(positions) /\ DOMAIN positions' = 1 .. Len(positions')
              /\ Len(positions) \in Nat
          BY <1>1, <1>2 DEF TypeOK
        <5> QED  BY <2>2, <3>1, <4>1, <5>1
      <4>2. CASE q \notin DOMAIN positions
        <5>1. p # q
          BY <2>2, <3>1
        <5> QED  BY <2>2, <4>2, <5>1, FinishShape
      <4> QED  BY <4>1, <4>2
    <3>3. CASE q \in DOMAIN positions
      BY <1>2, <2>1, <2>2, <3>2, <3>3 DEF PositionsFollow
    <3>4. CASE q \notin DOMAIN positions
      BY <1>2, <1>5, <2>1, <2>2, <3>2, <3>4 DEF PositionsFollow
    <3> QED  BY <3>3, <3>4
  <2> QED  BY <1>3, <2>2 DEF PositionsFollow
<1>10. \A d \in Direction : LedgerOK(d)'
  BY <1>1, <1>3 DEF IInv, LedgerOK, LinksOK
<1>11. (\A p \in DOMAIN positions : PositionOK(positions[p]))'
  <2>1. ASSUME NEW p \in DOMAIN positions', NEW pos, pos = positions'[p]
        PROVE  PositionOK(pos)'
    <3>1. CASE p \in DOMAIN positions
      <4>1. PositionOK(pos)
        BY <1>2, <2>1, <3>1 DEF IInv
      <4>2. pos.status = "closed"
        BY <1>1, <4>1 DEF PositionOK
      <4> QED  BY <1>1, <1>3, <4>1, <4>2 DEF PositionOK, LinksOK
    <3>2. CASE p \notin DOMAIN positions
      <4>1. PICK d \in Live : /\ pos.direction = d /\ pos.status = "open"
                              /\ pos.links = ledgers[d].links /\ pos.opened = ledgers[d].opened
                              /\ pos.closedAt = NoTime
        BY <1>5, <2>1, <3>2
      <4>2. LinksOK(pos.direction, pos.links, pos.opened)
        BY <1>3, <4>1 DEF IInv, LedgerOK
      <4> QED  BY <1>1, <1>3, <4>1, <4>2 DEF PositionOK, LinksOK
    <3> QED  BY <3>1, <3>2
  <2> QED  BY <2>1
<1> QED  BY <1>6, <1>7, <1>8, <1>9, <1>10, <1>11 DEF IInv

\* Every step preserves the invariant.
LEMMA NextStep ==
  ASSUME IInv, [Next]_vars
  PROVE  IInv'
<1>1. ASSUME NEW d \in Direction, NEW deal \in Deals,
             SkipEntry(d, deal) \/ SkipExit(d, deal)
      PROVE  IInv'
  BY <1>1, SkipStep DEF SkipEntry, SkipExit
<1>2. ASSUME NEW deal \in Deals, SkipUnknownSide(deal)
      PROVE  IInv'
  BY <1>2, SkipStep DEF SkipUnknownSide
<1>3. CASE UNCHANGED vars
  BY <1>3 DEF vars, IInv, TypeOK, VolumesBalance, EachDealOnce, PositionsFollow, LedgerOK,
              PositionOK, LinksOK, Live, Indices
<1> QED  BY <1>1, <1>2, <1>3, EnterStep, ExitInPartStep, ExitAllStep, FinishStep DEF Next

-----------------------------------------------------------------------------
(* The theorems.                                                           *)

\* The invariant holds in every reachable state.
LEMMA Invariant == Spec => []IInv
<1>1. IInv /\ [Next]_vars => IInv'
  BY NextStep
<1> QED  BY <1>1, InitIInv, PTL DEF Spec

\* Deals, ledgers and positions keep the shape of their classes and tables.
THEOREM TypeCorrect == Spec => []TypeOK
<1>1. IInv => TypeOK
  BY DEF IInv
<1> QED  BY <1>1, Invariant, PTL

\* Volumes balance in every ledger and every position (add_entry, add_exit, the clamping).
THEOREM Balance == Spec => []VolumesBalance
<1>1. IInv => VolumesBalance
  BY DEF IInv
<1> QED  BY <1>1, Invariant, PTL

\* Every deal belongs to one position or is reported as skipped (raw_deal_ids, warnings).
THEOREM DealsUsedOnce == Spec => []EachDealOnce
<1>1. IInv => EachDealOnce
  BY DEF IInv
<1> QED  BY <1>1, Invariant, PTL

\* The positions of a direction follow one another in time.
THEOREM Succession == Spec => []PositionsFollow
<1>1. IInv => PositionsFollow
  BY DEF IInv
<1> QED  BY <1>1, Invariant, PTL

\* The links of a position lie within its time and start with its opening entry, which is
\* what transaction_timeline and _opening_order_id rely on.
THEOREM Timelines == Spec => []LinksWithinTimeline
<1>1. IInv => LinksWithinTimeline
  <2>1. SUFFICES ASSUME IInv, NEW p \in DOMAIN positions, NEW pos, pos = positions[p]
                 PROVE  /\ pos.links \subseteq InferredDeals(pos)
                        /\ \A k \in pos.links :
                             deals[k].side \in {EntrySide(pos.direction), ExitSide(pos.direction)}
                        /\ \E first \in pos.links :
                             /\ deals[first].side = EntrySide(pos.direction)
                             /\ deals[first].time = pos.opened
                             /\ \A k \in pos.links : first <= k
    BY DEF LinksWithinTimeline
  <2>2. PositionOK(pos) /\ pos \in Position
    BY <2>1 DEF IInv, TypeOK
  <2>3. \A k \in pos.links : pos.closedAt # NoTime => deals[k].time <= pos.closedAt
    BY <2>2 DEF PositionOK
  <2> QED  BY <2>2, <2>3 DEF PositionOK, LinksOK, InferredDeals
<1> QED  BY <1>1, Invariant, PTL

-----------------------------------------------------------------------------
(* The ledgers implement the hedge book.                                   *)

\* The walk begins as the book does.
LEMMA InitBook == Init => Book!BookInit
BY DEF Init, Book!BookInit, Direction, Book!Direction, OpenVolume, Summary

Summaries == [direction: Direction, status: {"open", "closed"}]
SummaryOf(pos) == [direction |-> pos.direction, status |-> pos.status]

\* A summary is a sequence of directions and states, one for each position.
LEMMA SummaryFacts ==
  ASSUME NEW ps \in Seq(Position)
  PROVE  /\ Summary(ps) \in Seq(Summaries)
         /\ Len(Summary(ps)) = Len(ps)
         /\ \A k \in 1 .. Len(ps) : Summary(ps)[k] = SummaryOf(ps[k])
<1>1. DOMAIN ps = 1 .. Len(ps) /\ Len(ps) \in Nat
  OBVIOUS
<1>2. \A k \in 1 .. Len(ps) : ps[k] \in Position /\ SummaryOf(ps[k]) \in Summaries
  <2>1. \A pos \in Position : SummaryOf(pos) \in Summaries
    BY DEF Position, SummaryOf, Summaries
  <2>2. \A k \in 1 .. Len(ps) : ps[k] \in Position
    OBVIOUS
  <2> QED  BY <2>1, <2>2
<1>3. Summary(ps) = [k \in 1 .. Len(ps) |-> SummaryOf(ps[k])]
  BY <1>1 DEF Summary, SummaryOf
<1> QED  BY <1>1, <1>2, <1>3

\* One more position is one more entry of the summary.
LEMMA SummaryAppend ==
  ASSUME NEW ps \in Seq(Position), NEW pos \in Position
  PROVE  Summary(Append(ps, pos)) = Append(Summary(ps), SummaryOf(pos))
<1> DEFINE left == Summary(Append(ps, pos))
           right == Append(Summary(ps), SummaryOf(pos))
<1>1. SummaryOf(pos) \in Summaries
  BY DEF Position, SummaryOf, Summaries
<1>2. /\ Append(ps, pos) \in Seq(Position) /\ Len(Append(ps, pos)) = Len(ps) + 1
      /\ \A k \in 1 .. Len(ps) : Append(ps, pos)[k] = ps[k]
      /\ Append(ps, pos)[Len(ps) + 1] = pos
  BY AppendFacts
<1>3. /\ left \in Seq(Summaries) /\ Len(left) = Len(ps) + 1
      /\ \A k \in 1 .. Len(ps) + 1 : left[k] = SummaryOf(Append(ps, pos)[k])
  BY <1>2, SummaryFacts
<1>4. /\ Summary(ps) \in Seq(Summaries) /\ Len(Summary(ps)) = Len(ps)
      /\ \A k \in 1 .. Len(ps) : Summary(ps)[k] = SummaryOf(ps[k])
  BY SummaryFacts
<1>5. /\ right \in Seq(Summaries) /\ Len(right) = Len(ps) + 1
      /\ \A k \in 1 .. Len(ps) : right[k] = SummaryOf(ps[k])
      /\ right[Len(ps) + 1] = SummaryOf(pos)
  BY <1>1, <1>4, AppendFacts
<1>6. Len(ps) \in Nat
  OBVIOUS
<1> HIDE DEF left, right
<1>7. \A k \in 1 .. Len(left) : left[k] = right[k]
  <2>1. SUFFICES ASSUME NEW k \in 1 .. Len(ps) + 1
                 PROVE  left[k] = right[k]
    BY <1>3
  <2>2. CASE k \in 1 .. Len(ps)
    BY <1>2, <1>3, <1>5, <2>2
  <2>3. CASE k = Len(ps) + 1
    BY <1>2, <1>3, <1>5, <2>3
  <2> QED  BY <1>6, <2>2, <2>3
<1>8. left = right
  BY <1>3, <1>5, <1>7, SeqEqual
<1> QED  BY <1>8 DEF left, right

\* How the book moves by a deal, said of the ledgers.
LEMMA AfterFacts ==
  ASSUME NEW deal \in Deals, NEW d \in Direction
  PROVE  Book!After(deal, d) =
           IF deal.vol <= 0 THEN OpenVolume(d)
           ELSE IF deal.side = EntrySide(d) THEN OpenVolume(d) + deal.vol
           ELSE IF deal.side # ExitSide(d) THEN OpenVolume(d)
           ELSE IF deal.vol < OpenVolume(d) THEN OpenVolume(d) - deal.vol
           ELSE 0
BY DEF Book!After, Opens, Closes

\* A direction has an open ledger exactly when its volume is not zero.
LEMMA VolumeFacts ==
  ASSUME IInv, NEW d \in Direction
  PROVE  /\ OpenVolume(d) \in Nat
         /\ HasOpen(d) <=> OpenVolume(d) > 0
         /\ ~HasOpen(d) <=> OpenVolume(d) = 0
         /\ HasOpen(d) <=> ledgers[d] # NoLedger
<1>1. CASE ledgers[d] = NoLedger
  BY <1>1 DEF OpenVolume, HasOpen
<1>2. CASE ledgers[d] # NoLedger
  <2>1. PICK l \in LedgerRecord : l = ledgers[d]
    BY <1>2 DEF IInv, TypeOK
  <2>2. l.open \in Nat /\ l.open > 0
    BY <1>2, <2>1 DEF IInv, VolumesBalance, LedgerRecord
  <2> QED  BY <1>2, <2>1, <2>2 DEF OpenVolume, HasOpen
<1> QED  BY <1>1, <1>2

\* A deal that closes nothing is one move of the book.
LEMMA QuietDeal ==
  ASSUME IInv, NEW deal \in Deals, Take(deal), positions' = positions,
         \A d \in Direction : /\ OpenVolume(d)' = Book!After(deal, d)
                              /\ OpenVolume(d) > 0 => Book!After(deal, d) # 0
  PROVE  Book!Book(deal)
<1>1. Summary(positions) \in Seq(Summaries)
  BY SummaryFacts DEF IInv, TypeOK
<1>2. {d \in Direction : [e \in Direction |-> OpenVolume(e)][d] > 0
                         /\ Book!After(deal, d) = 0} = {}
  OBVIOUS
<1>3. Book!Report("closed", {}) = <<>>
  BY DEF Book!Report, Book!ReportOne
<1>4. Summary(positions)' = Summary(positions) \o Book!Report("closed", {})
  BY <1>1, <1>3, ConcatEmptySeq DEF Summary
<1>5. [d \in Direction |-> OpenVolume(d)]' = [d \in Direction |-> Book!After(deal, d)]
  OBVIOUS
<1> QED  BY <1>2, <1>4, <1>5 DEF Book!Book, Take, Book!Direction, Direction

\* What a skipped deal does to the book: nothing but being seen.
LEMMA SkipBook ==
  ASSUME IInv, NEW deal \in Deals, Take(deal), Skip,
         \A d \in Direction : Book!After(deal, d) = OpenVolume(d)
  PROVE  Book!Book(deal)
<1>1. positions' = positions /\ ledgers' = ledgers
  BY DEF Skip
<1>2. \A d \in Direction : OpenVolume(d)' = OpenVolume(d)
  BY <1>1 DEF OpenVolume
<1>3. \A d \in Direction : OpenVolume(d) > 0 => OpenVolume(d) # 0
  BY VolumeFacts
<1> QED  BY <1>1, <1>2, <1>3, QuietDeal

\* A skipped deal is a deal of the book that moves no volume.
LEMMA SkipBooks ==
  ASSUME IInv, NEW d \in Direction, NEW deal \in Deals,
         SkipEntry(d, deal) \/ SkipExit(d, deal) \/ SkipUnknownSide(deal)
  PROVE  Book!Book(deal)
<1>1. Take(deal) /\ Skip
  BY DEF SkipEntry, SkipExit, SkipUnknownSide
<1>2. deal.vol \in Int /\ \A e \in Direction : OpenVolume(e) \in Nat
  BY DealTypes, VolumeFacts
<1>3. ASSUME NEW e \in Direction
      PROVE  Book!After(deal, e) = OpenVolume(e)
  <2>1. CASE deal.vol <= 0
    BY <2>1, AfterFacts
  <2>2. CASE deal.side \notin Sides
    BY <1>2, <2>2, AfterFacts, SideFacts
  <2>3. CASE deal.vol > 0 /\ deal.side = ExitSide(d) /\ ~HasOpen(d)
    <3>1. CASE e = d
      <4>1. OpenVolume(e) = 0
        BY <2>3, <3>1, VolumeFacts
      <4>2. ~(deal.vol < OpenVolume(e)) /\ deal.side # EntrySide(e) /\ ~(deal.vol <= 0)
        BY <1>2, <2>3, <3>1, <4>1, SideFacts
      <4> QED  BY <2>3, <3>1, <4>1, <4>2, AfterFacts
    <3>2. CASE e # d
      <4>1. deal.side # EntrySide(e) /\ deal.side # ExitSide(e)
        BY <2>3, <3>2, SideFacts
      <4> QED  BY <4>1, AfterFacts
    <3> QED  BY <3>1, <3>2
  <2>4. deal.vol <= 0 \/ deal.side \notin Sides
          \/ (deal.vol > 0 /\ deal.side = ExitSide(d) /\ ~HasOpen(d))
    BY <1>2 DEF SkipEntry, SkipExit, SkipUnknownSide
  <2> QED  BY <2>1, <2>2, <2>3, <2>4
<1> QED  BY <1>1, <1>3, SkipBook

\* A deal of direction d leaves the other direction alone.
LEMMA OtherDirection ==
  ASSUME IInv, NEW d \in Direction, NEW deal \in Deals,
         deal.side \in {EntrySide(d), ExitSide(d)}, NEW l,
         ledgers' = [ledgers EXCEPT ![d] = l], NEW e \in Direction, e # d
  PROVE  OpenVolume(e)' = OpenVolume(e) /\ Book!After(deal, e) = OpenVolume(e)
<1>1. deal.side # EntrySide(e) /\ deal.side # ExitSide(e)
  BY SideFacts
<1>2. ledgers'[e] = ledgers[e]
  BY DEF IInv, TypeOK
<1> QED  BY <1>1, <1>2, AfterFacts DEF OpenVolume

\* An entry is a deal of the book.
LEMMA EnterBooks ==
  ASSUME IInv, NEW d \in Direction, NEW deal \in Deals, Enter(d, deal)
  PROVE  Book!Book(deal)
<1>1. /\ TypeOK /\ Take(deal) /\ deal.side = EntrySide(d) /\ deal.vol > 0
      /\ deal.vol \in Nat /\ This \in Nat /\ positions' = positions
  BY Taken, DealTypes DEF IInv, Enter
<1>2. PICK l : l = IF ledgers[d] = NoLedger THEN NewLedger(deal, This)
                   ELSE AddEntry(ledgers[d], deal, This)
  OBVIOUS
<1>3. ledgers' = [ledgers EXCEPT ![d] = l] /\ ledgers'[d] = l
  BY <1>1, <1>2 DEF Enter, TypeOK
<1>4. l \in LedgerRecord /\ l.open = OpenVolume(d) + deal.vol
  <2>1. CASE ledgers[d] = NoLedger
    <3>1. l \in LedgerRecord /\ l.open = deal.vol
      BY <1>1, <1>2, <2>1, NewLedgerType DEF NewLedger
    <3>2. OpenVolume(d) = 0
      BY <2>1 DEF OpenVolume
    <3> QED  BY <1>1, <3>1, <3>2
  <2>2. CASE ledgers[d] # NoLedger
    <3>1. ledgers[d] \in LedgerRecord
      BY <1>1, <2>2 DEF TypeOK
    <3> QED  BY <1>1, <1>2, <2>2, <3>1, AddEntryType DEF OpenVolume
  <2> QED  BY <2>1, <2>2
<1>5. OpenVolume(d)' = OpenVolume(d) + deal.vol
  BY <1>3, <1>4, NoLedgerAssumption DEF OpenVolume
<1>6. Book!After(deal, d) = OpenVolume(d) + deal.vol
  BY <1>1, AfterFacts
<1>7. \A e \in Direction : OpenVolume(e) \in Nat
  BY VolumeFacts
<1>8. \A e \in Direction : /\ OpenVolume(e)' = Book!After(deal, e)
                           /\ OpenVolume(e) > 0 => Book!After(deal, e) # 0
  <2>1. ASSUME NEW e \in Direction, e # d
        PROVE  OpenVolume(e)' = OpenVolume(e) /\ Book!After(deal, e) = OpenVolume(e)
    BY <1>1, <1>3, <2>1, OtherDirection
  <2> QED  BY <1>1, <1>5, <1>6, <1>7, <2>1
<1> QED  BY <1>1, <1>8, QuietDeal

\* An exit that leaves a volume is a deal of the book that reports nothing.
LEMMA ExitInPartBooks ==
  ASSUME IInv, NEW d \in Direction, NEW deal \in Deals, ExitInPart(d, deal)
  PROVE  Book!Book(deal)
<1>1. /\ TypeOK /\ Take(deal) /\ deal.side = ExitSide(d) /\ HasOpen(d) /\ deal.vol > 0
      /\ deal.vol \in Nat /\ WarnExcess(d, deal) /\ positions' = positions
      /\ AddExit(ledgers[d], deal, This).open # 0
      /\ ledgers' = [ledgers EXCEPT ![d] = AddExit(ledgers[d], deal, This)]
  BY DealTypes DEF IInv, ExitInPart
<1>2. PICK l \in LedgerRecord :
        /\ l = AddExit(ledgers[d], deal, This)
        /\ l.open = IF deal.vol < ledgers[d].open THEN ledgers[d].open - deal.vol ELSE 0
  BY <1>1, ExitFacts
<1>3. ledgers' = [ledgers EXCEPT ![d] = l] /\ ledgers'[d] = l /\ l.open # 0
  BY <1>1, <1>2 DEF TypeOK
<1>4. OpenVolume(d) = ledgers[d].open /\ deal.side # EntrySide(d)
  BY <1>1, SideFacts DEF OpenVolume, HasOpen
<1>5. OpenVolume(d)' = l.open
  BY <1>3, NoLedgerAssumption DEF OpenVolume
<1>6. Book!After(deal, d) = l.open
  BY <1>1, <1>2, <1>4, AfterFacts
<1>7. \A e \in Direction : OpenVolume(e) \in Nat
  BY VolumeFacts
<1>8. \A e \in Direction : /\ OpenVolume(e)' = Book!After(deal, e)
                           /\ OpenVolume(e) > 0 => Book!After(deal, e) # 0
  <2>1. ASSUME NEW e \in Direction, e # d
        PROVE  OpenVolume(e)' = OpenVolume(e) /\ Book!After(deal, e) = OpenVolume(e)
    BY <1>1, <1>3, <2>1, OtherDirection
  <2> QED  BY <1>3, <1>5, <1>6, <1>7, <2>1
<1> QED  BY <1>1, <1>8, QuietDeal

\* Two sequences of one element append two.
LEMMA TwoAppends ==
  ASSUME NEW S, NEW s \in Seq(S), NEW a \in S, NEW b \in S
  PROVE  s \o (<<a>> \o <<b>>) = Append(Append(s, a), b)
<1>1. <<a>> \in Seq(S) /\ <<b>> \in Seq(S)
  OBVIOUS
<1>2. s \o (<<a>> \o <<b>>) = (s \o <<a>>) \o <<b>>
  BY <1>1, ConcatAssociative
<1>3. s \o <<a>> = Append(s, a) /\ Append(s, a) \in Seq(S)
  BY ConcatOne, AppendFacts
<1>4. Append(s, a) \o <<b>> = Append(Append(s, a), b)
  BY <1>3, ConcatOne
<1> QED  BY <1>2, <1>3, <1>4

\* What the book reports for no direction, for one and for both.
LEMMA ReportFacts ==
  ASSUME NEW s \in Seq(Summaries), NEW status \in {"open", "closed"}
  PROVE  /\ s \o Book!Report(status, {}) = s
         /\ s \o Book!Report(status, {"long"}) =
              Append(s, [direction |-> "long", status |-> status])
         /\ s \o Book!Report(status, {"short"}) =
              Append(s, [direction |-> "short", status |-> status])
         /\ s \o Book!Report(status, Direction) =
              Append(Append(s, [direction |-> "long", status |-> status]),
                     [direction |-> "short", status |-> status])
<1> DEFINE one(d) == [direction |-> d, status |-> status]
<1>1. Direction = {"long", "short"} /\ "long" # "short"
  BY DEF Direction
<1>2. one("long") \in Summaries /\ one("short") \in Summaries
  BY <1>1 DEF Summaries
<1>3. Book!Report(status, {}) = <<>> \o <<>> /\ <<>> \o <<>> = <<>>
  BY DEF Book!Report, Book!ReportOne
<1>4. Book!Report(status, {"long"}) = <<one("long")>> \o <<>>
  BY DEF Book!Report, Book!ReportOne
<1>5. Book!Report(status, {"short"}) = <<>> \o <<one("short")>>
  BY DEF Book!Report, Book!ReportOne
<1>6. Book!Report(status, Direction) = <<one("long")>> \o <<one("short")>>
  BY <1>1 DEF Book!Report, Book!ReportOne
<1> HIDE DEF one
<1>7. s \o <<>> = s
  BY ConcatEmptySeq
<1>8. \A e \in Summaries : /\ <<e>> \o <<>> = <<e>> /\ <<>> \o <<e>> = <<e>>
                           /\ s \o <<e>> = Append(s, e)
  BY ConcatOne
<1>9. s \o (<<one("long")>> \o <<one("short")>>) =
        Append(Append(s, one("long")), one("short"))
  BY <1>2, TwoAppends
<1>10. s \o Book!Report(status, {}) = s
  BY <1>3, <1>7
<1>11. s \o Book!Report(status, {"long"}) = Append(s, one("long"))
  BY <1>2, <1>4, <1>8
<1>12. s \o Book!Report(status, {"short"}) = Append(s, one("short"))
  BY <1>2, <1>5, <1>8
<1>13. s \o Book!Report(status, Direction) = Append(Append(s, one("long")), one("short"))
  BY <1>6, <1>9
<1> QED  BY <1>10, <1>11, <1>12, <1>13 DEF one

\* An exit that closes the ledger is a deal of the book that reports a closed position.
LEMMA ExitAllBooks ==
  ASSUME IInv, NEW d \in Direction, NEW deal \in Deals, ExitAll(d, deal)
  PROVE  Book!Book(deal)
<1>1. /\ TypeOK /\ Take(deal) /\ deal.side = ExitSide(d) /\ HasOpen(d) /\ deal.vol > 0
      /\ deal.vol \in Nat /\ WarnExcess(d, deal)
      /\ AddExit(ledgers[d], deal, This).open = 0
      /\ positions' = Append(positions, ToModel(d, AddExit(ledgers[d], deal, This),
                                                "closed", deal.time))
      /\ ledgers' = [ledgers EXCEPT ![d] = NoLedger]
  BY DealTypes DEF IInv, ExitAll
<1>2. PICK l \in LedgerRecord :
        /\ l = AddExit(ledgers[d], deal, This)
        /\ l.open = IF deal.vol < ledgers[d].open THEN ledgers[d].open - deal.vol ELSE 0
  BY <1>1, ExitFacts
<1>3. PICK pos \in Position : pos = ToModel(d, l, "closed", deal.time)
  BY <1>2, DealTypes, ToModelType
<1>4. SummaryOf(pos) = [direction |-> d, status |-> "closed"]
  BY <1>3 DEF ToModel, SummaryOf
<1>5. OpenVolume(d) = ledgers[d].open /\ deal.side # EntrySide(d) /\ OpenVolume(d) > 0
      /\ OpenVolume(d) \in Nat
  BY <1>1, SideFacts, VolumeFacts DEF OpenVolume, HasOpen
<1>6. Book!After(deal, d) = 0
  BY <1>1, <1>2, <1>5, AfterFacts
<1>7. OpenVolume(d)' = 0
  BY <1>1 DEF OpenVolume, TypeOK
<1>8. ASSUME NEW e \in Direction, e # d
      PROVE  OpenVolume(e)' = OpenVolume(e) /\ Book!After(deal, e) = OpenVolume(e)
  BY <1>1, <1>8, OtherDirection
<1>9. [e \in Direction |-> OpenVolume(e)]' = [e \in Direction |-> Book!After(deal, e)]
  BY <1>6, <1>7, <1>8
<1>10. {e \in Direction : [f \in Direction |-> OpenVolume(f)][e] > 0
                          /\ Book!After(deal, e) = 0} = {d}
  <2>1. \A e \in Direction : OpenVolume(e) > 0 => OpenVolume(e) # 0
    BY VolumeFacts
  <2> QED  BY <1>5, <1>6, <1>8, <2>1
<1>11. Summary(positions)' = Append(Summary(positions), [direction |-> d, status |-> "closed"])
  <2>1. positions \in Seq(Position) /\ positions' = Append(positions, pos)
    BY <1>1, <1>2, <1>3 DEF TypeOK
  <2>2. Summary(positions)' = Summary(Append(positions, pos))
    BY <2>1 DEF Summary
  <2> QED  BY <1>4, <2>1, <2>2, SummaryAppend
<1>12. Summary(positions)' = Summary(positions) \o Book!Report("closed", {d})
  <2>1. Summary(positions) \in Seq(Summaries)
    BY <1>1, SummaryFacts DEF TypeOK
  <2>2. d = "long" \/ d = "short"
    BY DEF Direction
  <2> QED  BY <1>11, <2>1, <2>2, ReportFacts
<1> QED  BY <1>1, <1>9, <1>10, <1>12 DEF Book!Book, Take, Book!Direction, Direction

\* The end of the walk settles the book.
LEMMA FinishSettles ==
  ASSUME IInv, Finish
  PROVE  Book!Settle
<1> DEFINE open(d) == ToModel(d, ledgers[d], "open", NoTime)
           line(d) == [direction |-> d, status |-> "open"]
           held == {d \in Direction : [e \in Direction |-> OpenVolume(e)][d] > 0}
<1>1. /\ positions \in Seq(Position) /\ Summary(positions) \in Seq(Summaries)
      /\ positions' = positions \o OpenPosition("long") \o OpenPosition("short")
  BY SummaryFacts DEF IInv, TypeOK, Finish
<1>2. Direction = {"long", "short"} /\ "long" # "short"
  BY DEF Direction
<1>3. held = {d \in Direction : HasOpen(d)}
  BY VolumeFacts
<1>4. \A d \in Direction : line(d) \in Summaries
  BY DEF Summaries
<1>5. \A d \in Direction : HasOpen(d) => open(d) \in Position /\ SummaryOf(open(d)) = line(d)
  <2>1. SUFFICES ASSUME NEW d \in Direction, HasOpen(d)
                 PROVE  open(d) \in Position /\ SummaryOf(open(d)) = line(d)
    OBVIOUS
  <2>2. ledgers[d] \in LedgerRecord
    BY <2>1 DEF IInv, TypeOK, HasOpen
  <2> QED  BY <2>2, ToModelType DEF ToModel, SummaryOf
<1>6. \A d \in Direction : OpenPosition(d) = IF HasOpen(d) THEN <<open(d)>> ELSE <<>>
  BY DEF OpenPosition
<1> HIDE DEF open, held
<1>7. Summary(positions)' = Summary(positions) \o Book!Report("open", held)
  <2>1. \A ps : positions' = ps => Summary(positions)' = Summary(ps)
    BY DEF Summary
  <2>2. CASE ~HasOpen("long") /\ ~HasOpen("short")
    <3>1. positions' = positions
      BY <1>1, <1>2, <1>6, <2>2, ConcatEmptySeq
    <3>2. held = {}
      BY <1>2, <1>3, <2>2
    <3> QED  BY <1>1, <2>1, <3>1, <3>2, ReportFacts
  <2>3. CASE HasOpen("long") /\ ~HasOpen("short")
    <3>1. PICK pos \in Position : pos = open("long") /\ SummaryOf(pos) = line("long")
      BY <1>2, <1>5, <2>3
    <3>2. positions' = Append(positions, pos)
      <4>1. positions' = Append(positions, pos) \o <<>>
        BY <1>1, <1>2, <1>6, <2>3, <3>1, ConcatOne
      <4>2. Append(positions, pos) \in Seq(Position)
        BY <1>1, <3>1, AppendFacts
      <4> QED  BY <4>1, <4>2, ConcatEmptySeq
    <3>3. held = {"long"}
      BY <1>2, <1>3, <2>3
    <3>4. Summary(positions)' = Append(Summary(positions), line("long"))
      BY <1>1, <2>1, <3>1, <3>2, SummaryAppend
    <3> QED  BY <1>1, <1>2, <1>4, <3>3, <3>4, ReportFacts
  <2>4. CASE ~HasOpen("long") /\ HasOpen("short")
    <3>1. PICK pos \in Position : pos = open("short") /\ SummaryOf(pos) = line("short")
      BY <1>2, <1>5, <2>4
    <3>2. positions' = Append(positions, pos)
      <4>1. positions' = positions \o <<>> \o <<pos>>
        BY <1>1, <1>2, <1>6, <2>4, <3>1
      <4> QED  BY <1>1, <3>1, <4>1, ConcatEmptySeq, ConcatOne
    <3>3. held = {"short"}
      BY <1>2, <1>3, <2>4
    <3>4. Summary(positions)' = Append(Summary(positions), line("short"))
      BY <1>1, <2>1, <3>1, <3>2, SummaryAppend
    <3> QED  BY <1>1, <1>2, <1>4, <3>3, <3>4, ReportFacts
  <2>5. CASE HasOpen("long") /\ HasOpen("short")
    <3>1. PICK first \in Position : first = open("long") /\ SummaryOf(first) = line("long")
      BY <1>2, <1>5, <2>5
    <3>2. PICK second \in Position : second = open("short") /\ SummaryOf(second) = line("short")
      BY <1>2, <1>5, <2>5
    <3>3. PICK ps \in Seq(Position) : ps = Append(positions, first)
      BY <1>1, <3>1, AppendFacts
    <3>4. positions' = Append(ps, second)
      <4>1. positions' = positions \o <<first>> \o <<second>>
        BY <1>1, <1>2, <1>6, <2>5, <3>1, <3>2
      <4>2. positions \o <<first>> = ps
        BY <1>1, <3>3, ConcatOne
      <4> QED  BY <4>1, <4>2, ConcatOne
    <3>5. held = Direction
      BY <1>2, <1>3, <2>5
    <3>6. /\ Summary(ps) = Append(Summary(positions), line("long"))
          /\ Summary(positions)' = Append(Summary(ps), line("short"))
      BY <1>1, <2>1, <3>1, <3>2, <3>3, <3>4, SummaryAppend
    <3> QED  BY <1>1, <1>4, <3>5, <3>6, ReportFacts
  <2> QED  BY <2>2, <2>3, <2>4, <2>5
<1>8. [d \in Direction |-> OpenVolume(d)]' = [d \in Direction |-> OpenVolume(d)]
  BY DEF Finish, OpenVolume
<1>9. ~done /\ done' = TRUE /\ deals' = deals
  BY DEF Finish
<1> QED  BY <1>7, <1>8, <1>9 DEF held, Book!Settle, Book!Direction, Direction

\* Every step of the walk is a move of the hedge book, and a stutter is a stutter.
LEMMA NextBooks ==
  ASSUME IInv, [Next]_vars
  PROVE  [Book!BookNext]_(Book!bookVars)
<1>1. ASSUME NEW deal \in Deals, Book!Book(deal)
      PROVE  Book!BookNext
  BY <1>1 DEF Book!BookNext
<1>2. ASSUME NEW deal \in Deals, SkipUnknownSide(deal)
      PROVE  Book!Book(deal)
  <2>1. "long" \in Direction
    BY DEF Direction
  <2> QED  BY <1>2, <2>1, SkipBooks
<1>3. CASE UNCHANGED vars
  BY <1>3 DEF vars, Book!bookVars, OpenVolume, Summary
<1>4. CASE Finish
  BY <1>4, FinishSettles DEF Book!BookNext
<1> QED  BY <1>1, <1>2, <1>3, <1>4, SkipBooks, EnterBooks, ExitInPartBooks, ExitAllBooks
         DEF Next

\* The reconstructor keeps the promise of the hedge book (_reconstruct_positions).
THEOREM ImplementsBook == Spec => ImplementsHedgeBook
<1>1. IInv /\ [Next]_vars => [Book!BookNext]_(Book!bookVars)
  BY NextBooks
<1> QED  BY <1>1, InitBook, Invariant, PTL DEF Spec, Book!BookSpec, ImplementsHedgeBook

-----------------------------------------------------------------------------
(* The figures: what a taken deal adds to the sums over the deals.         *)

\* Sets of deals are finite.
LEMMA DealSetsFinite ==
  ASSUME TypeOK, NEW S, S \subseteq Indices
  PROVE  IsFiniteSet(S)
<1>1. 1 \in Int /\ Len(deals) \in Int
  BY DEF TypeOK
<1>2. IsFiniteSet(Indices)
  BY <1>1, FS_Interval DEF Indices
<1> QED  BY <1>2, FS_Subset

\* A sum over old deals keeps its value, and a new deal adds its own.
LEMMA SumGrows ==
  ASSUME TypeOK, NEW deal \in Deals, Take(deal), NEW S, S \subseteq Indices,
         NEW f, NEW g, NEW v \in Int, \A k \in Indices : f[k] \in Int /\ g[k] = f[k],
         g[This] = v
  PROVE  /\ SumFunctionOnSet(f, S) \in Int
         /\ SumFunctionOnSet(g, S) = SumFunctionOnSet(f, S)
         /\ SumFunctionOnSet(g, S \cup {This}) = SumFunctionOnSet(f, S) + v
<1>1. IsFiniteSet(S) /\ This \notin S
  BY DealSetsFinite, Taken
<1>2. /\ SumFunctionOnSet(f, S) \in Int
      /\ SumFunctionOnSet(g, S) = SumFunctionOnSet(f, S)
  BY <1>1, SumType, SumSame
<1>3. \A k \in S \cup {This} : g[k] \in Int
  OBVIOUS
<1>4. SumFunctionOnSet(g, S \cup {This}) = SumFunctionOnSet(g, S) + g[This]
  BY <1>1, <1>3, SumAddOne
<1> QED  BY <1>2, <1>4

\* The four figures of a deal.
LEMMA FigureTypes ==
  ASSUME TypeOK
  PROVE  \A k \in Indices : /\ Vol[k] = deals[k].vol /\ Vol[k] \in Int
                            /\ Worth[k] = deals[k].vol * deals[k].price /\ Worth[k] \in Int
                            /\ Fee[k] = Abs(deals[k].fee) /\ Fee[k] \in Nat
                            /\ Profit[k] = deals[k].profit /\ Profit[k] \in Int
<1>1. SUFFICES ASSUME NEW k \in Indices
               PROVE  /\ Vol[k] = deals[k].vol /\ Vol[k] \in Int
                      /\ Worth[k] = deals[k].vol * deals[k].price /\ Worth[k] \in Int
                      /\ Fee[k] = Abs(deals[k].fee) /\ Fee[k] \in Nat
                      /\ Profit[k] = deals[k].profit /\ Profit[k] \in Int
  OBVIOUS
<1>2. PICK deal \in Deals : deal = deals[k]
  BY DEF TypeOK, Indices
<1>3. deal.vol \in Int /\ deal.price \in Int /\ deal.profit \in Int /\ Abs(deal.fee) \in Nat
  BY DealTypes
<1>4. deal.vol * deal.price \in Int
  BY <1>3
<1> QED  BY <1>2, <1>3, <1>4 DEF Vol, Worth, Fee, Profit

\* What a taken deal does to them.
LEMMA FiguresTaken ==
  ASSUME TypeOK, NEW deal \in Deals, Take(deal)
  PROVE  /\ \A k \in Indices : /\ Vol'[k] = Vol[k] /\ Worth'[k] = Worth[k]
                               /\ Fee'[k] = Fee[k] /\ Profit'[k] = Profit[k]
         /\ Vol'[This] = deal.vol /\ Worth'[This] = deal.vol * deal.price
         /\ Fee'[This] = Abs(deal.fee) /\ Profit'[This] = deal.profit
BY Taken DEF Vol, Worth, Fee, Profit

\* The sums over some deals, before and after a deal is taken.
LEMMA SumsGrow ==
  ASSUME TypeOK, NEW deal \in Deals, Take(deal), NEW S, S \subseteq Indices
  PROVE  /\ /\ SumFunctionOnSet(Vol, S) \in Int
            /\ SumFunctionOnSet(Vol', S) = SumFunctionOnSet(Vol, S)
            /\ SumFunctionOnSet(Vol', S \cup {This}) = SumFunctionOnSet(Vol, S) + deal.vol
         /\ /\ SumFunctionOnSet(Worth, S) \in Int
            /\ SumFunctionOnSet(Worth', S) = SumFunctionOnSet(Worth, S)
            /\ SumFunctionOnSet(Worth', S \cup {This}) =
                 SumFunctionOnSet(Worth, S) + deal.vol * deal.price
         /\ /\ SumFunctionOnSet(Fee, S) \in Int
            /\ SumFunctionOnSet(Fee', S) = SumFunctionOnSet(Fee, S)
            /\ SumFunctionOnSet(Fee', S \cup {This}) = SumFunctionOnSet(Fee, S) + Abs(deal.fee)
         /\ /\ SumFunctionOnSet(Profit, S) \in Int
            /\ SumFunctionOnSet(Profit', S) = SumFunctionOnSet(Profit, S)
            /\ SumFunctionOnSet(Profit', S \cup {This}) = SumFunctionOnSet(Profit, S) + deal.profit
<1>1. /\ deal.vol \in Int /\ deal.price \in Int /\ Abs(deal.fee) \in Int /\ deal.profit \in Int
  BY DealTypes
<1>2. deal.vol * deal.price \in Int
  BY <1>1
<1>3. \A k \in Indices : /\ Vol[k] \in Int /\ Worth[k] \in Int
                         /\ Fee[k] \in Int /\ Profit[k] \in Int
  BY FigureTypes
<1>4. /\ SumFunctionOnSet(Vol, S) \in Int
      /\ SumFunctionOnSet(Vol', S) = SumFunctionOnSet(Vol, S)
      /\ SumFunctionOnSet(Vol', S \cup {This}) = SumFunctionOnSet(Vol, S) + deal.vol
  <2>1. PICK f, g, v : f = Vol /\ g = Vol' /\ v = deal.vol
    OBVIOUS
  <2>2. v \in Int /\ g[This] = v /\ \A k \in Indices : f[k] \in Int /\ g[k] = f[k]
    BY <1>1, <1>3, <2>1, FiguresTaken
  <2>3. /\ SumFunctionOnSet(f, S) \in Int /\ SumFunctionOnSet(g, S) = SumFunctionOnSet(f, S)
        /\ SumFunctionOnSet(g, S \cup {This}) = SumFunctionOnSet(f, S) + v
    BY <2>2, SumGrows
  <2> QED  BY <2>1, <2>3
<1>5. /\ SumFunctionOnSet(Worth, S) \in Int
      /\ SumFunctionOnSet(Worth', S) = SumFunctionOnSet(Worth, S)
      /\ SumFunctionOnSet(Worth', S \cup {This}) =
           SumFunctionOnSet(Worth, S) + deal.vol * deal.price
  <2>1. PICK f, g, v : f = Worth /\ g = Worth' /\ v = deal.vol * deal.price
    OBVIOUS
  <2>2. v \in Int /\ g[This] = v /\ \A k \in Indices : f[k] \in Int /\ g[k] = f[k]
    BY <1>2, <1>3, <2>1, FiguresTaken
  <2>3. /\ SumFunctionOnSet(f, S) \in Int /\ SumFunctionOnSet(g, S) = SumFunctionOnSet(f, S)
        /\ SumFunctionOnSet(g, S \cup {This}) = SumFunctionOnSet(f, S) + v
    BY <2>2, SumGrows
  <2> QED  BY <2>1, <2>3
<1>6. /\ SumFunctionOnSet(Fee, S) \in Int
      /\ SumFunctionOnSet(Fee', S) = SumFunctionOnSet(Fee, S)
      /\ SumFunctionOnSet(Fee', S \cup {This}) = SumFunctionOnSet(Fee, S) + Abs(deal.fee)
  <2>1. PICK f, g, v : f = Fee /\ g = Fee' /\ v = Abs(deal.fee)
    OBVIOUS
  <2>2. v \in Int /\ g[This] = v /\ \A k \in Indices : f[k] \in Int /\ g[k] = f[k]
    BY <1>1, <1>3, <2>1, FiguresTaken
  <2>3. /\ SumFunctionOnSet(f, S) \in Int /\ SumFunctionOnSet(g, S) = SumFunctionOnSet(f, S)
        /\ SumFunctionOnSet(g, S \cup {This}) = SumFunctionOnSet(f, S) + v
    BY <2>2, SumGrows
  <2> QED  BY <2>1, <2>3
<1>7. /\ SumFunctionOnSet(Profit, S) \in Int
      /\ SumFunctionOnSet(Profit', S) = SumFunctionOnSet(Profit, S)
      /\ SumFunctionOnSet(Profit', S \cup {This}) = SumFunctionOnSet(Profit, S) + deal.profit
  <2>1. PICK f, g, v : f = Profit /\ g = Profit' /\ v = deal.profit
    OBVIOUS
  <2>2. v \in Int /\ g[This] = v /\ \A k \in Indices : f[k] \in Int /\ g[k] = f[k]
    BY <1>1, <1>3, <2>1, FiguresTaken
  <2>3. /\ SumFunctionOnSet(f, S) \in Int /\ SumFunctionOnSet(g, S) = SumFunctionOnSet(f, S)
        /\ SumFunctionOnSet(g, S \cup {This}) = SumFunctionOnSet(f, S) + v
    BY <2>2, SumGrows
  <2> QED  BY <2>1, <2>3
<1> QED  BY <1>4, <1>5, <1>6, <1>7

\* Taking a deal changes neither the entries nor the exits among the deals before it.
LEMMA PartsStable ==
  ASSUME TypeOK, NEW deal \in Deals, Take(deal), NEW links, links \subseteq Indices, NEW d
  PROVE  /\ Entries(links, d) \subseteq Indices /\ Exits(links, d) \subseteq Indices
         /\ Entries(links, d)' = Entries(links, d) /\ Exits(links, d)' = Exits(links, d)
<1>1. \A k \in links : deals'[k] = deals[k]
  BY Taken
<1>2. Entries(links, d)' = Entries(links, d) /\ Entries(links, d) \subseteq links
  BY <1>1 DEF Entries
<1> QED  BY <1>2 DEF Exits

\* An entry is one more of the entries.
LEMMA PartsOfEntry ==
  ASSUME TypeOK, NEW deal \in Deals, Take(deal), NEW links, links \subseteq Indices, NEW d,
         NEW more, more = links \cup {This}, deal.side = EntrySide(d)
  PROVE  /\ Entries(more, d)' = Entries(links, d) \cup {This}
         /\ Exits(more, d)' = Exits(links, d)
<1>1. /\ \A k \in links : deals'[k] = deals[k]
      /\ deals'[This] = deal /\ This \notin links
  BY Taken
<1>2. Entries(more, d)' = Entries(links, d) \cup {This}
  BY <1>1 DEF Entries
<1> QED  BY <1>1, <1>2 DEF Exits

\* An exit is one more of the exits.
LEMMA PartsOfExit ==
  ASSUME TypeOK, NEW deal \in Deals, Take(deal), NEW links, links \subseteq Indices, NEW d,
         NEW more, more = links \cup {This}, deal.side # EntrySide(d)
  PROVE  /\ Entries(more, d)' = Entries(links, d)
         /\ Exits(more, d)' = Exits(links, d) \cup {This}
<1>1. /\ \A k \in links : deals'[k] = deals[k]
      /\ deals'[This] = deal /\ This \notin links
  BY Taken
<1>2. Entries(more, d)' = Entries(links, d) /\ Entries(links, d) \subseteq links
  BY <1>1 DEF Entries
<1> QED  BY <1>1, <1>2 DEF Exits

\* What adds up still does after a deal was taken.
LEMMA AddsUpStable ==
  ASSUME TypeOK, NEW deal \in Deals, Take(deal), NEW r, NEW d, r.links \subseteq Indices,
         AddsUp(r, d)
  PROVE  AddsUp(r, d)'
<1>2. PICK links : links = r.links
  OBVIOUS
<1>3. PICK entries, exits : entries = Entries(links, d) /\ exits = Exits(links, d)
  OBVIOUS
<1>4. /\ entries \subseteq Indices /\ exits \subseteq Indices
      /\ Entries(links, d)' = entries /\ Exits(links, d)' = exits
  BY <1>2, <1>3, PartsStable
<1>5. /\ SumFunctionOnSet(Vol', entries) = SumFunctionOnSet(Vol, entries)
      /\ SumFunctionOnSet(Worth', entries) = SumFunctionOnSet(Worth, entries)
      /\ SumFunctionOnSet(Fee', links) = SumFunctionOnSet(Fee, links)
      /\ SumFunctionOnSet(Profit', exits) = SumFunctionOnSet(Profit, exits)
  BY <1>2, <1>4, SumsGrow
<1> QED  BY <1>2, <1>3, <1>4, <1>5 DEF AddsUp

\* The same of a position, which the warning of a later deal does not concern.
LEMMA PositionAddsUpStable ==
  ASSUME TypeOK, NEW deal \in Deals, Take(deal), clamped \subseteq clamped',
         clamped' \subseteq clamped \cup {This}, NEW pos, pos.links \subseteq Indices,
         PositionAddsUp(pos)
  PROVE  PositionAddsUp(pos)'
<1>1. AddsUp(pos, pos.direction)'
  <2>1. PICK d : d = pos.direction
    OBVIOUS
  <2>2. AddsUp(pos, d)'
    BY <2>1, AddsUpStable DEF PositionAddsUp
  <2> QED  BY <2>1, <2>2
<1>2. PICK exits : exits = Exits(pos.links, pos.direction)
  OBVIOUS
<1>3. exits \subseteq Indices /\ Exits(pos.links, pos.direction)' = exits
  <2>1. PICK d, links : d = pos.direction /\ links = pos.links
    OBVIOUS
  <2>2. Exits(links, d) \subseteq Indices /\ Exits(links, d)' = Exits(links, d)
    BY <1>1, <2>1, PartsStable
  <2> QED  BY <1>2, <2>1, <2>2
<1>4. /\ SumFunctionOnSet(Vol', exits) = SumFunctionOnSet(Vol, exits)
      /\ SumFunctionOnSet(Worth', exits) = SumFunctionOnSet(Worth, exits)
  BY <1>3, SumsGrow
<1>5. This \notin pos.links
  BY Taken
<1>6. pos.links \cap clamped' = pos.links \cap clamped
  BY <1>5
<1>7. ASSUME NEW last, pos.links \cap clamped = {last} PROVE deals'[last] = deals[last]
  BY <1>7, Taken
<1> QED  BY <1>1, <1>2, <1>3, <1>4, <1>6, <1>7 DEF PositionAddsUp

\* The same of the ledger of the direction that the deal is not of.
LEMMA LedgerAddsUpStable ==
  ASSUME IInv, NEW deal \in Deals, Take(deal), clamped' \subseteq clamped \cup {This},
         NEW d \in Direction, ledgers'[d] = ledgers[d], LedgerAddsUp(d)
  PROVE  LedgerAddsUp(d)'
<1>1. SUFFICES ASSUME ledgers[d] # NoLedger PROVE LedgerAddsUp(d)'
  BY DEF LedgerAddsUp
<1>2. TypeOK
  BY DEF IInv
<1>3. PICK l, links : l = ledgers[d] /\ links = l.links
  OBVIOUS
<1>4. links \subseteq Indices
  BY <1>1, <1>3 DEF IInv, LedgerOK, LinksOK
<1>5. AddsUp(l, d)'
  <2>1. AddsUp(l, d)
    BY <1>1, <1>3 DEF LedgerAddsUp
  <2> QED  BY <1>2, <1>3, <1>4, <2>1, AddsUpStable
<1>6. PICK exits : exits = Exits(links, d)
  OBVIOUS
<1>7. exits \subseteq Indices /\ Exits(links, d)' = exits
  BY <1>2, <1>4, <1>6, PartsStable
<1>8. /\ SumFunctionOnSet(Vol', exits) = SumFunctionOnSet(Vol, exits)
      /\ SumFunctionOnSet(Worth', exits) = SumFunctionOnSet(Worth, exits)
  BY <1>2, <1>7, SumsGrow
<1>9. links \cap clamped' = {}
  BY <1>1, <1>2, <1>3, <1>4, Taken DEF LedgerAddsUp
<1>10. /\ l.closed = SumFunctionOnSet(Vol, exits)
       /\ l.exitCost = SumFunctionOnSet(Worth, exits)
  BY <1>1, <1>3, <1>6 DEF LedgerAddsUp
<1> QED  BY <1>3, <1>5, <1>6, <1>7, <1>8, <1>9, <1>10 DEF LedgerAddsUp

-----------------------------------------------------------------------------
(* The figures: what entries and exits do to those of a ledger.            *)

\* The figures of a ledger after an entry.
LEMMA AddEntryFigures ==
  ASSUME NEW deal, NEW n, NEW l \in LedgerRecord
  PROVE  /\ AddEntry(l, deal, n).total = l.total + deal.vol
         /\ AddEntry(l, deal, n).cost = l.cost + deal.price * deal.vol
         /\ AddEntry(l, deal, n).fees = l.fees + Abs(deal.fee)
         /\ AddEntry(l, deal, n).pnl = l.pnl
         /\ AddEntry(l, deal, n).closed = l.closed
         /\ AddEntry(l, deal, n).exitCost = l.exitCost
         /\ AddEntry(l, deal, n).links = l.links \cup {n}
BY DEF AddEntry, LedgerRecord

\* The figures of a ledger after an exit.
LEMMA AddExitFigures ==
  ASSUME NEW deal, NEW n, NEW l \in LedgerRecord
  PROVE  /\ AddExit(l, deal, n).total = l.total
         /\ AddExit(l, deal, n).cost = l.cost
         /\ AddExit(l, deal, n).fees = l.fees + Abs(deal.fee)
         /\ AddExit(l, deal, n).pnl = l.pnl + deal.profit
         /\ AddExit(l, deal, n).closed = l.closed + Applied(l, deal)
         /\ AddExit(l, deal, n).exitCost = l.exitCost + deal.price * Applied(l, deal)
         /\ AddExit(l, deal, n).links = l.links \cup {n}
BY DEF AddExit, LedgerRecord

\* An entry keeps the figures of its ledger those of the links.
LEMMA EntryAddsUp ==
  ASSUME TypeOK, NEW deal \in Deals, Take(deal), NEW n, n = This, NEW d \in Direction,
         deal.side = EntrySide(d), NEW old \in LedgerRecord, old.links \subseteq Indices,
         AddsUp(old, d), NEW l, l = AddEntry(old, deal, n)
  PROVE  /\ AddsUp(l, d)'
         /\ Exits(l.links, d)' = Exits(old.links, d)
<1>1. PICK links, entries, exits :
        links = old.links /\ entries = Entries(links, d) /\ exits = Exits(links, d)
  OBVIOUS
<1>2. /\ entries \subseteq Indices /\ exits \subseteq Indices
      /\ Entries(links \cup {n}, d)' = entries \cup {n} /\ Exits(links \cup {n}, d)' = exits
  <2>1. PICK more : more = links \cup {This} /\ links \subseteq Indices
    BY <1>1
  <2>2. Entries(links, d) \subseteq Indices /\ Exits(links, d) \subseteq Indices
    BY <2>1, PartsStable
  <2>3. /\ Entries(more, d)' = Entries(links, d) \cup {This}
        /\ Exits(more, d)' = Exits(links, d)
    BY <2>1, PartsOfEntry
  <2> QED  BY <1>1, <2>1, <2>2, <2>3
<1>3. /\ SumFunctionOnSet(Vol', entries \cup {n}) = SumFunctionOnSet(Vol, entries) + deal.vol
      /\ SumFunctionOnSet(Worth', entries \cup {n}) =
           SumFunctionOnSet(Worth, entries) + deal.vol * deal.price
      /\ SumFunctionOnSet(Profit', exits) = SumFunctionOnSet(Profit, exits)
  BY <1>2, SumsGrow
<1>4. SumFunctionOnSet(Fee', links \cup {n}) = SumFunctionOnSet(Fee, links) + Abs(deal.fee)
  BY <1>1, SumsGrow
<1>5. deal.vol * deal.price = deal.price * deal.vol
  BY DealTypes
<1>6. /\ l.links = links \cup {n} /\ l.pnl = old.pnl
      /\ l.total = old.total + deal.vol /\ l.cost = old.cost + deal.price * deal.vol
      /\ l.fees = old.fees + Abs(deal.fee)
  BY <1>1, AddEntryFigures
<1>7. /\ old.total = SumFunctionOnSet(Vol, entries) /\ old.cost = SumFunctionOnSet(Worth, entries)
      /\ old.fees = SumFunctionOnSet(Fee, links) /\ old.pnl = SumFunctionOnSet(Profit, exits)
  BY <1>1 DEF AddsUp
<1>8. /\ l.total = SumFunctionOnSet(Vol', entries \cup {n})
      /\ l.cost = SumFunctionOnSet(Worth', entries \cup {n})
      /\ l.fees = SumFunctionOnSet(Fee', links \cup {n})
      /\ l.pnl = SumFunctionOnSet(Profit', exits)
  BY <1>3, <1>4, <1>5, <1>6, <1>7
<1> QED  BY <1>1, <1>2, <1>6, <1>8 DEF AddsUp

\* The entry that opens a ledger.
LEMMA FirstEntryAddsUp ==
  ASSUME TypeOK, NEW deal \in Deals, Take(deal), NEW n, n = This, NEW d \in Direction,
         deal.side = EntrySide(d), NEW l, l = NewLedger(deal, n)
  PROVE  /\ AddsUp(l, d)' /\ Exits(l.links, d)' = {}
         /\ l.closed = 0 /\ l.exitCost = 0 /\ l.links = {n}
<1>1. PICK none : none = {}
  OBVIOUS
<1>2. Entries(none, d) = {} /\ Exits(none, d) = {}
  BY <1>1 DEF Entries, Exits
<1>3. /\ Entries(none \cup {n}, d)' = {n} /\ Exits(none \cup {n}, d)' = {}
  <2>1. PICK more : more = none \cup {This} /\ none \subseteq Indices
    BY <1>1
  <2>2. /\ Entries(more, d)' = Entries(none, d) \cup {This}
        /\ Exits(more, d)' = Exits(none, d)
    BY <2>1, PartsOfEntry
  <2> QED  BY <1>2, <2>1, <2>2
<1>4. /\ SumFunctionOnSet(Vol', none \cup {n}) = 0 + deal.vol
      /\ SumFunctionOnSet(Worth', none \cup {n}) = 0 + deal.vol * deal.price
      /\ SumFunctionOnSet(Fee', none \cup {n}) = 0 + Abs(deal.fee)
      /\ SumFunctionOnSet(Profit', none) = 0
  <2>1. none \subseteq Indices
    BY <1>1
  <2>2. /\ SumFunctionOnSet(Vol, none) = 0 /\ SumFunctionOnSet(Worth, none) = 0
        /\ SumFunctionOnSet(Fee, none) = 0 /\ SumFunctionOnSet(Profit', none) = 0
    BY <1>1, SumEmpty
  <2>3. /\ SumFunctionOnSet(Vol', none \cup {n}) = SumFunctionOnSet(Vol, none) + deal.vol
        /\ SumFunctionOnSet(Worth', none \cup {n}) =
             SumFunctionOnSet(Worth, none) + deal.vol * deal.price
        /\ SumFunctionOnSet(Fee', none \cup {n}) = SumFunctionOnSet(Fee, none) + Abs(deal.fee)
    BY <2>1, SumsGrow
  <2> QED  BY <2>2, <2>3
<1>5. /\ deal.vol * deal.price = deal.price * deal.vol /\ deal.vol * deal.price \in Int
      /\ deal.vol \in Int /\ Abs(deal.fee) \in Int
  BY DealTypes
<1>6. /\ l.links = none \cup {n} /\ l.pnl = 0 /\ l.total = deal.vol
      /\ l.cost = deal.price * deal.vol /\ l.fees = Abs(deal.fee)
      /\ l.closed = 0 /\ l.exitCost = 0
  BY <1>1 DEF NewLedger
<1>7. /\ l.total = SumFunctionOnSet(Vol', {n}) /\ l.cost = SumFunctionOnSet(Worth', {n})
      /\ l.fees = SumFunctionOnSet(Fee', none \cup {n}) /\ l.pnl = SumFunctionOnSet(Profit', {})
  BY <1>1, <1>4, <1>5, <1>6
<1> QED  BY <1>1, <1>3, <1>6, <1>7 DEF AddsUp

\* An exit does, and what it offers counts up to the open volume.
LEMMA ExitAddsUp ==
  ASSUME TypeOK, NEW deal \in Deals, Take(deal), NEW n, n = This, NEW d \in Direction,
         deal.side = ExitSide(d), NEW old \in LedgerRecord, old.links \subseteq Indices,
         AddsUp(old, d), NEW l, l = AddExit(old, deal, n),
         NEW exits, exits = Exits(old.links, d),
         NEW more, more = exits \cup {n}
  PROVE  /\ AddsUp(l, d)'
         /\ Exits(l.links, d)' = more
         /\ SumFunctionOnSet(Vol', more) = SumFunctionOnSet(Vol, exits) + deal.vol
         /\ SumFunctionOnSet(Worth', more) = SumFunctionOnSet(Worth, exits) + deal.vol * deal.price
         /\ SumFunctionOnSet(Vol, exits) \in Int /\ SumFunctionOnSet(Worth, exits) \in Int
<1>1. PICK links, entries : links = old.links /\ entries = Entries(links, d)
  OBVIOUS
<1>2. deal.side # EntrySide(d)
  BY SideFacts
<1>3. /\ entries \subseteq Indices /\ exits \subseteq Indices
      /\ Entries(links \cup {n}, d)' = entries /\ Exits(links \cup {n}, d)' = exits \cup {n}
  <2>1. PICK grown : grown = links \cup {This} /\ links \subseteq Indices
    BY <1>1
  <2>2. Entries(links, d) \subseteq Indices /\ Exits(links, d) \subseteq Indices
    BY <2>1, PartsStable
  <2>3. /\ Entries(grown, d)' = Entries(links, d)
        /\ Exits(grown, d)' = Exits(links, d) \cup {This}
    BY <1>2, <2>1, PartsOfExit
  <2> QED  BY <1>1, <2>1, <2>2, <2>3
<1>4. /\ SumFunctionOnSet(Vol', entries) = SumFunctionOnSet(Vol, entries)
      /\ SumFunctionOnSet(Worth', entries) = SumFunctionOnSet(Worth, entries)
      /\ SumFunctionOnSet(Profit', exits \cup {n}) = SumFunctionOnSet(Profit, exits) + deal.profit
      /\ SumFunctionOnSet(Vol', exits \cup {n}) = SumFunctionOnSet(Vol, exits) + deal.vol
      /\ SumFunctionOnSet(Worth', exits \cup {n}) =
           SumFunctionOnSet(Worth, exits) + deal.vol * deal.price
      /\ SumFunctionOnSet(Vol, exits) \in Int /\ SumFunctionOnSet(Worth, exits) \in Int
  BY <1>3, SumsGrow
<1>5. SumFunctionOnSet(Fee', links \cup {n}) = SumFunctionOnSet(Fee, links) + Abs(deal.fee)
  BY <1>1, SumsGrow
<1>6. /\ l.links = links \cup {n} /\ l.total = old.total /\ l.cost = old.cost
      /\ l.pnl = old.pnl + deal.profit /\ l.fees = old.fees + Abs(deal.fee)
  BY <1>1, AddExitFigures
<1>7. /\ old.total = SumFunctionOnSet(Vol, entries) /\ old.cost = SumFunctionOnSet(Worth, entries)
      /\ old.fees = SumFunctionOnSet(Fee, links) /\ old.pnl = SumFunctionOnSet(Profit, exits)
  BY <1>1 DEF AddsUp
<1>8. /\ l.total = SumFunctionOnSet(Vol', entries)
      /\ l.cost = SumFunctionOnSet(Worth', entries)
      /\ l.fees = SumFunctionOnSet(Fee', links \cup {n})
      /\ l.pnl = SumFunctionOnSet(Profit', exits \cup {n})
  BY <1>4, <1>5, <1>6, <1>7
<1>9. AddsUp(l, d)'
  BY <1>3, <1>6, <1>8 DEF AddsUp
<1> QED  BY <1>3, <1>4, <1>6, <1>9

-----------------------------------------------------------------------------
(* The figures: their invariant, step by step.                             *)

\* Positions and the ledgers of other directions keep adding up.
LEMMA FiguresStable ==
  ASSUME FiguresInv, NEW deal \in Deals, Take(deal), clamped \subseteq clamped',
         clamped' \subseteq clamped \cup {This}
  PROVE  /\ \A p \in DOMAIN positions : \A pos : pos = positions[p] => PositionAddsUp(pos)'
         /\ \A d \in Direction : ledgers'[d] = ledgers[d] => LedgerAddsUp(d)'
<1>1. IInv /\ TypeOK
  BY DEF FiguresInv, IInv
<1>2. ASSUME NEW p \in DOMAIN positions, NEW pos, pos = positions[p]
      PROVE  PositionAddsUp(pos)'
  <2>1. pos.links \subseteq Indices /\ PositionAddsUp(pos)
    BY <1>1, <1>2 DEF FiguresInv, FiguresFromLinks, IInv, PositionOK, LinksOK
  <2> QED  BY <1>1, <2>1, PositionAddsUpStable
<1>3. ASSUME NEW d \in Direction, ledgers'[d] = ledgers[d] PROVE LedgerAddsUp(d)'
  <2>1. LedgerAddsUp(d)
    BY DEF FiguresInv
  <2> QED  BY <1>1, <1>3, <2>1, LedgerAddsUpStable
<1> QED  BY <1>2, <1>3

\* A position of the new state adds up if it did under a name of its own.
LEMMA PositionNamed ==
  ASSUME NEW p, NEW pos, pos = positions'[p], PositionAddsUp(pos)'
  PROVE  PositionAddsUp(positions[p])'
BY DEF PositionAddsUp, AddsUp, Entries, Exits

\* A skipped deal leaves the figures alone.
LEMMA SkipFigures ==
  ASSUME FiguresInv, NEW deal \in Deals, Take(deal), Skip
  PROVE  FiguresFromLinks' /\ \A d \in Direction : LedgerAddsUp(d)'
<1>1. ledgers' = ledgers /\ positions' = positions /\ clamped' = clamped
  BY DEF Skip
<1>2. /\ \A p \in DOMAIN positions : \A pos : pos = positions[p] => PositionAddsUp(pos)'
      /\ \A d \in Direction : LedgerAddsUp(d)'
  BY <1>1, FiguresStable
<1>3. ASSUME NEW p \in DOMAIN positions' PROVE PositionAddsUp(positions[p])'
  <2>1. PICK pos : pos = positions[p]
    OBVIOUS
  <2>2. PositionAddsUp(pos)' /\ pos = positions'[p]
    BY <1>1, <1>2, <1>3, <2>1
  <2> QED  BY <2>2, PositionNamed
<1> QED  BY <1>2, <1>3 DEF FiguresFromLinks

\* The links of a ledger are deals.
LEMMA LedgerFacts ==
  ASSUME IInv, NEW d \in Direction, ledgers[d] # NoLedger
  PROVE  \E old \in LedgerRecord :
           /\ old = ledgers[d] /\ old.links \subseteq Indices
           /\ old.open \in Nat /\ old.open > 0 /\ old.closed \in Nat
<1>1. PICK old \in LedgerRecord : old = ledgers[d]
  BY DEF IInv, TypeOK
<1>2. old.links \subseteq Indices /\ old.open > 0
  BY <1>1 DEF IInv, LedgerOK, LinksOK, VolumesBalance
<1>3. old.open \in Nat /\ old.closed \in Nat
  BY DEF LedgerRecord
<1> QED  BY <1>1, <1>2, <1>3

\* A ledger that takes the deal and is kept.
LEMMA KeepFigures ==
  ASSUME FiguresInv, NEW deal \in Deals, Take(deal), NEW d \in Direction, NEW l,
         ledgers' = [ledgers EXCEPT ![d] = l], positions' = positions, clamped' = clamped,
         AddsUp(l, d)', NEW exits, Exits(l.links, d)' = exits,
         l.closed = SumFunctionOnSet(Vol', exits), l.exitCost = SumFunctionOnSet(Worth', exits),
         l.links \cap clamped = {}
  PROVE  FiguresFromLinks' /\ \A e \in Direction : LedgerAddsUp(e)'
<1>1. /\ \A p \in DOMAIN positions : \A pos : pos = positions[p] => PositionAddsUp(pos)'
      /\ \A e \in Direction : ledgers'[e] = ledgers[e] => LedgerAddsUp(e)'
  BY FiguresStable
<1>2. ASSUME NEW p \in DOMAIN positions' PROVE PositionAddsUp(positions[p])'
  <2>1. PICK pos : pos = positions[p]
    OBVIOUS
  <2>2. PositionAddsUp(pos)' /\ pos = positions'[p]
    BY <1>1, <1>2, <2>1
  <2> QED  BY <2>2, PositionNamed
<1>3. /\ ledgers'[d] = l
      /\ \A e \in Direction : e # d => ledgers'[e] = ledgers[e]
  BY DEF FiguresInv, IInv, TypeOK
<1>4. LedgerAddsUp(d)'
  BY <1>3 DEF LedgerAddsUp
<1> QED  BY <1>1, <1>2, <1>3, <1>4 DEF FiguresFromLinks

\* An entry.
LEMMA EnterFigures ==
  ASSUME FiguresInv, NEW d \in Direction, NEW deal \in Deals, Enter(d, deal)
  PROVE  FiguresFromLinks' /\ \A e \in Direction : LedgerAddsUp(e)'
<1>1. /\ IInv /\ TypeOK /\ Take(deal) /\ deal.side = EntrySide(d)
      /\ positions' = positions /\ clamped' = clamped
  BY DEF FiguresInv, IInv, Enter
<1>2. PICK n : n = This
  OBVIOUS
<1>3. n \notin Indices /\ clamped \subseteq Indices
  BY <1>1, <1>2, Taken DEF TypeOK
<1>4. PICK l : l = IF ledgers[d] = NoLedger THEN NewLedger(deal, n)
                   ELSE AddEntry(ledgers[d], deal, n)
  OBVIOUS
<1>5. ledgers' = [ledgers EXCEPT ![d] = l]
  BY <1>2, <1>4 DEF Enter
<1>6. CASE ledgers[d] = NoLedger
  <2>1. /\ AddsUp(l, d)' /\ Exits(l.links, d)' = {}
        /\ l.closed = 0 /\ l.exitCost = 0 /\ l.links = {n}
    BY <1>1, <1>2, <1>4, <1>6, FirstEntryAddsUp
  <2>2. /\ l.closed = SumFunctionOnSet(Vol', {}) /\ l.exitCost = SumFunctionOnSet(Worth', {})
        /\ l.links \cap clamped = {}
    BY <1>3, <2>1, SumEmpty
  <2> QED  BY <1>1, <1>5, <2>1, <2>2, KeepFigures
<1>7. CASE ledgers[d] # NoLedger
  <2>1. PICK old \in LedgerRecord : old = ledgers[d] /\ old.links \subseteq Indices
    BY <1>1, <1>7, LedgerFacts
  <2>2. PICK exits : exits = Exits(old.links, d)
    OBVIOUS
  <2>3. /\ AddsUp(old, d) /\ old.closed = SumFunctionOnSet(Vol, exits)
        /\ old.exitCost = SumFunctionOnSet(Worth, exits) /\ old.links \cap clamped = {}
    BY <1>7, <2>1, <2>2 DEF FiguresInv, LedgerAddsUp
  <2>4. l = AddEntry(old, deal, n)
    BY <1>4, <1>7, <2>1
  <2>5. AddsUp(l, d)' /\ Exits(l.links, d)' = exits
    BY <1>1, <1>2, <2>1, <2>2, <2>3, <2>4, EntryAddsUp
  <2>6. l.closed = old.closed /\ l.exitCost = old.exitCost /\ l.links = old.links \cup {n}
    BY <2>4, AddEntryFigures
  <2>7. exits \subseteq Indices
    BY <2>1, <2>2 DEF Exits
  <2>8. /\ SumFunctionOnSet(Vol', exits) = SumFunctionOnSet(Vol, exits)
        /\ SumFunctionOnSet(Worth', exits) = SumFunctionOnSet(Worth, exits)
    BY <1>1, <2>7, SumsGrow
  <2>9. l.links \cap clamped = {}
    BY <1>3, <2>3, <2>6
  <2> QED  BY <1>1, <1>5, <2>3, <2>5, <2>6, <2>8, <2>9, KeepFigures
<1> QED  BY <1>6, <1>7

\* An exit that leaves a volume is applied in full.
LEMMA ExitInPartFigures ==
  ASSUME FiguresInv, NEW d \in Direction, NEW deal \in Deals, ExitInPart(d, deal)
  PROVE  FiguresFromLinks' /\ \A e \in Direction : LedgerAddsUp(e)'
<1>1. /\ IInv /\ TypeOK /\ Take(deal) /\ deal.side = ExitSide(d) /\ HasOpen(d)
      /\ deal.vol > 0 /\ deal.vol \in Nat /\ positions' = positions
      /\ AddExit(ledgers[d], deal, This).open # 0 /\ WarnExcess(d, deal)
      /\ ledgers' = [ledgers EXCEPT ![d] = AddExit(ledgers[d], deal, This)]
  BY DealTypes DEF FiguresInv, IInv, ExitInPart
<1>2. PICK n : n = This
  OBVIOUS
<1>3. n \notin Indices /\ n \in Nat /\ clamped \subseteq Indices
  BY <1>1, <1>2, Taken DEF TypeOK
<1>4. PICK old \in LedgerRecord : /\ old = ledgers[d] /\ old.links \subseteq Indices
                                 /\ old.open \in Nat
  BY <1>1, LedgerFacts DEF HasOpen
<1>5. PICK l : l = AddExit(old, deal, n)
  OBVIOUS
<1>6. deal.vol < old.open /\ Applied(old, deal) = deal.vol
  <2>1. /\ Applied(old, deal) = IF deal.vol < old.open THEN deal.vol ELSE old.open
        /\ l.open = old.open - Applied(old, deal)
    BY <1>1, <1>3, <1>5, AddExitType
  <2>2. l.open # 0
    BY <1>1, <1>2, <1>4, <1>5
  <2> QED  BY <1>1, <1>4, <2>1, <2>2
<1>7. clamped' = clamped
  <2>1. ~ (deal.vol > old.open)
    BY <1>1, <1>4, <1>6
  <2> QED  BY <1>1, <1>4, <2>1 DEF WarnExcess
<1>8. PICK exits : exits = Exits(old.links, d)
  OBVIOUS
<1>9. /\ AddsUp(old, d) /\ old.closed = SumFunctionOnSet(Vol, exits)
      /\ old.exitCost = SumFunctionOnSet(Worth, exits) /\ old.links \cap clamped = {}
  BY <1>1, <1>4, <1>8 DEF FiguresInv, LedgerAddsUp, HasOpen
<1>10. PICK more : more = exits \cup {n}
  OBVIOUS
<1>11. /\ AddsUp(l, d)' /\ Exits(l.links, d)' = more
       /\ SumFunctionOnSet(Vol', more) = SumFunctionOnSet(Vol, exits) + deal.vol
       /\ SumFunctionOnSet(Worth', more) = SumFunctionOnSet(Worth, exits) + deal.vol * deal.price
  BY <1>1, <1>2, <1>4, <1>5, <1>8, <1>9, <1>10, ExitAddsUp
<1>12. /\ l.closed = old.closed + deal.vol /\ l.exitCost = old.exitCost + deal.price * deal.vol
       /\ l.links = old.links \cup {n}
  BY <1>5, <1>6, AddExitFigures
<1>13. deal.price * deal.vol = deal.vol * deal.price
  BY DealTypes
<1>14. /\ l.closed = SumFunctionOnSet(Vol', more) /\ l.exitCost = SumFunctionOnSet(Worth', more)
       /\ l.links \cap clamped = {}
  BY <1>3, <1>9, <1>11, <1>12, <1>13
<1>15. ledgers' = [ledgers EXCEPT ![d] = l]
  BY <1>1, <1>2, <1>4, <1>5
<1> QED  BY <1>1, <1>7, <1>11, <1>14, <1>15, KeepFigures

-----------------------------------------------------------------------------
\* What a clamped exit costs: its whole price less that of the excess.
LEMMA ClampedCost ==
  ASSUME NEW w \in Int, NEW v \in Int, NEW a \in Int, NEW p \in Int
  PROVE  w + p * a = (w + v * p) - (v - a) * p
OBVIOUS

\* The last of some places is their maximum.
LEMMA MaxIsLast ==
  ASSUME NEW S, S \subseteq Nat, NEW n \in Nat, \A k \in S : k < n
  PROVE  Max(S \cup {n}) = n
<1>1. \A x \in S \cup {n} : (\A y \in S \cup {n} : x >= y) => x = n
  OBVIOUS
<1>2. \A y \in S \cup {n} : n >= y
  OBVIOUS
<1> QED  BY <1>1, <1>2 DEF Max

\* An exit that closes its ledger: the position adds up, and what was offered in excess is
\* the deal's, which is clamped.
LEMMA ExitAllFigures ==
  ASSUME FiguresInv, NEW d \in Direction, NEW deal \in Deals, ExitAll(d, deal)
  PROVE  FiguresFromLinks' /\ \A e \in Direction : LedgerAddsUp(e)'
<1>1. /\ IInv /\ TypeOK /\ Take(deal) /\ deal.side = ExitSide(d) /\ HasOpen(d)
      /\ deal.vol > 0 /\ deal.vol \in Nat /\ deal.price \in Int /\ deal.time \in Nat
      /\ WarnExcess(d, deal)
      /\ positions' = Append(positions, ToModel(d, AddExit(ledgers[d], deal, This),
                                                "closed", deal.time))
      /\ ledgers' = [ledgers EXCEPT ![d] = NoLedger]
  BY DealTypes DEF FiguresInv, IInv, ExitAll
<1>2. PICK n : n = This
  OBVIOUS
<1>3. /\ n \notin Indices /\ n \in Nat /\ clamped \subseteq Indices /\ deals'[n] = deal
      /\ \A k \in Indices : k \in Nat /\ k < n
  BY <1>1, <1>2, Taken DEF TypeOK, Indices
<1>4. PICK old \in LedgerRecord : /\ old = ledgers[d] /\ old.links \subseteq Indices
                                 /\ old.open \in Nat
  BY <1>1, LedgerFacts DEF HasOpen
<1>5. PICK l : l = AddExit(old, deal, n)
  OBVIOUS
<1>6. PICK a : a = Applied(old, deal)
  OBVIOUS
<1>7. /\ l \in LedgerRecord /\ a \in Nat
      /\ a = IF deal.vol < old.open THEN deal.vol ELSE old.open
  BY <1>1, <1>3, <1>5, <1>6, AddExitType
<1>8. PICK exits, links : exits = Exits(old.links, d) /\ links = old.links
  OBVIOUS
<1>9. /\ AddsUp(old, d) /\ old.closed = SumFunctionOnSet(Vol, exits)
      /\ old.exitCost = SumFunctionOnSet(Worth, exits) /\ links \cap clamped = {}
  BY <1>1, <1>4, <1>8 DEF FiguresInv, LedgerAddsUp, HasOpen
<1>10. PICK more : more = exits \cup {n}
  OBVIOUS
<1>11. /\ AddsUp(l, d)' /\ Exits(l.links, d)' = more
       /\ SumFunctionOnSet(Vol', more) = SumFunctionOnSet(Vol, exits) + deal.vol
       /\ SumFunctionOnSet(Worth', more) = SumFunctionOnSet(Worth, exits) + deal.vol * deal.price
       /\ SumFunctionOnSet(Vol, exits) \in Int /\ SumFunctionOnSet(Worth, exits) \in Int
  <2>1. TypeOK /\ Take(deal) /\ deal.side = ExitSide(d)
    BY <1>1
  <2>2. AddsUp(l, d)' /\ Exits(l.links, d)' = more
    BY <1>2, <1>4, <1>5, <1>8, <1>9, <1>10, <2>1, ExitAddsUp
  <2>3. /\ SumFunctionOnSet(Vol', more) = SumFunctionOnSet(Vol, exits) + deal.vol
        /\ SumFunctionOnSet(Worth', more) = SumFunctionOnSet(Worth, exits) + deal.vol * deal.price
    BY <1>2, <1>4, <1>5, <1>8, <1>9, <1>10, <2>1, ExitAddsUp
  <2>4. SumFunctionOnSet(Vol, exits) \in Int /\ SumFunctionOnSet(Worth, exits) \in Int
    BY <1>2, <1>4, <1>5, <1>8, <1>9, <1>10, <2>1, ExitAddsUp
  <2> QED  BY <2>2, <2>3, <2>4
<1>12. /\ l.closed = old.closed + a /\ l.exitCost = old.exitCost + deal.price * a
       /\ l.links = links \cup {n}
  BY <1>5, <1>6, <1>8, AddExitFigures
<1>13. PICK pos \in Position : pos = ToModel(d, l, "closed", deal.time)
  BY <1>1, <1>7, ToModelType
<1>14. /\ pos.direction = d /\ pos.links = links \cup {n} /\ pos.closed = l.closed
       /\ pos.exitCost = l.exitCost
  BY <1>12, <1>13 DEF ToModel
<1>15. AddsUp(pos, d)' /\ Exits(pos.links, d)' = more
  <2>1. /\ pos.total = l.total /\ pos.cost = l.cost /\ pos.fees = l.fees
        /\ pos.pnl = l.pnl /\ pos.links = l.links
    BY <1>13 DEF ToModel
  <2> QED  BY <1>11, <2>1 DEF AddsUp
<1>16. PositionAddsUp(pos)'
  <2>1. PICK offered \in Int : offered = SumFunctionOnSet(Vol', more)
    BY <1>1, <1>11
  <2>2. offered - pos.closed = deal.vol - a
    BY <1>1, <1>7, <1>9, <1>11, <1>12, <1>14, <2>1
  <2>3. pos.closed <= offered
    BY <1>1, <1>4, <1>7, <1>9, <1>11, <1>12, <1>14, <2>1
  <2>4. CASE deal.vol = a
    <3>1. offered - pos.closed = 0
      BY <1>7, <2>2, <2>4
    <3>2. deal.price * a = deal.vol * deal.price
      BY <1>1, <2>4
    <3>3. pos.exitCost = SumFunctionOnSet(Worth', more)
      BY <1>9, <1>11, <1>12, <1>14, <3>2
    <3> QED  BY <1>14, <1>15, <2>1, <2>3, <3>1, <3>3 DEF PositionAddsUp
  <2>5. CASE deal.vol # a
    <3>1. deal.vol > old.open
      BY <1>1, <1>4, <1>7, <2>5
    <3>2. pos.links \cap clamped' = {n}
      <4>1. clamped' = clamped \cup {n}
        BY <1>1, <1>2, <1>4, <3>1 DEF WarnExcess
      <4> QED  BY <1>3, <1>9, <1>14, <4>1
    <3>3. Max(pos.links) = n
      <4>1. links \subseteq Nat /\ \A k \in links : k < n
        BY <1>3, <1>4, <1>8
      <4> QED  BY <1>3, <1>14, <4>1, MaxIsLast
    <3>4. PICK w \in Int : w = SumFunctionOnSet(Worth, exits)
      BY <1>11
    <3>5. w + deal.price * a = (w + deal.vol * deal.price) - (deal.vol - a) * deal.price
      BY <1>1, <1>7, ClampedCost
    <3>6. pos.exitCost = SumFunctionOnSet(Worth', more) - (deal.vol - a) * deal.price
      BY <1>9, <1>11, <1>12, <1>14, <3>4, <3>5
    <3>7. offered - pos.closed # 0
      BY <1>1, <1>7, <2>2, <2>5
    <3> QED  BY <1>3, <1>14, <1>15, <2>1, <2>2, <2>3, <3>2, <3>3, <3>6, <3>7 DEF PositionAddsUp
  <2> QED  BY <2>4, <2>5
<1>17. /\ \A p \in DOMAIN positions : \A q : q = positions[p] => PositionAddsUp(q)'
       /\ \A e \in Direction : ledgers'[e] = ledgers[e] => LedgerAddsUp(e)'
  <2>1. clamped \subseteq clamped' /\ clamped' \subseteq clamped \cup {This}
    BY <1>1 DEF WarnExcess
  <2> QED  BY <1>1, <2>1, FiguresStable
<1>18. ASSUME NEW p \in DOMAIN positions' PROVE PositionAddsUp(positions[p])'
  <2>1. positions \in Seq(Position) /\ positions' = Append(positions, pos)
    BY <1>1, <1>2, <1>4, <1>5, <1>13 DEF TypeOK
  <2>2. /\ DOMAIN positions' = 1 .. Len(positions) + 1 /\ DOMAIN positions = 1 .. Len(positions)
        /\ \A k \in 1 .. Len(positions) : positions'[k] = positions[k]
        /\ positions'[Len(positions) + 1] = pos /\ Len(positions) \in Nat
    BY <2>1, AppendFacts
  <2>3. p = Len(positions) + 1 \/ p \in DOMAIN positions
    BY <1>18, <2>2
  <2>4. PICK q : q = positions'[p]
    OBVIOUS
  <2>5. PositionAddsUp(q)'
    BY <1>16, <1>17, <2>2, <2>3, <2>4
  <2> QED  BY <2>4, <2>5, PositionNamed
<1>19. ASSUME NEW e \in Direction PROVE LedgerAddsUp(e)'
  <2>1. ledgers'[d] = NoLedger /\ (e # d => ledgers'[e] = ledgers[e])
    BY <1>1 DEF TypeOK
  <2>2. e = d => LedgerAddsUp(e)'
    BY <2>1 DEF LedgerAddsUp
  <2> QED  BY <1>17, <2>1, <2>2
<1> QED  BY <1>18, <1>19 DEF FiguresFromLinks

\* Where the deals and the warnings stay, what adds up does.
LEMMA SameDealsAddUp ==
  ASSUME deals' = deals, clamped' = clamped, NEW pos, PositionAddsUp(pos)
  PROVE  PositionAddsUp(pos)'
<1>1. Vol' = Vol /\ Worth' = Worth /\ Fee' = Fee /\ Profit' = Profit
  BY DEF Vol, Worth, Fee, Profit, Indices
<1>2. PICK d, links : d = pos.direction /\ links = pos.links
  OBVIOUS
<1>3. Entries(links, d)' = Entries(links, d)
  BY DEF Entries
<1>4. Exits(links, d)' = Exits(links, d)
  BY <1>3 DEF Exits
<1>5. AddsUp(pos, d)'
  BY <1>1, <1>2, <1>3, <1>4 DEF PositionAddsUp, AddsUp
<1> QED  BY <1>1, <1>2, <1>4, <1>5 DEF PositionAddsUp

LEMMA SameLedgerAddsUp ==
  ASSUME deals' = deals, clamped' = clamped, ledgers' = ledgers, NEW d, LedgerAddsUp(d)
  PROVE  LedgerAddsUp(d)'
BY DEF LedgerAddsUp, AddsUp, Entries, Exits, Vol, Worth, Fee, Profit, Indices

\* At the end of the walk a ledger becomes a position with its figures.
LEMMA LedgerBecomesPosition ==
  ASSUME FiguresInv, NEW d \in Direction, HasOpen(d), NEW pos,
         pos = ToModel(d, ledgers[d], "open", NoTime)
  PROVE  PositionAddsUp(pos)
<1>1. PICK l \in LedgerRecord : l = ledgers[d] /\ l.links \subseteq Indices
  BY LedgerFacts DEF FiguresInv, HasOpen
<1>2. PICK exits : exits = Exits(l.links, d)
  OBVIOUS
<1>3. /\ AddsUp(l, d) /\ l.closed = SumFunctionOnSet(Vol, exits)
      /\ l.exitCost = SumFunctionOnSet(Worth, exits)
  BY <1>1, <1>2 DEF FiguresInv, LedgerAddsUp, HasOpen
<1>4. /\ pos.direction = d /\ pos.links = l.links /\ pos.closed = l.closed
      /\ pos.exitCost = l.exitCost /\ pos.total = l.total /\ pos.cost = l.cost
      /\ pos.fees = l.fees /\ pos.pnl = l.pnl
  BY <1>1 DEF ToModel
<1>5. AddsUp(pos, d)
  BY <1>3, <1>4 DEF AddsUp
<1>6. l.closed \in Int
  BY DEF LedgerRecord
<1>7. /\ SumFunctionOnSet(Vol, exits) - pos.closed = 0
      /\ pos.closed <= SumFunctionOnSet(Vol, exits)
  BY <1>3, <1>4, <1>6
<1> QED  BY <1>2, <1>3, <1>4, <1>5, <1>7 DEF PositionAddsUp

\* The end of the walk.
LEMMA FinishFigures ==
  ASSUME FiguresInv, Finish
  PROVE  FiguresFromLinks' /\ \A d \in Direction : LedgerAddsUp(d)'
<1>1. IInv /\ deals' = deals /\ clamped' = clamped /\ ledgers' = ledgers
  BY DEF FiguresInv, Finish
<1>2. ASSUME NEW p \in DOMAIN positions' PROVE PositionAddsUp(positions[p])'
  <2>1. PICK pos : pos = positions'[p]
    OBVIOUS
  <2>2. CASE p \in DOMAIN positions
    <3>1. pos = positions[p]
      BY <1>1, <2>1, <2>2, FinishShape
    <3>2. PositionAddsUp(pos)
      BY <2>2, <3>1 DEF FiguresInv, FiguresFromLinks
    <3> QED  BY <1>1, <2>1, <3>2, SameDealsAddUp, PositionNamed
  <2>3. CASE p \notin DOMAIN positions
    <3>1. PICK d \in Direction : HasOpen(d) /\ pos = ToModel(d, ledgers[d], "open", NoTime)
      BY <1>1, <1>2, <2>1, <2>3, FinishShape
    <3>2. PositionAddsUp(pos)
      BY <3>1, LedgerBecomesPosition
    <3> QED  BY <1>1, <2>1, <3>2, SameDealsAddUp, PositionNamed
  <2> QED  BY <2>2, <2>3
<1>3. \A d \in Direction : LedgerAddsUp(d)'
  BY <1>1, SameLedgerAddsUp DEF FiguresInv
<1> QED  BY <1>2, <1>3 DEF FiguresFromLinks

\* The invariant of the figures holds in every state.
LEMMA FiguresInvariant == Spec => []FiguresInv
<1>1. Init => FiguresInv
  <2>1. Init => DOMAIN positions = {} /\ \A d \in Direction : ledgers[d] = NoLedger
    BY DEF Init
  <2> QED  BY <2>1, InitIInv DEF FiguresInv, FiguresFromLinks, LedgerAddsUp
<1>2. FiguresInv /\ [Next]_vars => FiguresInv'
  <2>1. SUFFICES ASSUME FiguresInv, [Next]_vars
                 PROVE  FiguresFromLinks' /\ \A d \in Direction : LedgerAddsUp(d)'
    BY NextStep DEF FiguresInv
  <2>2. ASSUME NEW d \in Direction, NEW deal \in Deals, Enter(d, deal)
        PROVE  FiguresFromLinks' /\ \A e \in Direction : LedgerAddsUp(e)'
    BY <2>1, <2>2, EnterFigures
  <2>3. ASSUME NEW d \in Direction, NEW deal \in Deals, SkipEntry(d, deal) \/ SkipExit(d, deal)
        PROVE  FiguresFromLinks' /\ \A e \in Direction : LedgerAddsUp(e)'
    BY <2>1, <2>3, SkipFigures DEF SkipEntry, SkipExit
  <2>4. ASSUME NEW d \in Direction, NEW deal \in Deals, ExitInPart(d, deal)
        PROVE  FiguresFromLinks' /\ \A e \in Direction : LedgerAddsUp(e)'
    BY <2>1, <2>4, ExitInPartFigures
  <2>5. ASSUME NEW d \in Direction, NEW deal \in Deals, ExitAll(d, deal)
        PROVE  FiguresFromLinks' /\ \A e \in Direction : LedgerAddsUp(e)'
    BY <2>1, <2>5, ExitAllFigures
  <2>6. ASSUME NEW deal \in Deals, SkipUnknownSide(deal)
        PROVE  FiguresFromLinks' /\ \A e \in Direction : LedgerAddsUp(e)'
    BY <2>1, <2>6, SkipFigures DEF SkipUnknownSide
  <2>7. CASE Finish
    BY <2>1, <2>7, FinishFigures
  <2>8. CASE UNCHANGED vars
    <3>1. deals' = deals /\ clamped' = clamped /\ ledgers' = ledgers /\ positions' = positions
      BY <2>8 DEF vars
    <3>2. ASSUME NEW p \in DOMAIN positions' PROVE PositionAddsUp(positions[p])'
      <4>1. PICK pos : pos = positions'[p]
        OBVIOUS
      <4>2. PositionAddsUp(pos)
        BY <2>1, <3>1, <4>1 DEF FiguresInv, FiguresFromLinks
      <4> QED  BY <3>1, <4>1, <4>2, SameDealsAddUp, PositionNamed
    <3>3. \A d \in Direction : LedgerAddsUp(d)'
      BY <2>1, <3>1, SameLedgerAddsUp DEF FiguresInv
    <3> QED  BY <3>2, <3>3 DEF FiguresFromLinks
  <2> QED  BY <2>1, <2>2, <2>3, <2>4, <2>5, <2>6, <2>7, <2>8 DEF Next
<1> QED  BY <1>1, <1>2, PTL DEF Spec

\* The figures of every position can be recomputed from the deals it links to (add_entry,
\* add_exit, to_model, and the clamping of _handle_exit).
THEOREM FiguresRecomputed == Spec => []FiguresFromLinks
<1>1. FiguresInv => FiguresFromLinks
  BY DEF FiguresInv
<1> QED  BY <1>1, FiguresInvariant, PTL

-----------------------------------------------------------------------------
(* The open volume and the net volume.                                     *)

\* What the deal adds to the net volume of a direction.
SignedOf(deal, d) ==
  IF deal.vol <= 0 THEN 0
  ELSE IF deal.side = EntrySide(d) THEN deal.vol
  ELSE IF deal.side = ExitSide(d) THEN -deal.vol
  ELSE 0

\* A taken deal leaves the earlier net volumes alone and makes one more.
LEMMA NetGrows ==
  ASSUME TypeOK, NEW deal \in Deals, Take(deal), NEW d
  PROVE  /\ Net(d, Len(deals)) \in Int
         /\ \A n \in 0 .. Len(deals) : Net(d, n)' = Net(d, n)
         /\ Net(d, Len(deals))' = Net(d, Len(deals)) + SignedOf(deal, d)
         /\ Nets(d)' = Nets(d) \cup {Net(d, Len(deals)) + SignedOf(deal, d)}
<1> DEFINE f == [k \in Indices |-> Signed(k, d)]
<1>1. PICK len \in Nat : len = Len(deals)
  BY DEF TypeOK
<1>2. PICK v \in Int : v = SignedOf(deal, d)
  BY DealTypes DEF SignedOf
<1>3. /\ Len(deals') = len + 1 /\ This = len + 1 /\ Indices = 1 .. len
      /\ \A k \in Indices : deals'[k] = deals[k]
      /\ deals'[This] = deal /\ Indices' = Indices \cup {This}
  BY <1>1, Taken DEF This, Indices, Take, TypeOK
<1>4. \A k \in Indices : f[k] \in Int
  <2>1. SUFFICES ASSUME NEW k \in Indices PROVE Signed(k, d) \in Int
    OBVIOUS
  <2>2. PICK old \in Deals : old = deals[k]
    BY DEF TypeOK, Indices
  <2>3. old.vol \in Int
    BY DealTypes
  <2> QED  BY <2>2, <2>3 DEF Signed
<1>5. (\A k \in Indices : f'[k] = f[k]) /\ f'[This] = v
  BY <1>2, <1>3 DEF Signed, SignedOf
<1>6. PICK g, h : g = f /\ h = f'
  OBVIOUS
<1>7. \A n \in 0 .. len : /\ SumFunctionOnSet(h, 1 .. n) = SumFunctionOnSet(g, 1 .. n)
                          /\ SumFunctionOnSet(g, 1 .. n) \in Int
  <2>1. SUFFICES ASSUME NEW n \in 0 .. len
                 PROVE  /\ SumFunctionOnSet(h, 1 .. n) = SumFunctionOnSet(g, 1 .. n)
                        /\ SumFunctionOnSet(g, 1 .. n) \in Int
    OBVIOUS
  <2>2. PICK S : S = 1 .. n
    OBVIOUS
  <2>3. S \subseteq Indices
    BY <1>3, <2>2
  <2>4. /\ SumFunctionOnSet(h, S) = SumFunctionOnSet(g, S) /\ SumFunctionOnSet(g, S) \in Int
    BY <1>2, <1>4, <1>5, <1>6, <2>3, SumGrows
  <2> QED  BY <2>2, <2>4
<1>8. SumFunctionOnSet(h, 1 .. len + 1) = SumFunctionOnSet(g, 1 .. len) + v
  <2>1. SumFunctionOnSet(h, Indices \cup {This}) = SumFunctionOnSet(g, Indices) + v
    BY <1>2, <1>4, <1>5, <1>6, SumGrows
  <2>2. Indices \cup {This} = 1 .. len + 1
    BY <1>3
  <2> QED  BY <1>3, <2>1, <2>2
<1>9. /\ \A n \in 0 .. len : Net(d, n)' = Net(d, n)
      /\ Net(d, len) \in Int /\ Net(d, len + 1)' = Net(d, len) + v
  BY <1>6, <1>7, <1>8 DEF Net
<1>10. Nets(d)' = Nets(d) \cup {Net(d, len) + v}
  <2>1. Nets(d)' = {Net(d, n)' : n \in 0 .. len + 1}
    BY <1>3 DEF Nets
  <2>2. 0 .. len + 1 = (0 .. len) \cup {len + 1}
    OBVIOUS
  <2> QED  BY <1>1, <1>9, <2>1, <2>2 DEF Nets
<1>11. Net(d, Len(deals))' = Net(d, len + 1)'
  BY <1>3
<1> QED  BY <1>1, <1>2, <1>9, <1>10, <1>11

\* A step takes a deal as the hedge book does, or leaves deals and ledgers alone.
LEMMA StepKinds ==
  ASSUME IInv, [Next]_vars
  PROVE  \/ \E deal \in Deals :
              Take(deal) /\ \A d \in Direction : OpenVolume(d)' = Book!After(deal, d)
         \/ deals' = deals /\ ledgers' = ledgers
<1>1. ASSUME NEW deal \in Deals, Book!Book(deal), NEW d \in Direction
      PROVE  OpenVolume(d)' = Book!After(deal, d)
  <2>1. [e \in Direction |-> OpenVolume(e)]' = [e \in Book!Direction |-> Book!After(deal, e)]
    BY <1>1 DEF Book!Book
  <2>2. Book!Direction = Direction
    BY DEF Book!Direction, Direction
  <2>3. /\ [e \in Direction |-> OpenVolume(e)]'[d] = OpenVolume(d)'
        /\ [e \in Book!Direction |-> Book!After(deal, e)][d] = Book!After(deal, d)
    BY <2>2
  <2> QED  BY <2>1, <2>3
<1>2. ASSUME NEW d \in Direction, NEW deal \in Deals,
             \/ Enter(d, deal) \/ SkipEntry(d, deal) \/ SkipExit(d, deal)
             \/ ExitInPart(d, deal) \/ ExitAll(d, deal)
      PROVE  Take(deal) /\ \A e \in Direction : OpenVolume(e)' = Book!After(deal, e)
  <2>1. Take(deal)
    BY <1>2 DEF Enter, SkipEntry, SkipExit, ExitInPart, ExitAll
  <2>2. Book!Book(deal)
    BY <1>2, EnterBooks, SkipBooks, ExitInPartBooks, ExitAllBooks
  <2> QED  BY <1>1, <2>1, <2>2
<1>3. ASSUME NEW deal \in Deals, SkipUnknownSide(deal)
      PROVE  Take(deal) /\ \A e \in Direction : OpenVolume(e)' = Book!After(deal, e)
  <2>1. Take(deal) /\ "long" \in Direction
    BY <1>3 DEF SkipUnknownSide, Direction
  <2>2. Book!Book(deal)
    BY <1>3, <2>1, SkipBooks
  <2> QED  BY <1>1, <2>1, <2>2
<1>4. CASE Finish
  BY <1>4 DEF Finish
<1>5. CASE UNCHANGED vars
  BY <1>5 DEF vars
<1> QED  BY <1>2, <1>3, <1>4, <1>5 DEF Next

\* The measured volume moves as the open volume does.
LEMMA MeasuredVolume ==
  ASSUME NEW low \in Int, NEW net \in Int, NEW open \in Nat, open = net - low,
         NEW vol \in Int, NEW side, NEW entry, NEW exit, entry # exit,
         NEW s, s = IF vol <= 0 THEN 0
                    ELSE IF side = entry THEN vol
                    ELSE IF side = exit THEN -vol ELSE 0,
         NEW after, after = IF vol <= 0 THEN open
                            ELSE IF side = entry THEN open + vol
                            ELSE IF side # exit THEN open
                            ELSE IF vol < open THEN open - vol ELSE 0
  PROVE  after = (net + s) - (IF net + s < low THEN net + s ELSE low)
<1>1. CASE vol <= 0 \/ (side # entry /\ side # exit)
  BY <1>1
<1>2. CASE vol > 0 /\ side = entry
  BY <1>2
<1>3. CASE vol > 0 /\ side = exit
  BY <1>3
<1> QED  BY <1>1, <1>2, <1>3

\* A step keeps the open volume the net volume above its lowest point.
LEMMA NetStep ==
  ASSUME NetInv, [Next]_vars
  PROVE  NetInv'
<1>1. IInv /\ IInv' /\ TypeOK
  BY NextStep DEF NetInv, IInv
<1>2. ASSUME NEW deal \in Deals, Take(deal), NEW d \in Direction,
             OpenVolume(d)' = Book!After(deal, d)
      PROVE  Nets(d)' \subseteq Int /\ OpenAboveLowest(d)'
  <2>1. PICK low \in Nets(d) : /\ \A net \in Nets(d) : low <= net
                               /\ OpenVolume(d) = Net(d, Len(deals)) - low
    BY DEF NetInv, OpenAboveLowest
  <2>2. Nets(d) \subseteq Int /\ low \in Int
    BY DEF NetInv
  <2>3. PICK net \in Int : net = Net(d, Len(deals))
    BY <1>1, <1>2, NetGrows
  <2>4. PICK s \in Int : s = SignedOf(deal, d)
    BY DealTypes DEF SignedOf
  <2>5. Net(d, Len(deals))' = net + s /\ Nets(d)' = Nets(d) \cup {net + s}
    BY <1>1, <1>2, <2>3, <2>4, NetGrows
  <2>6. Book!After(deal, d) = (net + s) - (IF net + s < low THEN net + s ELSE low)
    <3>1. PICK side, entry, exit, vol, open, after :
            /\ side = deal.side /\ entry = EntrySide(d) /\ exit = ExitSide(d) /\ vol = deal.vol
            /\ open = OpenVolume(d) /\ after = Book!After(deal, d)
      OBVIOUS
    <3>2. entry # exit /\ vol \in Int /\ open \in Nat /\ open = net - low
      BY <1>1, <2>1, <2>3, <3>1, SideFacts, VolumeFacts, DealTypes
    <3>3. s = IF vol <= 0 THEN 0 ELSE IF side = entry THEN vol
              ELSE IF side = exit THEN -vol ELSE 0
      BY <2>4, <3>1 DEF SignedOf
    <3>4. after = IF vol <= 0 THEN open
                  ELSE IF side = entry THEN open + vol
                  ELSE IF side # exit THEN open
                  ELSE IF vol < open THEN open - vol ELSE 0
      BY <3>1, AfterFacts
    <3>5. after = (net + s) - (IF net + s < low THEN net + s ELSE low)
      BY <2>2, <2>3, <3>2, <3>3, <3>4, MeasuredVolume
    <3> QED  BY <3>1, <3>5
  <2>7. PICK lowest \in Int : lowest = IF net + s < low THEN net + s ELSE low
    BY <2>2, <2>3, <2>4
  <2>8. lowest \in Nets(d)' /\ \A other \in Nets(d)' : lowest <= other
    BY <2>1, <2>2, <2>3, <2>4, <2>5, <2>7
  <2>9. OpenVolume(d)' = Net(d, Len(deals))' - lowest
    BY <1>2, <2>5, <2>6, <2>7
  <2>10. Nets(d)' \subseteq Int
    BY <2>2, <2>3, <2>4, <2>5
  <2> QED  BY <2>8, <2>9, <2>10 DEF OpenAboveLowest
<1>3. ASSUME deals' = deals, ledgers' = ledgers, NEW d \in Direction
      PROVE  Nets(d)' \subseteq Int /\ OpenAboveLowest(d)'
  <2>1. (\A n : Net(d, n)' = Net(d, n)) /\ OpenVolume(d)' = OpenVolume(d)
    BY <1>3 DEF Net, Signed, Indices, OpenVolume
  <2>2. Nets(d)' = Nets(d) /\ Net(d, Len(deals))' = Net(d, Len(deals))
    BY <1>3, <2>1 DEF Nets
  <2> QED  BY <2>1, <2>2 DEF NetInv, OpenAboveLowest
<1> QED  BY <1>1, <1>2, <1>3, StepKinds DEF NetInv

\* The open volume of a direction is its net volume above the lowest point of it: what is
\* closed beyond zero is never held against later entries (_handle_entry, _handle_exit).
THEOREM OpenAboveLowestNet == Spec => []OpenIsNetAboveLowest
<1>1. Init => NetInv
  <2>1. SUFFICES ASSUME Init, NEW d \in Direction
                 PROVE  Nets(d) \subseteq Int /\ OpenAboveLowest(d)
    BY InitIInv DEF NetInv
  <2>2. Len(deals) = 0 /\ OpenVolume(d) = 0
    BY <2>1 DEF Init, OpenVolume
  <2>3. 1 .. 0 = {} /\ 0 .. 0 = {0}
    OBVIOUS
  <2>4. Net(d, 0) = 0
    BY <2>3, SumEmpty DEF Net
  <2>5. Nets(d) = {0}
    BY <2>2, <2>3, <2>4 DEF Nets
  <2> QED  BY <2>2, <2>4, <2>5 DEF OpenAboveLowest
<1>2. NetInv /\ [Next]_vars => NetInv'
  BY NetStep
<1>3. NetInv => OpenIsNetAboveLowest
  <2>1. SUFFICES ASSUME NetInv, NEW d \in Direction
                 PROVE  OpenVolume(d) = Net(d, Len(deals)) - Min(Nets(d))
    BY DEF OpenIsNetAboveLowest
  <2>2. PICK low \in Nets(d) : /\ \A net \in Nets(d) : low <= net
                               /\ OpenVolume(d) = Net(d, Len(deals)) - low
    BY <2>1 DEF NetInv, OpenAboveLowest
  <2>3. Nets(d) \subseteq Int
    BY <2>1 DEF NetInv
  <2>4. \A x \in Nets(d) : (\A y \in Nets(d) : x <= y) => x = low
    BY <2>2, <2>3
  <2>5. Min(Nets(d)) = low
    BY <2>2, <2>4 DEF Min
  <2> QED  BY <2>2, <2>5
<1> QED  BY <1>1, <1>2, <1>3, PTL DEF Spec

-----------------------------------------------------------------------------
(* The dashboard.                                                          *)

\* Positions are finitely many, and their figures are integers.
LEMMA PositionFigures ==
  ASSUME TypeOK, NEW P, P = DOMAIN positions
  PROVE  /\ IsFiniteSet(P) /\ Cardinality(P) = Len(positions)
         /\ \A p \in P : /\ positions[p] \in Position /\ positions[p].pnl \in Int
                         /\ positions[p].fees \in Int /\ NetPnl(p) \in Int
<1>1. positions \in Seq(Position) /\ Len(positions) \in Nat /\ P = 1 .. Len(positions)
  BY DEF TypeOK
<1>2. 1 \in Int /\ Len(positions) \in Int
  BY <1>1
<1>3. IsFiniteSet(1 .. Len(positions)) /\ Cardinality(1 .. Len(positions)) = Len(positions)
  BY <1>1, <1>2, FS_Interval
<1>4. ASSUME NEW p \in P
      PROVE  /\ positions[p] \in Position /\ positions[p].pnl \in Int
             /\ positions[p].fees \in Int /\ NetPnl(p) \in Int
  <2>1. PICK pos \in Position : pos = positions[p]
    BY <1>1
  <2>2. pos.pnl \in Int /\ pos.fees \in Nat
    BY DEF Position
  <2> QED  BY <2>1, <2>2 DEF NetPnl
<1> QED  BY <1>1, <1>3, <1>4

\* The net result of some positions, with the figures of all.
LEMMA NetOfFacts ==
  ASSUME TypeOK, NEW P, P = DOMAIN positions, NEW net, net = [p \in P |-> NetPnl(p)],
         NEW S, S \subseteq P
  PROVE  /\ IsFiniteSet(S) /\ (\A p \in S : net[p] \in Int)
         /\ NetOf(S) = SumFunctionOnSet(net, S) /\ NetOf(S) \in Int
<1>1. IsFiniteSet(S) /\ \A p \in P : net[p] \in Int
  BY PositionFigures, FS_Subset
<1>2. SumFunctionOnSet([p \in S |-> NetPnl(p)], S) = SumFunctionOnSet(net, S)
  <2>1. PICK part : part = [p \in S |-> NetPnl(p)]
    OBVIOUS
  <2>2. \A p \in S : part[p] = net[p]
    BY <2>1
  <2>3. SumFunctionOnSet(part, S) = SumFunctionOnSet(net, S)
    BY <1>1, <2>2, SumSame
  <2> QED  BY <2>1, <2>3
<1>3. SumFunctionOnSet(net, S) \in Int
  BY <1>1, SumType
<1> QED  BY <1>1, <1>2, <1>3 DEF NetOf

\* The net result of two groups of positions.
LEMMA NetOfSplits ==
  ASSUME TypeOK, NEW S, NEW T, S \cup T \subseteq DOMAIN positions, S \cap T = {}
  PROVE  /\ NetOf(S \cup T) = NetOf(S) + NetOf(T)
         /\ NetOf(S) \in Int /\ NetOf(T) \in Int
<1>1. PICK P, net : P = DOMAIN positions /\ net = [p \in P |-> NetPnl(p)]
  OBVIOUS
<1>2. PICK U : U = S \cup T
  OBVIOUS
<1>3. S \subseteq P /\ T \subseteq P /\ U \subseteq P
  BY <1>1, <1>2
<1>4. /\ IsFiniteSet(S) /\ (\A p \in S : net[p] \in Int)
      /\ NetOf(S) = SumFunctionOnSet(net, S) /\ NetOf(S) \in Int
  BY <1>1, <1>3, NetOfFacts
<1>5. /\ IsFiniteSet(T) /\ (\A p \in T : net[p] \in Int)
      /\ NetOf(T) = SumFunctionOnSet(net, T) /\ NetOf(T) \in Int
  BY <1>1, <1>3, NetOfFacts
<1>6. NetOf(U) = SumFunctionOnSet(net, U)
  BY <1>1, <1>3, NetOfFacts
<1>7. \A p \in S \cup T : net[p] \in Int
  BY <1>4, <1>5
<1>8. SumFunctionOnSet(net, S \cup T) = SumFunctionOnSet(net, S) + SumFunctionOnSet(net, T)
  BY <1>4, <1>5, <1>7, SumDisjoint
<1> QED  BY <1>2, <1>4, <1>5, <1>6, <1>8

\* After the walk the links of the positions are the deals that were not skipped, each once.
LEMMA LinksPartition ==
  ASSUME IInv, done
  PROVE  /\ UNION {positions[p].links : p \in DOMAIN positions} = Indices \ skipped
         /\ \A p, q \in DOMAIN positions :
              p # q => positions[p].links \cap positions[q].links = {}
         /\ \A p \in DOMAIN positions : positions[p].links \subseteq Indices
<1>1. Live = {} /\ EachDealOnce
  BY DEF IInv, Live
<1>2. \A p \in DOMAIN positions : positions[p].links \subseteq Indices
  BY DEF IInv, PositionOK, LinksOK
<1> QED  BY <1>1, <1>2 DEF EachDealOnce

\* The exits among them are the linked deals on an exit side.
LEMMA ExitsPartition ==
  ASSUME IInv, done
  PROVE  UNION {Exits(positions[p].links, positions[p].direction) : p \in DOMAIN positions} =
           {k \in Indices \ skipped : deals[k].side \in {ExitSide(d) : d \in Direction}}
<1>1. UNION {positions[p].links : p \in DOMAIN positions} = Indices \ skipped
  BY LinksPartition
<1>2. ASSUME NEW p \in DOMAIN positions, NEW k \in positions[p].links
      PROVE  k \in Exits(positions[p].links, positions[p].direction)
               <=> deals[k].side \in {ExitSide(d) : d \in Direction}
  <2>1. PICK e \in Direction : e = positions[p].direction
    <3>1. positions[p] \in Position
      BY PositionFigures DEF IInv
    <3> QED  BY <3>1 DEF Position
  <2>2. deals[k].side \in {EntrySide(e), ExitSide(e)}
    BY <2>1 DEF IInv, PositionOK, LinksOK
  <2>3. \A d \in Direction : EntrySide(e) # ExitSide(d)
    BY SideFacts
  <2> QED  BY <2>1, <2>2, <2>3 DEF Exits, Entries
<1>3. \A p \in DOMAIN positions :
        Exits(positions[p].links, positions[p].direction) \subseteq positions[p].links
  BY DEF Exits
<1> QED  BY <1>1, <1>2, <1>3

\* The fees and the profits of all positions are those of the linked deals.
LEMMA TotalsFromDeals ==
  ASSUME FiguresInv, done, NEW P, P = DOMAIN positions
  PROVE  /\ SumFunctionOnSet([p \in P |-> positions[p].fees], P) =
              SumFunctionOnSet(Fee, Indices \ skipped)
         /\ SumFunctionOnSet([p \in P |-> positions[p].pnl], P) =
              SumFunctionOnSet(Profit, {k \in Indices \ skipped :
                                          deals[k].side \in {ExitSide(d) : d \in Direction}})
<1>1. IInv /\ TypeOK /\ IsFiniteSet(P)
  BY PositionFigures DEF FiguresInv, IInv
<1>2. \A p \in P : /\ positions[p].links \subseteq Indices
                   /\ positions[p].fees = SumFunctionOnSet(Fee, positions[p].links)
                   /\ positions[p].pnl = SumFunctionOnSet(Profit,
                        Exits(positions[p].links, positions[p].direction))
  BY <1>1, LinksPartition DEF FiguresInv, FiguresFromLinks, PositionAddsUp, AddsUp
<1>3. \A k \in Indices : Fee[k] \in Int /\ Profit[k] \in Int
  BY <1>1, FigureTypes
<1>4. \A S : S \subseteq Indices => IsFiniteSet(S)
  BY <1>1, DealSetsFinite
<1>5. SumFunctionOnSet([p \in P |-> positions[p].fees], P) =
        SumFunctionOnSet(Fee, Indices \ skipped)
  <2>1. PICK f, g, part : /\ f = Fee /\ g = [p \in P |-> positions[p].fees]
                          /\ part = [p \in P |-> positions[p].links]
    OBVIOUS
  <2>2. \A p \in P : IsFiniteSet(part[p]) /\ \A x \in part[p] : f[x] \in Int
    BY <1>2, <1>3, <1>4, <2>1
  <2>3. \A p, q \in P : p # q => part[p] \cap part[q] = {}
    BY <1>1, <2>1, LinksPartition
  <2>4. \A p \in P : g[p] = SumFunctionOnSet(f, part[p])
    BY <1>2, <2>1
  <2>5. SumFunctionOnSet(g, P) = SumFunctionOnSet(f, UNION {part[p] : p \in P})
    BY <1>1, <2>2, <2>3, <2>4, SumParts
  <2>6. UNION {part[p] : p \in P} = Indices \ skipped
    BY <1>1, <2>1, LinksPartition
  <2> QED  BY <2>1, <2>5, <2>6
<1>6. PICK exits : exits = {k \in Indices \ skipped :
                              deals[k].side \in {ExitSide(d) : d \in Direction}}
  OBVIOUS
<1>7. SumFunctionOnSet([p \in P |-> positions[p].pnl], P) = SumFunctionOnSet(Profit, exits)
  <2>1. PICK f, g, part : /\ f = Profit /\ g = [p \in P |-> positions[p].pnl]
                          /\ part = [p \in P |-> Exits(positions[p].links, positions[p].direction)]
    OBVIOUS
  <2>2. \A p \in P : part[p] \subseteq positions[p].links
    BY <2>1 DEF Exits
  <2>3. \A p \in P : IsFiniteSet(part[p]) /\ \A x \in part[p] : f[x] \in Int
    BY <1>2, <1>3, <1>4, <2>1, <2>2
  <2>4. \A p, q \in P : p # q => part[p] \cap part[q] = {}
    <3>1. \A p, q \in P : p # q => positions[p].links \cap positions[q].links = {}
      BY <1>1, LinksPartition
    <3> QED  BY <2>2, <3>1
  <2>5. \A p \in P : g[p] = SumFunctionOnSet(f, part[p])
    BY <1>2, <2>1
  <2>6. SumFunctionOnSet(g, P) = SumFunctionOnSet(f, UNION {part[p] : p \in P})
    BY <1>1, <2>3, <2>4, <2>5, SumParts
  <2>7. UNION {part[p] : p \in P} = exits
    BY <1>1, <1>6, <2>1, ExitsPartition
  <2> QED  BY <2>1, <2>6, <2>7
<1> QED  BY <1>5, <1>6, <1>7

\* The dashboard adds up in every state after the walk.
LEMMA DashboardAddsUp ==
  ASSUME FiguresInv, done
  PROVE  DashboardReconciles
<1>1. PICK all : all = DOMAIN positions
  OBVIOUS
<1>2. PICK closed, open, wins, losses :
        /\ closed = {p \in all : positions[p].status = "closed"}
        /\ open = {p \in all : positions[p].status = "open"}
        /\ wins = {p \in closed : NetPnl(p) > 0}
        /\ losses = {p \in closed : NetPnl(p) < 0}
  OBVIOUS
<1>3. IInv /\ TypeOK
  BY DEF FiguresInv, IInv
<1>4. /\ IsFiniteSet(all) /\ Cardinality(all) = Len(positions)
      /\ \A p \in all : /\ positions[p] \in Position /\ positions[p].pnl \in Int
                        /\ positions[p].fees \in Int /\ NetPnl(p) \in Int
  BY <1>1, <1>3, PositionFigures
<1>5. \A p \in all : /\ positions[p].status \in {"open", "closed"}
                     /\ positions[p].direction \in {"long", "short"}
  BY <1>4 DEF Position, Direction
<1>6. /\ closed \cup open = all /\ closed \cap open = {}
      /\ wins \cup losses \subseteq closed /\ wins \cap losses = {}
  <2>1. closed \cup open = all /\ closed \cap open = {}
    BY <1>2, <1>5
  <2>2. wins \cup losses \subseteq closed
    BY <1>2
  <2>3. wins \cap losses = {}
    BY <1>2, <1>4
  <2> QED  BY <2>1, <2>2, <2>3
<1>7. PICK total, fees \in Int :
        /\ total = SumFunctionOnSet([p \in all |-> positions[p].pnl], all)
        /\ fees = SumFunctionOnSet([p \in all |-> positions[p].fees], all)
        /\ NetOf(all) = total - fees
  <2>1. PICK f, g, h : /\ f = [p \in all |-> positions[p].pnl]
                       /\ g = [p \in all |-> positions[p].fees]
                       /\ h = [p \in all |-> NetPnl(p)]
    OBVIOUS
  <2>2. \A p \in all : f[p] \in Int /\ g[p] \in Int /\ h[p] = f[p] - g[p]
    BY <1>4, <2>1 DEF NetPnl
  <2>3. SumFunctionOnSet(h, all) = SumFunctionOnSet(f, all) - SumFunctionOnSet(g, all)
    BY <1>4, <2>2, SumMinus
  <2>4. SumFunctionOnSet(f, all) \in Int /\ SumFunctionOnSet(g, all) \in Int
    BY <1>4, <2>2, SumType
  <2> QED  BY <2>1, <2>3, <2>4 DEF NetOf
<1>8. /\ fees = SumFunctionOnSet(Fee, Indices \ skipped)
      /\ total = SumFunctionOnSet(Profit, {k \in Indices \ skipped :
                                              deals[k].side \in {ExitSide(d) : d \in Direction}})
  BY <1>1, <1>7, TotalsFromDeals
<1>9. NetOf({p \in all : positions[p].direction = "long"})
        + NetOf({p \in all : positions[p].direction = "short"}) = NetOf(all)
  <2>1. PICK S, T : /\ S = {p \in all : positions[p].direction = "long"}
                    /\ T = {p \in all : positions[p].direction = "short"}
    OBVIOUS
  <2>2. S \cup T = all /\ S \cap T = {}
    BY <1>5, <2>1
  <2>3. NetOf(S \cup T) = NetOf(S) + NetOf(T)
    BY <1>1, <1>3, <2>2, NetOfSplits
  <2> QED  BY <2>1, <2>2, <2>3
<1>10. NetOf(wins) + NetOf(losses) + NetOf(open) = NetOf(all)
  <2>1. PICK ended, even : ended = wins \cup losses /\ even = closed \ ended
    OBVIOUS
  <2>2. NetOf(closed \cup open) = NetOf(closed) + NetOf(open)
    BY <1>1, <1>3, <1>6, NetOfSplits
  <2>3. /\ NetOf(ended \cup even) = NetOf(ended) + NetOf(even) /\ NetOf(ended) \in Int
        /\ ended \cup even = closed
    <3>1. ended \cup even = closed /\ ended \cap even = {} /\ closed \subseteq all
      BY <1>2, <1>6, <2>1
    <3> QED  BY <1>1, <1>3, <3>1, NetOfSplits
  <2>4. /\ NetOf(wins \cup losses) = NetOf(wins) + NetOf(losses)
        /\ NetOf(wins) \in Int /\ NetOf(losses) \in Int
    <3>1. wins \cup losses \subseteq all
      BY <1>6
    <3> QED  BY <1>1, <1>3, <1>6, <3>1, NetOfSplits
  <2>5. NetOf(even) = 0
    <3>1. even \subseteq all /\ \A p \in even : NetPnl(p) = 0
      <4>1. \A p \in even : p \in all /\ ~ (NetPnl(p) > 0) /\ ~ (NetPnl(p) < 0)
        BY <1>2, <2>1
      <4> QED  BY <1>4, <4>1
    <3>2. PICK net : net = [p \in even |-> NetPnl(p)]
      OBVIOUS
    <3>3. IsFiniteSet(even) /\ \A p \in even : net[p] = 0
      BY <1>4, <3>1, <3>2, FS_Subset
    <3>4. SumFunctionOnSet(net, even) = 0
      BY <3>3, SumZero
    <3> QED  BY <3>2, <3>4 DEF NetOf
  <2>6. NetOf(open) \in Int
    BY <1>1, <1>3, <1>6, NetOfSplits
  <2>7. NetOf(closed) = NetOf(wins) + NetOf(losses)
    BY <2>1, <2>3, <2>4, <2>5
  <2> QED  BY <1>6, <2>2, <2>7
<1>11. PICK w, l, c, o \in Nat :
         /\ w = Cardinality(wins) /\ l = Cardinality(losses)
         /\ c = Cardinality(closed) /\ o = Cardinality(open)
         /\ w + l <= c /\ c + o = Len(positions)
         /\ w = 0 => wins = {}
         /\ l = 0 => losses = {}
  <2>1. IsFiniteSet(wins) /\ IsFiniteSet(losses) /\ IsFiniteSet(closed) /\ IsFiniteSet(open)
    BY <1>4, <1>6, FS_Subset
  <2>2. Cardinality(closed \cup open) = Cardinality(closed) + Cardinality(open)
    BY <1>6, <2>1, DisjointCount
  <2>3. Cardinality(wins \cup losses) = Cardinality(wins) + Cardinality(losses)
    BY <1>6, <2>1, DisjointCount
  <2>4. Cardinality(wins \cup losses) <= Cardinality(closed)
    BY <1>6, <2>1, FS_Subset
  <2>5. /\ Cardinality(wins) \in Nat /\ Cardinality(losses) \in Nat
        /\ Cardinality(closed) \in Nat /\ Cardinality(open) \in Nat
    BY <2>1, FS_CardinalityType
  <2>6. /\ Cardinality(wins) = 0 => wins = {}
        /\ Cardinality(losses) = 0 => losses = {}
    BY <2>1, FS_EmptySet
  <2> QED  BY <1>4, <1>6, <2>2, <2>3, <2>4, <2>5, <2>6
<1>12. /\ Divide(NetOf(wins), w).sum = NetOf(wins) /\ Divide(NetOf(wins), w).count = w
       /\ Divide(NetOf(losses), l).sum = NetOf(losses) /\ Divide(NetOf(losses), l).count = l
  <2>1. NetOf({}) = 0
    BY SumEmpty DEF NetOf
  <2> QED  BY <1>11, <2>1 DEF Divide
<1>13. PICK shown : shown = GetDashboard
  OBVIOUS
<1>14. /\ shown.net_pnl = NetOf(all) /\ shown.total_fees = fees
       /\ shown.long_pnl = NetOf({p \in all : positions[p].direction = "long"})
       /\ shown.short_pnl = NetOf({p \in all : positions[p].direction = "short"})
       /\ shown.average_win = Divide(NetOf(wins), w)
       /\ shown.average_loss = Divide(NetOf(losses), l)
       /\ shown.trade_count = c /\ shown.open_positions = o
  BY <1>1, <1>2, <1>7, <1>11, <1>13 DEF GetDashboard
<1> QED  BY <1>1, <1>2, <1>7, <1>8, <1>9, <1>10, <1>11, <1>12, <1>13, <1>14
         DEF DashboardReconciles

\* The dashboard reconciles with the deals: its net result is their profit less their fees
\* (get_dashboard, _net_pnl).
THEOREM Reconciliation == Spec => []DashboardReconciles
<1>1. FiguresInv => DashboardReconciles
  BY DashboardAddsUp DEF DashboardReconciles
<1> QED  BY <1>1, FiguresInvariant, PTL
=============================================================================
