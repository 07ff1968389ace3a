------------------------------- MODULE Ledger -------------------------------
(***************************************************************************)
(* The rebuilding of positions from deals: PositionReconstructor walks the *)
(* stored deals of one symbol in order and keeps one ledger for the long   *)
(* and one for the short direction.                                        *)
(*                                                                         *)
(* The deals are not known beforehand: each step takes any deal that may   *)
(* come next in the sorted order.  A deal is known by its place in that    *)
(* order.  Decimals are integers, and an average price is kept as the sum  *)
(* that the code divides by the volume: (avg * total + price * volume)     *)
(* divided by the new total is the sum with one more product.              *)
(***************************************************************************)
EXTENDS Integers, Sequences, FiniteSets

CONSTANTS
  Deals,      \* the deals that may be stored
  MaxDeals,   \* bound: how many are
  NoLedger    \* None in the dict of ledgers

ASSUME DealsAssumption ==
  /\ Deals \subseteq [side: Int, vol: Int, price: Int, fee: Int, profit: Int, time: Nat]
  /\ MaxDeals \in Nat

\* A PositionLedger; links are its raw_deal_ids, which are appended in the deals' order.
LedgerRecord ==
  [opened: Nat, total: Nat, open: Nat, closed: Nat, cost: Int, exitCost: Int,
   fees: Nat, pnl: Int, links: SUBSET Nat]

ASSUME NoLedgerAssumption == NoLedger \notin LedgerRecord

VARIABLES
  deals,      \* the deals walked so far, in their order
  ledgers,    \* ledgers[d]: the ledger of direction d, or NoLedger
  positions,  \* the positions made so far
  skipped,    \* the deals that a warning says were skipped
  clamped,    \* the deals that a warning says were closed in part only
  done        \* the walk is over

vars == <<deals, ledgers, positions, skipped, clamped, done>>

Direction == {"long", "short"}

MEXC_SIDE_OPEN_LONG == 1
MEXC_SIDE_CLOSE_SHORT == 2
MEXC_SIDE_OPEN_SHORT == 3
MEXC_SIDE_CLOSE_LONG == 4
Sides == {MEXC_SIDE_OPEN_LONG, MEXC_SIDE_CLOSE_SHORT, MEXC_SIDE_OPEN_SHORT,
          MEXC_SIDE_CLOSE_LONG}

EntrySide(d) == IF d = "long" THEN MEXC_SIDE_OPEN_LONG ELSE MEXC_SIDE_OPEN_SHORT
ExitSide(d) == IF d = "long" THEN MEXC_SIDE_CLOSE_LONG ELSE MEXC_SIDE_CLOSE_SHORT

Indices == 1 .. Len(deals)

Abs(x) == IF x < 0 THEN -x ELSE x

NoTime == -1     \* closed_at of an open position

-----------------------------------------------------------------------------
(* PositionLedger.                                                         *)

NewLedger(deal, n) ==
  [opened |-> deal.time, total |-> deal.vol, open |-> deal.vol, closed |-> 0,
   cost |-> deal.price * deal.vol, exitCost |-> 0, fees |-> Abs(deal.fee), pnl |-> 0,
   links |-> {n}]

\* Mutant: the position opens with its last entry.
AddEntryReopened(l, deal, n) ==
  [l EXCEPT !.opened = deal.time,
            !.total = @ + deal.vol, !.open = @ + deal.vol,
            !.cost = @ + deal.price * deal.vol,
            !.fees = @ + Abs(deal.fee),
            !.links = @ \cup {n}]

AddEntry(l, deal, n) ==
  [l EXCEPT !.total = @ + deal.vol, !.open = @ + deal.vol,
            !.cost = @ + deal.price * deal.vol,
            !.fees = @ + Abs(deal.fee),
            !.links = @ \cup {n}]

\* Mutant: the volume of an exit is not clamped.
AppliedInFull(l, deal) == deal.vol

\* applied_close_volume
Applied(l, deal) == IF deal.vol > l.open THEN l.open ELSE deal.vol

\* Mutants: fees keep their sign; the open volume falls below zero.
AddExitSignedFee(l, deal, n) ==
  [l EXCEPT !.closed = @ + Applied(l, deal),
            !.open = IF @ < Applied(l, deal) THEN 0 ELSE @ - Applied(l, deal),
            !.exitCost = @ + deal.price * Applied(l, deal),
            !.fees = @ + deal.fee,
            !.pnl = @ + deal.profit,
            !.links = @ \cup {n}]

AddExitBelowZero(l, deal, n) ==
  [l EXCEPT !.closed = @ + deal.vol, !.open = @ - deal.vol,
            !.exitCost = @ + deal.price * deal.vol,
            !.fees = @ + Abs(deal.fee),
            !.pnl = @ + deal.profit,
            !.links = @ \cup {n}]

\* The price counts for the applied volume, fee and profit count in full.
AddExit(l, deal, n) ==
  [l EXCEPT !.closed = @ + Applied(l, deal),
            !.open = IF @ < Applied(l, deal) THEN 0 ELSE @ - Applied(l, deal),
            !.exitCost = @ + deal.price * Applied(l, deal),
            !.fees = @ + Abs(deal.fee),
            !.pnl = @ + deal.profit,
            !.links = @ \cup {n}]

Position ==
  [direction: Direction, status: {"open", "closed"}, opened: Nat,
   closedAt: Nat \cup {NoTime}, total: Nat, closed: Nat, cost: Int, exitCost: Int,
   fees: Nat, pnl: Int, links: SUBSET Nat]

\* to_model; closed is the volume that the average exit price is an average over.
ToModel(d, l, status, at) ==
  [direction |-> d, status |-> status, opened |-> l.opened, closedAt |-> at,
   total |-> l.total, closed |-> l.closed, cost |-> l.cost, exitCost |-> l.exitCost,
   fees |-> l.fees, pnl |-> l.pnl, links |-> l.links]

-----------------------------------------------------------------------------
Init ==
  /\ deals = <<>>
  /\ ledgers = [d \in Direction |-> NoLedger]
  /\ positions = <<>>
  /\ skipped = {}
  /\ clamped = {}
  /\ done = FALSE

\* Mutant: the deals are not sorted.
AnyOrder(deal) == TRUE

\* Deals are sorted by their timestamps; those of one millisecond come in the order of
\* their ids as strings, which may be any.
InOrder(deal) == \A k \in Indices : deals[k].time <= deal.time

Take(deal) ==
  /\ ~done
  /\ Len(deals) < MaxDeals
  /\ InOrder(deal)
  /\ deals' = Append(deals, deal)
  /\ UNCHANGED done

This == Len(deals) + 1     \* the place of the deal being taken

Skip ==
  /\ skipped' = skipped \cup {This}
  /\ UNCHANGED <<ledgers, positions, clamped>>

\* Mutant: every entry opens a ledger.
EnterAfresh(d, deal) ==
  /\ Take(deal)
  /\ deal.side = EntrySide(d) /\ deal.vol > 0
  /\ ledgers' = [ledgers EXCEPT ![d] = NewLedger(deal, This)]
  /\ UNCHANGED <<positions, skipped, clamped>>

\* _handle_entry
Enter(d, deal) ==
  /\ Take(deal)
  /\ deal.side = EntrySide(d) /\ deal.vol > 0
  /\ ledgers' = [ledgers EXCEPT ![d] =
       IF @ = NoLedger THEN NewLedger(deal, This) ELSE AddEntry(@, deal, This)]
  /\ UNCHANGED <<positions, skipped, clamped>>

SkipEntry(d, deal) ==
  /\ Take(deal)
  /\ deal.side = EntrySide(d) /\ deal.vol <= 0
  /\ Skip

\* _handle_exit
HasOpen(d) == ledgers[d] # NoLedger /\ ledgers[d].open > 0

\* Mutant: an exit that exceeds the open volume is skipped.
SkipExcess(d, deal) ==
  /\ Take(deal)
  /\ deal.side = ExitSide(d)
  /\ HasOpen(d) => deal.vol <= 0 \/ deal.vol > ledgers[d].open
  /\ Skip

SkipExit(d, deal) ==
  /\ Take(deal)
  /\ deal.side = ExitSide(d)
  /\ ~HasOpen(d) \/ deal.vol <= 0
  /\ Skip

WarnExcess(d, deal) ==
  clamped' = IF deal.vol > ledgers[d].open THEN clamped \cup {This} ELSE clamped

ExitInPart(d, deal) ==
  LET after == AddExit(ledgers[d], deal, This)
  IN
  /\ Take(deal)
  /\ deal.side = ExitSide(d) /\ HasOpen(d) /\ deal.vol > 0
  /\ after.open # 0
  /\ ledgers' = [ledgers EXCEPT ![d] = after]
  /\ WarnExcess(d, deal)
  /\ UNCHANGED <<positions, skipped>>

\* Mutant: the ledger is kept when its position is closed.
ExitAllKeepsLedger(d, deal) ==
  LET after == AddExit(ledgers[d], deal, This)
  IN
  /\ Take(deal)
  /\ deal.side = ExitSide(d) /\ HasOpen(d) /\ deal.vol > 0
  /\ after.open = 0
  /\ positions' = Append(positions, ToModel(d, after, "closed", deal.time))
  /\ ledgers' = [ledgers EXCEPT ![d] = after]
  /\ WarnExcess(d, deal)
  /\ UNCHANGED skipped

ExitAll(d, deal) ==
  LET after == AddExit(ledgers[d], deal, This)
  IN
  /\ Take(deal)
  /\ deal.side = ExitSide(d) /\ HasOpen(d) /\ deal.vol > 0
  /\ after.open = 0
  /\ positions' = Append(positions, ToModel(d, after, "closed", deal.time))
  /\ ledgers' = [ledgers EXCEPT ![d] = NoLedger]
  /\ WarnExcess(d, deal)
  /\ UNCHANGED skipped

SkipUnknownSide(deal) ==
  /\ Take(deal)
  /\ deal.side \notin Sides
  /\ Skip

\* The ledgers that are left become open positions, the long one first.
OpenPosition(d) ==
  IF HasOpen(d) THEN <<ToModel(d, ledgers[d], "open", NoTime)>> ELSE <<>>

Finish ==
  /\ ~done
  /\ done' = TRUE
  /\ positions' = positions \o OpenPosition("long") \o OpenPosition("short")
  /\ UNCHANGED <<deals, ledgers, skipped, clamped>>

Next ==
  \/ \E d \in Direction, deal \in Deals :
       \/ Enter(d, deal)
       \/ SkipEntry(d, deal)
       \/ SkipExit(d, deal)
       \/ ExitInPart(d, deal)
       \/ ExitAll(d, deal)
  \/ \E deal \in Deals : SkipUnknownSide(deal)
  \/ Finish

Spec == Init /\ [][Next]_vars
-----------------------------------------------------------------------------
(* What readers of the positions use: PositionContextService.               *)

\* The timeline of a position that has no links: all deals of its time.
InferredDeals(p) ==
  {k \in Indices : /\ p.opened <= deals[k].time
                   /\ p.closedAt # NoTime => deals[k].time <= p.closedAt}

-----------------------------------------------------------------------------
(* Properties.                                                             *)

\* Deals, ledgers and positions have the shape of their classes and tables.
TypeOK ==
  /\ deals \in Seq(Deals)
  /\ Len(deals) <= MaxDeals
  /\ ledgers \in [Direction -> LedgerRecord \cup {NoLedger}]
  /\ positions \in Seq(Position)
  /\ skipped \subseteq Indices
  /\ clamped \subseteq Indices
  /\ done \in BOOLEAN

\* The directions whose ledger has not become a position.
Live == {d \in Direction : ~done /\ ledgers[d] # NoLedger}

\* Volumes balance: a ledger that is kept has an open volume, which is what its entries
\* brought in and its exits have not taken out; a closed position took out all of it, and
\* no open position did (add_entry, add_exit, the clamping of _handle_exit).
VolumesBalance ==
  /\ \A d \in Direction :
       ledgers[d] # NoLedger =>
         ledgers[d].open > 0 /\ ledgers[d].open + ledgers[d].closed = ledgers[d].total
  /\ \A k \in DOMAIN positions :
       IF positions[k].status = "closed" THEN positions[k].closed = positions[k].total
       ELSE positions[k].closed < positions[k].total

\* Every deal is linked to exactly one position (or to a ledger that will become one), or
\* a warning says that it was skipped, and never both: no deal disappears and none counts
\* twice (raw_deal_ids, warnings).
EachDealOnce ==
  /\ \A k \in Indices :
       \/ k \in skipped
       \/ \E p \in DOMAIN positions : k \in positions[p].links
       \/ \E d \in Live : k \in ledgers[d].links
  /\ \A p \in DOMAIN positions :
       /\ positions[p].links \cap skipped = {}
       /\ \A q \in DOMAIN positions : p # q => positions[p].links \cap positions[q].links = {}
       /\ \A d \in Live : positions[p].links \cap ledgers[d].links = {}
  /\ \A d \in Live :
       /\ ledgers[d].links \cap skipped = {}
       /\ \A e \in Live : d # e => ledgers[d].links \cap ledgers[e].links = {}

\* The positions of one direction follow one another: only the last can be open, and each
\* is closed before the next is opened; so is the last before the ledger that is left.
PositionsFollow ==
  \A p \in DOMAIN positions :
    /\ \A q \in DOMAIN positions :
         p < q /\ positions[p].direction = positions[q].direction =>
           positions[p].status = "closed" /\ positions[p].closedAt <= positions[q].opened
    /\ \A d \in Live :
         positions[p].direction = d =>
           positions[p].status = "closed" /\ positions[p].closedAt <= ledgers[d].opened

\* The linked deals of a position are deals of its direction within its time, so a
\* timeline inferred from the times lacks none of them; the first of them is the entry
\* that opened it, which is where the opening order is looked up.
LinksWithinTimeline ==
  \A p \in DOMAIN positions :
    LET pos == positions[p]
    IN  /\ pos.links \subseteq InferredDeals(pos)
        /\ \A k \in pos.links :
             deals[k].side \in {EntrySide(pos.direction), ExitSide(pos.direction)}
        /\ \E first \in pos.links :
             /\ deals[first].side = EntrySide(pos.direction)
             /\ deals[first].time = pos.opened
             /\ \A k \in pos.links : first <= k

Opens(deal, d) == deal.side = EntrySide(d)
Closes(deal, d) == deal.side = ExitSide(d)

OpenVolume(d) == IF ledgers[d] = NoLedger THEN 0 ELSE ledgers[d].open

Summary(ps) ==
  [k \in DOMAIN ps |-> [direction |-> ps[k].direction, status |-> ps[k].status]]

Book ==
  INSTANCE HedgeBook WITH
    volume <- [d \in Direction |-> OpenVolume(d)],
    reported <- Summary(positions),
    settled <- done

\* The ledgers implement a hedge book: whatever deals are stored, the open volume of a
\* direction moves with its own deals only, stops at zero, and each return to zero makes
\* one closed position.
ImplementsHedgeBook == Book!BookSpec

-----------------------------------------------------------------------------
(* The inductive invariant behind these properties.                        *)

\* Some links of direction d, from the entry at "opened" on.
LinksOK(d, links, opened) ==
  /\ links \subseteq Indices
  /\ \A k \in links : /\ opened <= deals[k].time
                      /\ deals[k].side \in {EntrySide(d), ExitSide(d)}
  /\ \E first \in links : /\ deals[first].side = EntrySide(d)
                          /\ deals[first].time = opened
                          /\ \A k \in links : first <= k

LedgerOK(d) == ledgers[d] # NoLedger => LinksOK(d, ledgers[d].links, ledgers[d].opened)

\* A closed position was closed by a deal; the open ones come with the end of the walk.
PositionOK(pos) ==
  /\ LinksOK(pos.direction, pos.links, pos.opened)
  /\ IF pos.status = "closed"
     THEN /\ \E k \in Indices : deals[k].time = pos.closedAt
          /\ \A k \in pos.links : deals[k].time <= pos.closedAt
     ELSE done /\ pos.closedAt = NoTime

IInv ==
  /\ TypeOK
  /\ VolumesBalance
  /\ EachDealOnce
  /\ PositionsFollow
  /\ \A d \in Direction : LedgerOK(d)
  /\ \A p \in DOMAIN positions : PositionOK(positions[p])
=============================================================================
