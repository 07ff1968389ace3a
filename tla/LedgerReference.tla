--------------------------- MODULE LedgerReference ---------------------------
(***************************************************************************)
(* Reference definitions for Ledger: what the positions of a sequence of   *)
(* deals are, computed from the whole sequence and not deal by deal.       *)
(***************************************************************************)
EXTENDS Ledger, FiniteSetsExt, Functions

\* What deal k adds to direction d when nothing stops at zero.
Signed(k, d) ==
  IF deals[k].vol <= 0 THEN 0
  ELSE IF deals[k].side = EntrySide(d) THEN deals[k].vol
  ELSE IF deals[k].side = ExitSide(d) THEN -deals[k].vol
  ELSE 0

Vol == [k \in Indices |-> deals[k].vol]
Worth == [k \in Indices |-> deals[k].vol * deals[k].price]
Fee == [k \in Indices |-> Abs(deals[k].fee)]
Profit == [k \in Indices |-> deals[k].profit]

Net(d, n) == SumFunctionOnSet([k \in Indices |-> Signed(k, d)], 1 .. n)
Nets(d) == {Net(d, n) : n \in 0 .. Len(deals)}

\* The open volume of a direction is its net volume measured from the lowest point the
\* net volume ever had: what is closed beyond zero is forgotten once and for all, and
\* never held against later entries (_handle_entry, _handle_exit).
OpenIsNetAboveLowest ==
  \A d \in Direction : OpenVolume(d) = Net(d, Len(deals)) - Min(Nets(d))

\* The figures of a position can be recomputed from its linked deals: entries add volume
\* and cost, exits count up to that volume, every linked deal pays its fee, every exit
\* brings its profit.
Entries(links, d) == {k \in links : deals[k].side = EntrySide(d)}
Exits(links, d) == links \ Entries(links, d)

AddsUp(figures, d) ==
  LET entries == Entries(figures.links, d)
      exits == Exits(figures.links, d)
  IN  /\ figures.total = SumFunctionOnSet(Vol, entries)
      /\ figures.cost = SumFunctionOnSet(Worth, entries)
      /\ figures.fees = SumFunctionOnSet(Fee, figures.links)
      /\ figures.pnl = SumFunctionOnSet(Profit, exits)

PositionAddsUp(pos) ==
  LET exits == Exits(pos.links, pos.direction)
      offered == SumFunctionOnSet(Vol, exits)
      excess == offered - pos.closed
      last == Max(pos.links)
  IN  /\ AddsUp(pos, pos.direction)
      /\ pos.closed <= offered
      /\ IF excess = 0
         THEN pos.exitCost = SumFunctionOnSet(Worth, exits)
         ELSE /\ pos.links \cap clamped = {last}
              /\ pos.exitCost = SumFunctionOnSet(Worth, exits) - excess * deals[last].price

FiguresFromLinks == \A p \in DOMAIN positions : PositionAddsUp(positions[p])

-----------------------------------------------------------------------------
(* The inductive invariant behind the figures: those of a ledger that is   *)
(* kept add up as well, and none of its deals was clamped.                 *)

LedgerAddsUp(d) ==
  ledgers[d] # NoLedger =>
    LET l == ledgers[d]
        exits == Exits(l.links, d)
    IN  /\ AddsUp(l, d)
        /\ l.closed = SumFunctionOnSet(Vol, exits)
        /\ l.exitCost = SumFunctionOnSet(Worth, exits)
        /\ l.links \cap clamped = {}

FiguresInv == IInv /\ FiguresFromLinks /\ \A d \in Direction : LedgerAddsUp(d)

\* The lowest net volume, which is there in every state.
OpenAboveLowest(d) ==
  \E low \in Nets(d) : /\ \A net \in Nets(d) : low <= net
                       /\ OpenVolume(d) = Net(d, Len(deals)) - low

NetInv == IInv /\ \A d \in Direction : Nets(d) \subseteq Int /\ OpenAboveLowest(d)
=============================================================================
