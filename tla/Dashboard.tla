------------------------------ MODULE Dashboard ------------------------------
(***************************************************************************)
(* The figures of RiskEngine.get_dashboard over the positions of one        *)
(* reconstructed symbol.  A quotient is the pair of what is divided.        *)
(***************************************************************************)
EXTENDS LedgerReference

\* Mutant: fees are added as MEXC reports them, not subtracted.
NetPnlPlusFees(p) == positions[p].pnl + positions[p].fees

\* No step of the reconstruction sets funding fees.
NetPnl(p) == positions[p].pnl - positions[p].fees

NetOf(S) == SumFunctionOnSet([p \in S |-> NetPnl(p)], S)

Divide(sum, count) == [sum |-> IF count = 0 THEN 0 ELSE sum, count |-> count]

GetDashboard ==
  LET all == DOMAIN positions
      closed == {p \in all : positions[p].status = "closed"}
      wins == {p \in closed : NetPnl(p) > 0}
      losses == {p \in closed : NetPnl(p) < 0}
  IN  [total_realized_pnl |-> SumFunctionOnSet([p \in all |-> positions[p].pnl], all),
       total_fees |-> SumFunctionOnSet([p \in all |-> positions[p].fees], all),
       net_pnl |-> NetOf(all),
       trade_count |-> Cardinality(closed),
       win_rate |-> Divide(100 * Cardinality(wins), Cardinality(closed)),
       average_win |-> Divide(NetOf(wins), Cardinality(wins)),
       average_loss |-> Divide(NetOf(losses), Cardinality(losses)),
       long_pnl |-> NetOf({p \in all : positions[p].direction = "long"}),
       short_pnl |-> NetOf({p \in all : positions[p].direction = "short"}),
       open_positions |-> Cardinality({p \in all : positions[p].status = "open"})]

\* The dashboard reconciles with the exchange: after a reconstruction its net result is the
\* profit of all closes less all fees of the deals that were not skipped, however they were
\* clamped (with a warning too) and split over rounds and directions; the averages account
\* for every closed position, and what they leave out is in the open ones (get_dashboard,
\* _net_pnl).
DashboardReconciles ==
  LET kept == Indices \ skipped
      exits == {k \in kept : deals[k].side \in {ExitSide(d) : d \in Direction}}
      shown == GetDashboard
      fees == SumFunctionOnSet(Fee, kept)
      open == {p \in DOMAIN positions : positions[p].status = "open"}
  IN  done =>
        /\ shown.net_pnl = SumFunctionOnSet(Profit, exits) - fees
        /\ shown.total_fees = fees
        /\ shown.long_pnl + shown.short_pnl = shown.net_pnl
        /\ shown.average_win.sum + shown.average_loss.sum + NetOf(open) = shown.net_pnl
        /\ shown.average_win.count + shown.average_loss.count <= shown.trade_count
        /\ shown.trade_count + shown.open_positions = Len(positions)
=============================================================================
