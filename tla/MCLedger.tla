------------------------------ MODULE MCLedger ------------------------------
(* Instances of Ledger for TLC.                                            *)
EXTENDS Dashboard

Deal(side, vol, price, fee, profit, time) ==
  [side |-> side, vol |-> vol, price |-> price, fee |-> fee, profit |-> profit,
   time |-> time]

\* Both directions, volumes that close exactly, in part and in excess, volumes that are not
\* positive, fees of both signs, a side MEXC does not document, and two instants.
SmallDeals ==
  UNION {{Deal(1, 1, 2, -1, 0, t), Deal(1, 2, 3, 1, 0, t), Deal(1, 0, 2, 1, 0, t),
          Deal(4, 1, 3, 1, 1, t), Deal(4, 2, 5, -1, -2, t), Deal(4, -1, 3, 1, 5, t),
          Deal(3, 1, 2, 1, 0, t), Deal(2, 2, 2, 2, 3, t),
          Deal(5, 1, 2, 1, 1, t)} : t \in 0 .. 1}

\* One direction with all volumes up to three, at one instant.
OneDirection ==
  {Deal(side, vol, side + vol, vol - 2, vol, 0) : side \in {3, 2}, vol \in 1 .. 3}

AllDeals == SmallDeals \cup OneDirection

\* Up to four deals of both directions, or longer rounds of one direction.
Explored ==
  LET taken == {deals[k] : k \in Indices}
  IN  (Len(deals) <= 4 /\ taken \subseteq SmallDeals) \/ taken \subseteq OneDirection
=============================================================================
