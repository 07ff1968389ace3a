------------------------------ MODULE HedgeBook ------------------------------
(***************************************************************************)
(* What the position reconstructor promises, without its ledgers: a hedge  *)
(* book.  Every deal moves the volume of at most one direction, and no     *)
(* volume falls below zero.  When the volume of a direction comes back to  *)
(* zero one closed position is reported; when the deals are over, one open *)
(* position for each direction that still has a volume.                    *)
(***************************************************************************)
EXTENDS Integers, Sequences

CONSTANTS
  Deals,           \* the deals
  Opens(_, _),     \* Opens(deal, d): the deal is an entry of direction d
  Closes(_, _)     \* Closes(deal, d): the deal is an exit of direction d

VARIABLES
  deals,      \* the deals so far
  volume,     \* volume[d]: the volume held in direction d
  reported,   \* directions and states of the positions, in order
  settled     \* the deals are over

bookVars == <<deals, volume, reported, settled>>

Direction == {"long", "short"}

BookInit ==
  /\ deals = <<>>
  /\ volume = [d \in Direction |-> 0]
  /\ reported = <<>>
  /\ settled = FALSE

\* The volume of direction d after a deal; a volume that is not positive moves nothing.
After(deal, d) ==
  IF deal.vol <= 0 THEN volume[d]
  ELSE IF Opens(deal, d) THEN volume[d] + deal.vol
  ELSE IF ~Closes(deal, d) THEN volume[d]
  ELSE IF deal.vol < volume[d] THEN volume[d] - deal.vol
  ELSE 0

ReportOne(d, status, directions) ==
  IF d \in directions THEN <<[direction |-> d, status |-> status]>> ELSE <<>>

Report(status, directions) ==
  ReportOne("long", status, directions) \o ReportOne("short", status, directions)

Book(deal) ==
  /\ ~settled
  /\ deals' = Append(deals, deal)
  /\ volume' = [d \in Direction |-> After(deal, d)]
  /\ reported' = reported
       \o Report("closed", {d \in Direction : volume[d] > 0 /\ After(deal, d) = 0})
  /\ UNCHANGED settled

Settle ==
  /\ ~settled
  /\ settled' = TRUE
  /\ reported' = reported \o Report("open", {d \in Direction : volume[d] > 0})
  /\ UNCHANGED <<deals, volume>>

BookNext ==
  \/ \E deal \in Deals : Book(deal)
  \/ Settle

BookSpec == BookInit /\ [][BookNext]_bookVars
=============================================================================
