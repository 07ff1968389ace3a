--------------------------- MODULE MCBasketSync ---------------------------
(* Small instances of BasketSync for TLC. *)
EXTENDS BasketSync, TLC

CONSTANTS u1, u2, btc, eth, sol, manual, tick

\* Both items in the basket of one user, or a second basket beside it.
OneBasket == (btc :> u1 @@ eth :> u1)
TwoBaskets == (btc :> u1 @@ eth :> u1 @@ sol :> u2)
OneItem == (btc :> u1)

\* The two items of the first basket may change places.
SameBasket == Permutations({btc, eth})

\* The route uses the default of an hour, the scheduler its setting.
StaleSoon == (manual :> 2 @@ tick :> 1)
StaleNever == (manual :> 9 @@ tick :> 9)
=============================================================================
