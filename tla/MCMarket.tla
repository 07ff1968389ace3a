------------------------------ MODULE MCMarket ------------------------------
(* Small instance of Candles and Indicators for TLC. *)
EXTENDS Candles, TLC

CONSTANTS r1, r2

SomePositions ==
  {[opened |-> 9, closed |-> 12], [opened |-> 10, closed |-> 13], [opened |-> 11, closed |-> None]}
Widths == [hour |-> 2, day |-> 4]
SomeOrders == {<<"hour">>, <<"day", "hour">>}
ShortLengths == [rsi |-> 2, stoch |-> 2, k |-> 2, d |-> 2, fast |-> 2, slow |-> 3, signal |-> 2,
                 trend |-> 2, atr |-> 2, volume |-> 2]

\* The exchange lists the symbol at 2.  Candles alternate long and short shadows; nothing is
\* traded from 8 to 12.
Hours == {2, 4, 6, 8, 10, 12}
Hour(close, t) ==
  LET open == IF t = 2 THEN 3 ELSE close[t - 2]
      top == Max({open, close[t]})
      bottom == Min({open, close[t]})
  IN  [open |-> open, close |-> close[t], volume |-> IF t = 10 THEN 0 ELSE t % 4,
       high |-> top + (IF t % 6 = 0 THEN 3 ELSE 0), low |-> bottom - (IF t % 6 = 2 THEN 3 ELSE 1)]
Day(hours, t) ==
  [open |-> hours[t].open, close |-> hours[t + 2].close, volume |-> hours[t + 2].volume,
   high |-> Max({hours[t].high, hours[t + 2].high}), low |-> Min({hours[t].low, hours[t + 2].low})]
SomeCharts ==
  {[hour |-> hours, day |-> [t \in {4, 8} |-> Day(hours, t)]] :
     hours \in {[t \in Hours |-> Hour(close, t)] :
       close \in {c \in [Hours -> {1, 3, 7}] :
                    c[2] = 3 /\ c[8] = c[4] /\ c[10] # c[6] /\ c[12] = c[6]}}}

Symmetry == Permutations(Requests)
=============================================================================
