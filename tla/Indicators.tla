----------------------------- MODULE Indicators -----------------------------
(***************************************************************************)
(* What IndicatorEngine computes from the candles up to an anchor.  The     *)
(* lengths of the windows are parameters, prices are integers and quotients *)
(* are exact.  A series is a sequence that holds None until there are       *)
(* enough candles.                                                         *)
(***************************************************************************)
EXTENDS Integers, SequencesExt

CONSTANTS
  None,
  Lengths      \* the record of RSI_LENGTH, STOCH_RSI_LENGTH and so on

ASSUME LengthsAssumption ==
  /\ \A key \in {"rsi", "stoch", "k", "d", "fast", "slow", "signal", "trend", "atr", "volume"} :
       Lengths[key] \in Nat \ {0}
  /\ Lengths.fast <= Lengths.slow

Candle == [open : Int, high : Int, low : Int, close : Int, volume : Nat]

\* Quotients of Decimal in lowest terms; every divisor below is positive.
Quotients == [n : Int, d : Nat \ {0}]
Gcd[p \in Nat \X Nat] == IF p[2] = 0 THEN p[1] ELSE Gcd[<<p[2], p[1] % p[2]>>]
Larger(a, b) == IF a < b THEN b ELSE a
Abs(x) == Larger(x, -x)
Q(n, d) == LET g == Gcd[<<Abs(n), d>>] IN [n |-> n \div g, d |-> d \div g]
Zero == Q(0, 1)
Plus(a, b) == Q(a.n * b.d + b.n * a.d, a.d * b.d)
Minus(a, b) == Q(a.n * b.d - b.n * a.d, a.d * b.d)
Times(a, b) == Q(a.n * b.n, a.d * b.d)
Less(a, b) == a.n * b.d < b.n * a.d
Lowest(S) == CHOOSE a \in S : \A b \in S : ~Less(b, a)
Highest(S) == CHOOSE a \in S : \A b \in S : ~Less(a, b)

SumOf(from, to, f) == SumFunctionOnSet(f, from .. to)
\* The sums of the values after a place.
Totals(values, from, to) ==
  LET total[i \in from .. to] == IF i = from THEN Zero ELSE Plus(total[i - 1], values[i])
  IN  total

\* The labels and the patterns.
Words == {"bullish", "bearish", "mixed", "doji", "hammer", "shooting_star", "bullish_engulfing",
          "bearish_engulfing", "morning_star", "evening_star"}

ASSUME NoneAssumption == None \notin Quotients \cup Int \cup Words

(***************************************************************************)
(* _rsi, _stoch_rsi                                                        *)
(***************************************************************************)
\* Without a move the code answers zero.
Rsi(closes, n) ==
  LET gains == [i \in 2 .. n |-> Larger(closes[i] - closes[i - 1], 0)]
      losses == [i \in 2 .. n |-> Larger(closes[i - 1] - closes[i], 0)]
      gain == SumOf(n - Lengths.rsi + 1, n, gains)
      loss == SumOf(n - Lengths.rsi + 1, n, losses)
  IN  IF n < Lengths.rsi + 1 THEN None
      ELSE IF gain + loss = 0 THEN Zero ELSE Q(100 * gain, gain + loss)

\* _simple_moving_average_series
Average(series, length) ==
  [n \in DOMAIN series |->
     IF n < length \/ (\E i \in n - length + 1 .. n : series[i] = None) THEN None
     ELSE Times(Totals(series, n - length, n)[n], Q(1, length))]

\* Where a value lies between the lowest and the highest of a window.
Stochastic(value, window) ==
  LET low == Lowest(window)
      span == Minus(Highest(window), low)
      above == Minus(value, low)
  IN  IF span.n = 0 THEN Zero ELSE Q(100 * above.n * span.d, above.d * span.n)

RawStochRsi(rsi) ==
  LET Window(n) == {rsi[i] : i \in Larger(1, n - Lengths.stoch + 1) .. n}
  IN  [n \in DOMAIN rsi |-> IF n < Lengths.stoch \/ None \in Window(n) THEN None
                            ELSE Stochastic(rsi[n], Window(n))]

StochRsi(closes) ==
  LET k == Average(RawStochRsi([n \in DOMAIN closes |-> Rsi(closes, n)]), Lengths.k)
  IN  [k |-> Last(k), d |-> Last(Average(k, Lengths.d))]

(***************************************************************************)
(* _ema_series, _macd                                                      *)
(***************************************************************************)
Smoothed(values, period) ==
  LET ema[i \in period .. Len(values)] ==
        IF i = period THEN Times(Totals(values, 0, period)[period], Q(1, period))
        ELSE LET previous == ema[i - 1]
             IN  Plus(Times(Minus(values[i], previous), Q(2, period + 1)), previous)
  IN  ema
Ema(values, period) ==
  LET ema == Smoothed(values, period)
  IN  [i \in DOMAIN values |-> IF i < period THEN None ELSE ema[i]]

Macd(closes) ==
  LET prices == [i \in DOMAIN closes |-> Q(closes[i], 1)]
      fast == Ema(prices, Lengths.fast)
      slow == Ema(prices, Lengths.slow)
      macd == [i \in Lengths.slow .. Len(closes) |-> Minus(fast[i], slow[i])]
      compact == [i \in 1 .. Len(closes) - Lengths.slow + 1 |-> macd[i + Lengths.slow - 1]]
  IN  IF Len(closes) < Lengths.slow THEN [macd |-> None, signal |-> None]
      ELSE [macd |-> Last(compact), signal |-> Last(Ema(compact, Lengths.signal))]

(***************************************************************************)
(* _atr_series, _supertrend                                                *)
(***************************************************************************)
\* The sum of the last true ranges, which is the average range times the length.
TrueRanges(bars, n, length) ==
  LET ranges == [i \in 2 .. n |->
        Max({bars[i].high - bars[i].low, Abs(bars[i].high - bars[i - 1].close),
             Abs(bars[i].low - bars[i - 1].close)})]
  IN  IF n < length + 1 THEN None ELSE SumOf(n - length + 1, n, ranges)

\* Mutant: the band of this candle counts, whatever came before.
LowerLoose(basic, previous, close) == basic

Upper(basic, previous, close) ==
  IF basic < previous \/ close > previous THEN basic ELSE previous
Lower(basic, previous, close) ==
  IF basic > previous \/ close < previous THEN basic ELSE previous

\* Bands and closes are scaled by twice the length of the range; the multiplier is one.
Scale == 2 * Lengths.trend
Middle(c) == (c.high + c.low) * Lengths.trend
Reach(bars, i) == 2 * TrueRanges(bars, i, Lengths.trend)
Directed(upper, lower, up) ==
  [upper |-> upper, lower |-> lower, up |-> up, value |-> IF up THEN lower ELSE upper]

\* The bands and the direction at a candle, from those at the one before.
Carried(bars, i, previous) ==
  LET close == bars[i].close * Scale
      before == bars[i - 1].close * Scale
      upper == Upper(Middle(bars[i]) + Reach(bars, i), previous.upper, before)
      lower == Lower(Middle(bars[i]) - Reach(bars, i), previous.lower, before)
  IN  Directed(upper, lower, IF previous.up THEN close >= lower ELSE close > upper)

Trend(bars) ==
  LET first == Lengths.trend + 1
      trend[i \in first .. Len(bars)] ==
        IF i = first
        THEN Directed(Middle(bars[i]) + Reach(bars, i), Middle(bars[i]) - Reach(bars, i),
                      bars[i].close * Scale >= Middle(bars[i]))
        ELSE Carried(bars, i, trend[i - 1])
  IN  trend

Supertrend(bars) ==
  LET last == Trend(bars)[Len(bars)]
  IN  IF Len(bars) < Lengths.trend + 1 THEN [value |-> None, direction |-> None]
      ELSE [value |-> last.value, direction |-> IF last.up THEN "bullish" ELSE "bearish"]

(***************************************************************************)
(* _candlestick_patterns                                                   *)
(***************************************************************************)
Body(c) == Abs(c.close - c.open)
CandleRange(c) == Larger(c.high - c.low, 0)
UpperShadow(c) == c.high - Larger(c.open, c.close)
\* Mutant: the shadow of every candle begins at its open.
LowerShadowOfOpen(c) == c.open - c.low
LowerShadow(c) == Min({c.open, c.close}) - c.low
Bullish(c) == c.close > c.open
Bearish(c) == c.close < c.open
Small(shadow, c) == 10 * shadow <= Larger(10 * Body(c), CandleRange(c))

Patterns(bars) ==
  LET n == Len(bars)
      c == bars[n]
      previous == bars[n - 1]
      first == bars[n - 2]
      pause == 100 * Body(previous) <= 35 * CandleRange(previous)
  IN  {p \in {"doji"} : CandleRange(c) > 0 /\ 10 * Body(c) <= CandleRange(c)} \cup
      {p \in {"hammer"} :
         CandleRange(c) > 0 /\ LowerShadow(c) >= 2 * Body(c) /\ Small(UpperShadow(c), c)} \cup
      {p \in {"shooting_star"} :
         CandleRange(c) > 0 /\ UpperShadow(c) >= 2 * Body(c) /\ Small(LowerShadow(c), c)} \cup
      {p \in {"bullish_engulfing"} : n >= 2 /\ Bearish(previous) /\ Bullish(c)
                                     /\ c.open <= previous.close /\ c.close >= previous.open} \cup
      {p \in {"bearish_engulfing"} : n >= 2 /\ Bullish(previous) /\ Bearish(c)
                                     /\ c.open >= previous.close /\ c.close <= previous.open} \cup
      {p \in {"morning_star"} : n >= 3 /\ Bearish(first) /\ pause /\ Bullish(c)
                                /\ 2 * c.close > first.open + first.close} \cup
      {p \in {"evening_star"} : n >= 3 /\ Bullish(first) /\ pause /\ Bearish(c)
                                /\ 2 * c.close < first.open + first.close}

\* _trend_label
TrendLabel(macd, direction) ==
  LET sign == IF Less(macd.signal, macd.macd) THEN "bullish"
              ELSE IF Less(macd.macd, macd.signal) THEN "bearish" ELSE "mixed"
  IN  IF None \in {macd.macd, macd.signal, direction} THEN None
      ELSE IF sign = direction THEN sign ELSE "mixed"

VolumeRelative(bars) ==
  LET n == Len(bars)
      sum == SumOf(n - Lengths.volume + 1, n, [i \in DOMAIN bars |-> bars[i].volume])
  IN  IF n < Lengths.volume THEN None
      ELSE IF sum = 0 THEN None ELSE Q(bars[n].volume * Lengths.volume, sum)

\* _calculate_snapshot_values
SnapshotValues(bars) ==
  LET closes == [i \in DOMAIN bars |-> bars[i].close]
      supertrend == Supertrend(bars)
      macd == Macd(closes)
  IN  [price |-> Last(closes), rsi_14 |-> Rsi(closes, Len(bars)), stoch_rsi |-> StochRsi(closes),
       macd |-> macd, supertrend |-> supertrend,
       atr_14 |-> TrueRanges(bars, Len(bars), Lengths.atr),
       volume_relative |-> VolumeRelative(bars),
       trend_label |-> TrendLabel(macd, supertrend.direction),
       candlestick_patterns |-> Patterns(bars)]
=============================================================================
