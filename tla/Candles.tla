------------------------------- MODULE Candles -------------------------------
(***************************************************************************)
(* Candles of one symbol, and the indicator snapshots calculated from them: *)
(* POST /positions/{id}/indicator-snapshots and the two services it calls.  *)
(*                                                                         *)
(* A request is a coroutine: it fetches the candles of each time frame in   *)
(* segments, stores a time frame when it is complete, and calculates all    *)
(* snapshots at the end.  Other requests run while it waits for MEXC.  A     *)
(* candle is stored once, under the time at which it begins, also when it   *)
(* was still forming.                                                      *)
(***************************************************************************)
EXTENDS Indicators

CONSTANTS
  Requests,      \* the requests that may be made
  Positions,     \* records [opened, closed], of which closed may be None
  Width,         \* time frame -> the length of a candle
  Orders,        \* sequences of time frames a request may ask for
  Warmup,        \* INDICATOR_WARMUP_CANDLES
  MaxPerRequest, \* MAX_CANDLES_PER_REQUEST
  Moments,       \* bound: the times at which something happens
  Charts         \* time frame -> time -> the candle of the exchange

ASSUME CandlesAssumption ==
  /\ \A frame \in DOMAIN Width : Width[frame] \in Nat \ {0}
  /\ MaxPerRequest \in Nat \ {0} /\ Warmup \in Nat

ASSUME RequestsAssumption ==
  /\ None \notin Int /\ Moments # {} /\ Moments \subseteq Nat
  /\ \A p \in Positions :
       p.opened \in Int /\ (p.closed # None => p.closed \in Int /\ p.opened <= p.closed)
  /\ \A order \in Orders : order # << >> /\ order \in Seq(DOMAIN Width)

\* The candles of a time frame do not overlap.
ASSUME ChartsAssumption ==
  \A c \in Charts : \A frame \in DOMAIN Width :
    /\ DOMAIN c[frame] \subseteq Int
    /\ \A t, u \in DOMAIN c[frame] : t < u => t + Width[frame] <= u
    /\ \A t \in DOMAIN c[frame] : c[frame][t] \in Candle

VARIABLES
  clock,
  chart,         \* what the exchange knows of each time frame
  candles,       \* the table: time frame -> time -> candle
  snapshots,     \* the table: (position, time frame, anchor) -> its values, and the candles
                 \* they were calculated from
  request,       \* what each request works on
  pc             \* where it is, or how it ended

vars == <<clock, chart, candles, snapshots, request, pc>>

Ended == {"new", "ok", "upstream", "lost"}
NoRequest == [position |-> None]
Frames == DOMAIN Width
Empty == [x \in {} |-> None]

\* new @@ old.
Over(new, old) ==
  [x \in DOMAIN new \cup DOMAIN old |-> IF x \in DOMAIN new THEN new[x] ELSE old[x]]

Init ==
  /\ clock = Min(Moments)
  /\ chart \in Charts
  /\ candles = [frame \in Frames |-> Empty]
  /\ snapshots = Empty
  /\ request = [s \in Requests |-> NoRequest]
  /\ pc = [s \in Requests |-> "new"]

Tick ==
  /\ \E t \in Moments : t > clock /\ clock' = Min({u \in Moments : u > clock})
  /\ UNCHANGED <<chart, candles, snapshots, request, pc>>

-----------------------------------------------------------------------------
\* ensure_candles_for_position: the range of a time frame, its end read from the clock when
\* the position is open.
Start(position, frame) == position.opened - Warmup * Width[frame]
Asked(position, order, left) ==
  [position |-> position, order |-> order, left |-> left,
   next |-> Start(position, Head(left)),
   end |-> IF position.closed = None THEN clock ELSE position.closed,
   fetched |-> Empty]

Begin(s) ==
  \E position \in Positions, order \in Orders :
    /\ pc[s] = "new" /\ position.opened <= clock
    /\ position.closed # None => position.closed <= clock
    /\ request' = [request EXCEPT ![s] = Asked(position, order, order)]
    /\ pc' = [pc EXCEPT ![s] = "fetch"]
    /\ UNCHANGED <<clock, chart, candles, snapshots>>

\* A candle that has not closed shows its open alone.
Forming(c) == [c EXCEPT !.high = c.open, !.low = c.open, !.close = c.open]

\* The exchange: the candles that begin in the range, at most as many as it gives at once.
Klines(frame, from, to) ==
  LET known == {t \in DOMAIN chart[frame] : from <= t /\ t <= to /\ t <= clock}
      given == {t \in known : Cardinality({u \in known : u < t}) < MaxPerRequest}
  IN  [t \in given |-> IF t + Width[frame] <= clock THEN chart[frame][t]
                       ELSE Forming(chart[frame][t])]

\* Mutant: a segment is one candle too long.
SegmentEndFull(from, end, width) == Min({end, from + width * MaxPerRequest})

SegmentEnd(from, end, width) == Min({end, from + width * (MaxPerRequest - 1)})
NextStart(segmentEnd, width) == segmentEnd + width

\* No coroutine runs: each of them waits for MEXC.
LoopIsFree == \A q \in Requests : pc[q] \notin {"store", "calculate"}
End(s, outcome) ==
  /\ pc' = [pc EXCEPT ![s] = outcome]
  /\ request' = [request EXCEPT ![s] = NoRequest]

\* The first answer that gave a candle counts.
FetchSegment(s) ==
  LET r == request[s]
      frame == Head(r.left)
      end == SegmentEnd(r.next, r.end, Width[frame])
      next == NextStart(end, Width[frame])
  IN
  /\ pc[s] = "fetch" /\ LoopIsFree
  /\ \/ /\ request' = [request EXCEPT ![s] =
              [r EXCEPT !.fetched = Over(@, Klines(frame, r.next, end)), !.next = next]]
        /\ pc' = [pc EXCEPT ![s] = IF next <= r.end THEN "fetch" ELSE "store"]
     \/ End(s, "upstream")
  /\ UNCHANGED <<clock, chart, candles, snapshots>>

\* fetch_and_store_candles, its transaction; then the next time frame is fetched.
Store(s) ==
  LET r == request[s]
      frame == Head(r.left)
      left == Tail(r.left)
  IN
  /\ pc[s] = "store"
  /\ candles' = [candles EXCEPT ![frame] = Over(@, r.fetched)]
  /\ IF left = <<>>
     THEN pc' = [pc EXCEPT ![s] = "calculate"] /\ UNCHANGED request
     ELSE /\ request' = [request EXCEPT ![s] = Asked(r.position, r.order, left)]
          /\ pc' = [pc EXCEPT ![s] = "fetch"]
  /\ UNCHANGED <<clock, chart, snapshots>>

-----------------------------------------------------------------------------
\* _load_candles_for_snapshot: all that are stored, from the first to the anchor.
UpTo(frame, anchor) ==
  LET times == {t \in DOMAIN candles[frame] : t <= anchor}
  IN  [t \in times |-> candles[frame][t]]

Nth(times, n) == CHOOSE t \in times : Cardinality({u \in times : u < t}) = n - 1
Bars(loaded) ==
  LET times == DOMAIN loaded
  IN  [n \in 1 .. Cardinality(times) |-> loaded[Nth(times, n)]]

\* _snapshot_anchors
Anchors(position) ==
  [anchor \in IF position.closed = None THEN {"entry"} ELSE {"entry", "exit"} |->
     IF anchor = "entry" THEN position.opened ELSE position.closed]

Snapshot(loaded) == [used |-> loaded, values |-> SnapshotValues(Bars(loaded))]

\* calculate_snapshots, one transaction: without candles there is a warning and no snapshot.
Calculate(s) ==
  LET r == request[s]
      keys == {[position |-> r.position, frame |-> r.order[i], anchor |-> anchor] :
                 i \in DOMAIN r.order, anchor \in DOMAIN Anchors(r.position)}
      Loaded(key) == UpTo(key.frame, Anchors(r.position)[key.anchor])
      found == {key \in keys : DOMAIN Loaded(key) # {}}
  IN
  /\ pc[s] = "calculate"
  /\ snapshots' = Over([key \in found |-> Snapshot(Loaded(key))], snapshots)
  /\ End(s, "ok")
  /\ UNCHANGED <<clock, chart, candles>>

\* The database fails a transaction, and the request with it.
Lose(s) ==
  /\ pc[s] \in {"store", "calculate"}
  /\ End(s, "lost")
  /\ UNCHANGED <<clock, chart, candles, snapshots>>

Next ==
  \/ Tick
  \/ \E s \in Requests : Begin(s) \/ FetchSegment(s) \/ Store(s) \/ Calculate(s) \/ Lose(s)

Spec == Init /\ [][Next]_vars

-----------------------------------------------------------------------------
(* Properties                                                              *)

\* Strictly between two segments of a range that starts off the grid of the candles.
Between(start, t, width) ==
  \E k \in 0 .. t - start : /\ start + width * (MaxPerRequest * (k + 1) - 1) < t
                           /\ t < start + width * MaxPerRequest * (k + 1)

\* The candles used for a snapshot are those of its window.
Whole(key, used) ==
  LET width == Width[key.frame]
      start == Start(key.position, key.frame)
      anchor == IF key.anchor = "entry" THEN key.position.opened ELSE key.position.closed
      due == {t \in DOMAIN chart[key.frame] :
                start <= t /\ t <= anchor /\ ~Between(start, t, width)}
  IN  due \subseteq used /\ \A t \in used : t <= anchor

\* A snapshot is calculated from every candle the exchange has between the start of the
\* warm-up and the anchor, and from none after it, whatever requests overlap and fail
\* (fetch_and_store_candles, _load_candles_for_snapshot).  Only a candle that begins between
\* two segments may be missing.
WindowWhole == \A key \in DOMAIN snapshots : Whole(key, DOMAIN snapshots[key].used)

\* The numbers of a snapshot can be relied on.  A value is there exactly when there are
\* candles enough for it, the relative volume when something was traded besides; RSI and
\* stochastic RSI stay within their scale; and while the supertrend keeps its direction its
\* line follows the price and never gives way, unless the price closed on the wrong side of
\* the line.
Present(v, bars, n) ==
  /\ v.rsi_14 # None <=> n > Lengths.rsi
  /\ v.stoch_rsi.k # None <=> n >= Lengths.rsi + Lengths.stoch + Lengths.k - 1
  /\ v.stoch_rsi.d # None <=> n >= Lengths.rsi + Lengths.stoch + Lengths.k + Lengths.d - 2
  /\ v.macd.macd # None <=> n >= Lengths.slow
  /\ v.macd.signal # None <=> n >= Lengths.slow + Lengths.signal - 1
  /\ v.supertrend.value # None <=> n > Lengths.trend
  /\ v.trend_label # None <=> v.macd.signal # None /\ v.supertrend.direction # None
  /\ v.atr_14 # None <=> n > Lengths.atr
  /\ v.volume_relative # None <=>
       n >= Lengths.volume /\ \E i \in n - Lengths.volume + 1 .. n : bars[i].volume # 0
Percent(v) == v # None => ~Less(v, Zero) /\ ~Less(Q(100, 1), v)
Ratchet(before, close, after) ==
  before.direction = after.direction =>
    IF after.direction = "bullish"
    THEN before.value <= close * Scale => before.value <= after.value
    ELSE before.value >= close * Scale => before.value >= after.value
Sound(v, bars) ==
  LET n == Len(bars)
      before == SubSeq(bars, 1, n - 1)
  IN  /\ Present(v, bars, n)
      /\ Percent(v.rsi_14) /\ Percent(v.stoch_rsi.k) /\ Percent(v.stoch_rsi.d)
      /\ n > Lengths.trend + 1 =>
           Ratchet(Supertrend(before), before[n - 1].close, v.supertrend)
SnapshotSound ==
  \A key \in DOMAIN snapshots : Sound(snapshots[key].values, Bars(snapshots[key].used))

\* The engine does not take sides: prices turned upside down turn the supertrend, the label
\* and every pattern.  A first close in the middle of its candle is the one exception: it
\* counts as bullish either way up (_supertrend).
TurnedBar(c) == [open |-> -c.open, high |-> -c.low, low |-> -c.high, close |-> -c.close,
                 volume |-> c.volume]
Turned(bars) == [i \in DOMAIN bars |-> TurnedBar(bars[i])]
Reversed == [bullish |-> "bearish", bearish |-> "bullish", mixed |-> "mixed", doji |-> "doji",
            hammer |-> "shooting_star", shooting_star |-> "hammer",
            bullish_engulfing |-> "bearish_engulfing", bearish_engulfing |-> "bullish_engulfing",
            morning_star |-> "evening_star", evening_star |-> "morning_star"]
Opposite(word) == IF word = None THEN None ELSE Reversed[word]
Mirrors(turned, v, bars) ==
  LET seed == Lengths.trend + 1
  IN  /\ turned.candlestick_patterns = {Opposite(p) : p \in v.candlestick_patterns}
      /\ Len(bars) < seed \/ 2 * bars[seed].close # bars[seed].high + bars[seed].low =>
           /\ turned.supertrend.direction = Opposite(v.supertrend.direction)
           /\ turned.trend_label = Opposite(v.trend_label)
MirrorTurns ==
  \A key \in DOMAIN snapshots :
    LET bars == Bars(snapshots[key].used)
    IN  \A turned \in {SnapshotValues(Turned(bars))} :
          Mirrors(turned, snapshots[key].values, bars)
=============================================================================
