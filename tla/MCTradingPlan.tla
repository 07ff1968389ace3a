--------------------------- MODULE MCTradingPlan ---------------------------
(* Small instance of TradingPlan for TLC. *)
EXTENDS TradingPlan, TLC

Tfs == {"Min15", "Min60"}
Same == {"Min15", "Min60", "entry", "exit", "all", "long", "short", "any", "doji", "hammer",
         "rsi_14", "trend_label", "lte", "gt", "neq", "eq", "in", "not_in", "up", "BTC", ""}
Canon == [w \in Same |-> w] @@ (" " :> "" @@ " up" :> "up" @@ "btc" :> "BTC" @@ "Doji" :> "doji"
                                @@ " exit" :> "exit" @@ "Min7" :> "Min7")

Rule(type, order, config) == [type |-> type, sort_order |-> order, enabled |-> TRUE, config |-> config]
Rsi(operator, value) ==
  Rule("indicator_condition", 1,
       [timeframe |-> "Min15", indicator |-> "rsi_14", operator |-> operator, value |-> value])
Trend(operator, scope) ==
  Rule("indicator_condition", 1,
       [timeframe |-> "Min15", anchor |-> " exit", direction_scope |-> scope,
        indicator |-> "trend_label", operator |-> operator, word |-> " up"])

\* Lists that are accepted, and lists that are refused (the last three lines).
SomePayloads ==
  {<<>>,
   <<Rsi("lte", 60), Rule("manual_check", 0, <<>>), Rule("stop_loss", 1, <<>>), Trend("eq", "short"),
     Rule("stop_loss", 2, [direction_scope |-> "long", max_distance_percent |-> 10]),
     Trend("in", "all")>>,
   <<Rule("required_timeframes", 0, [timeframes |-> {"Min15", "Min60"}]),
     Rule("candlestick_pattern", 0, [timeframe |-> "Min60", patterns |-> {"Doji", " "}]),
     Rule("candlestick_pattern", 0, [timeframe |-> "Min60", patterns |-> {"doji", "hammer"},
                                     match_mode |-> "all"])>>,
   <<Rule("allowed_symbols", 0, [symbols |-> {"btc", " "}]),
     Rule("max_trades_per_day", 0, [limit |-> 2]),
     [Rule("max_leverage", 0, [limit |-> 5]) EXCEPT !.enabled = FALSE],
     Rule("max_risk_per_trade", 0, <<>>)>>,
   <<Rule("candlestick_pattern", 0, [timeframe |-> "Min60", patterns |-> {" "}])>>,
   <<Rsi("in", 60)>>, <<Rsi("gt", NotNumeric)>>, <<Rule("max_leverage", 0, [limit |-> -1])>>,
   <<Rule("max_trades_per_day", 0, [limit |-> 3])>>,
   <<Rule("required_timeframes", 0, [timeframes |-> {"Min7"}])>>}

Snapshot(rsi, trend, patterns) ==
  [values |-> [rsi_14 |-> rsi, trend_label |-> trend], patterns |-> patterns]
Snapshots ==
  (<<"Min15", "entry">> :> Snapshot(60, Missing, {}) @@ <<"Min15", "exit">> :> Snapshot(Missing, "up", {})
   @@ <<"Min60", "entry">> :> Snapshot(61, "up", {"doji"}))
Day(d) == [day |-> d, id |-> d]
\* Leverage at and above the limit, stops on both sides and at the limit of the distance, one
\* or two trades on the day.
SomeContexts ==
  {[position |-> [symbol |-> "BTC", direction |-> direction, leverage |-> c[1], entry |-> 100, day |-> 1],
    snapshots |-> Snapshots, positions |-> {Day(1), [day |-> c[2], id |-> 2]}, stop |-> c[3]] :
     direction \in {"long", "short"},
     c \in {<<Missing, 1, Missing>>, <<5, 1, 94>>, <<6, 2, 95>>, <<5, 2, 104>>}}
=============================================================================
