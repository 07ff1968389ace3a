-------------------------- MODULE PlanEvaluation --------------------------
(***************************************************************************)
(* The rules of a trading plan: which of them the schema accepts, how it    *)
(* normalises their configuration, and what an enabled rule says of a       *)
(* position.  A list of texts is the set of its words, a decimal is a       *)
(* number of halves.                                                       *)
(***************************************************************************)
EXTENDS Integers, Sequences, FiniteSets

CONSTANTS
  Timeframes,    \* SUPPORTED_TIMEFRAMES
  Canonical,     \* for each word, the word stripped and in the case the schema stores
  Missing,       \* None, an absent key, an empty text
  NotNumeric     \* a text that is no finite decimal

RuleTypes == {"manual_check", "allowed_symbols", "required_timeframes", "max_trades_per_day",
              "max_leverage", "max_risk_per_trade", "min_risk_reward", "indicator_condition",
              "candlestick_pattern", "stop_loss"}
NumericIndicators == {"rsi_14", "stoch_rsi_k", "stoch_rsi_d", "macd", "macd_signal",
                      "macd_histogram", "atr_14", "volume_relative"}
Indicators == NumericIndicators \cup {"supertrend_direction", "trend_label"}
Orderings == {"lt", "lte", "gt", "gte"}
Equalities == {"eq", "neq"}
Memberships == {"in", "not_in"}
Patterns == {"doji", "hammer", "shooting_star", "bullish_engulfing", "bearish_engulfing",
             "morning_star", "evening_star"}
LimitTypes == {"max_leverage", "max_risk_per_trade", "min_risk_reward"}

\* Stripping a word and putting it in its case again changes nothing, and the names the schema
\* itself gives are as it stores them.
ASSUME WordsAssumption ==
  /\ \A w \in DOMAIN Canonical :
       Canonical[w] \in DOMAIN Canonical /\ Canonical[Canonical[w]] = Canonical[w]
  /\ \A w \in {"entry", "all", "long", "short", "any"} : w \in DOMAIN Canonical /\ Canonical[w] = w
  /\ Timeframes \subseteq DOMAIN Canonical

\* None is no number, no word and no name of the schema.
ASSUME MissingAssumption ==
  /\ Missing \notin Int /\ Missing \notin DOMAIN Canonical
  /\ Missing \notin Indicators \cup Orderings \cup Equalities \cup Memberships

(***************************************************************************)
(* The schema                                                              *)
(***************************************************************************)
Get(config, key) == IF key \in DOMAIN config THEN config[key] ELSE Missing
OrElse(value, default) == IF value = Missing THEN default ELSE value
Words(value) == {Canonical[w] : w \in OrElse(value, {})} \ {""}
Word(config, key, default) == LET w == Get(config, key)
                              IN  IF w = Missing \/ Canonical[w] = "" THEN default
                                  ELSE Canonical[w]
IsLimit(value) == value = Missing \/ value \in Nat

\* "value" holds a number, "word" a text and "words" a list.
ConditionOK(config) ==
  LET indicator == Word(config, "indicator", Missing)
      operator == Word(config, "operator", Missing)
  IN  IF indicator \in NumericIndicators
      THEN operator \in Orderings \cup Equalities /\ Get(config, "value") \in Int
      ELSE /\ indicator \in Indicators
           /\ operator \in Equalities \cup Memberships
           /\ DOMAIN config \cap {"value", "word", "words"} # {}

\* A rule that validate_config does not refuse.
Valid(rule) ==
  LET config == rule.config IN
  /\ rule.type = "required_timeframes" => Words(Get(config, "timeframes")) \subseteq Timeframes
  /\ rule.type = "max_trades_per_day" =>
       IsLimit(Get(config, "limit")) /\ (Get(config, "limit") # Missing => config.limit % 2 = 0)
  /\ rule.type \in LimitTypes => IsLimit(Get(config, "limit"))
  /\ rule.type \in {"indicator_condition", "candlestick_pattern"} =>
       /\ Word(config, "timeframe", Missing) \in Timeframes
       /\ Word(config, "anchor", "entry") \in {"entry", "exit"}
  /\ rule.type \in {"indicator_condition", "candlestick_pattern", "stop_loss"} =>
       Word(config, "direction_scope", "all") \in {"all", "long", "short"}
  /\ rule.type = "indicator_condition" => ConditionOK(config)
  /\ rule.type = "candlestick_pattern" =>
       /\ Words(Get(config, "patterns")) # {}
       /\ Words(Get(config, "patterns")) \subseteq Patterns
       /\ Word(config, "match_mode", "any") \in {"any", "all"}
  /\ rule.type = "stop_loss" => IsLimit(Get(config, "max_distance_percent"))

\* Mutant: the default scope has the name the default match mode has.
DefaultsAny(type) ==
  IF type = "manual_check" THEN <<>> ELSE [anchor |-> "entry", direction_scope |-> "any"]

\* What validate_config stores in place of the values it was given.
Defaults(type) ==
  CASE type = "indicator_condition" -> [anchor |-> "entry", direction_scope |-> "all"]
    [] type = "candlestick_pattern" ->
         [anchor |-> "entry", direction_scope |-> "all", match_mode |-> "any"]
    [] type = "stop_loss" -> [direction_scope |-> "all"]
    [] OTHER -> <<>>
Lists == {"symbols", "timeframes", "patterns"}
Texts == {"timeframe", "anchor", "direction_scope", "indicator", "operator", "match_mode"}

Normalised(rule) ==
  LET default == Defaults(rule.type)
      Stored(key) == CASE key \in Lists -> Words(rule.config[key])
                       [] key \in Texts -> Word(rule.config, key, Get(default, key))
                       [] OTHER -> rule.config[key]
  IN  [rule EXCEPT !.config =
         [key \in DOMAIN rule.config \cup DOMAIN default |-> Stored(key)]]

(***************************************************************************)
(* Evaluation                                                              *)
(*                                                                         *)
(* A context is what a position is judged by: the position, its snapshots   *)
(* by time frame and anchor, the positions of its user, and the planned     *)
(* stop loss.                                                              *)
(***************************************************************************)
Decided(holds) == IF holds THEN "passed" ELSE "failed"
Applies(config, context) ==
  Word(config, "direction_scope", "all") \in {"all", context.position.direction}
SameDayCount(context) ==
  Cardinality({p \in context.positions : p.day = context.position.day})

Compare(observed, operator, expected) ==
  CASE operator = "lt" -> observed < expected
    [] operator = "lte" -> observed <= expected
    [] operator = "gt" -> observed > expected
    [] operator = "gte" -> observed >= expected
    [] operator = "eq" -> observed = expected
    [] operator = "neq" -> observed # expected

\* An equality compares with the text as it was given, a membership strips it.
CompareText(observed, operator, config) ==
  LET listed == Words(Get(config, "words")) \cup
                  (IF "word" \in DOMAIN config THEN {Canonical[config.word]} ELSE {})
      equal == observed = Get(config, "word")
  IN  CASE operator = "eq" -> equal
        [] operator = "neq" -> ~equal
        [] operator = "in" -> observed \in listed
        [] operator = "not_in" -> observed \notin listed

LimitStatus(observed, limit) ==
  IF Missing \in {observed, limit} THEN "unknown" ELSE Decided(observed <= limit)

SnapshotKey(config) == <<config.timeframe, Word(config, "anchor", "entry")>>
HasSnapshot(config, context) == SnapshotKey(config) \in DOMAIN context.snapshots

ConditionStatus(config, context) ==
  LET observed == context.snapshots[SnapshotKey(config)].values[config.indicator]
  IN  IF ~Applies(config, context) THEN "manual"
      ELSE IF ~HasSnapshot(config, context) \/ observed = Missing THEN "unknown"
      ELSE Decided(IF config.indicator \in NumericIndicators
                   THEN Compare(observed, config.operator, config.value)
                   ELSE CompareText(observed, config.operator, config))

\* Mutant: without a snapshot no pattern was detected.
PatternStatusOfNone(config, context) ==
  LET detected == IF HasSnapshot(config, context)
                  THEN context.snapshots[SnapshotKey(config)].patterns ELSE {}
  IN  IF ~Applies(config, context) THEN "manual"
      ELSE Decided(IF config.match_mode = "any" THEN config.patterns \cap detected # {}
                                               ELSE config.patterns \subseteq detected)

PatternStatus(config, context) ==
  LET detected == context.snapshots[SnapshotKey(config)].patterns
  IN  IF ~Applies(config, context) THEN "manual"
      ELSE IF ~HasSnapshot(config, context) THEN "unknown"
      ELSE Decided(IF config.match_mode = "any" THEN config.patterns \cap detected # {}
                                               ELSE config.patterns \subseteq detected)

\* Mutant: the side of the stop is that of a long position.
StopLossOfLong(config, context) ==
  LET side == context.position.entry - context.stop
  IN  IF ~Applies(config, context) THEN "manual"
      ELSE IF context.stop = Missing THEN "failed"
      ELSE Decided(side > 0)

StopLossStatus(config, context) ==
  LET entry == context.position.entry
      stop == context.stop
      limit == Get(config, "max_distance_percent")
      side == IF context.position.direction = "long" THEN entry - stop ELSE stop - entry
  IN  IF ~Applies(config, context) THEN "manual"
      ELSE IF stop = Missing THEN "failed"
      ELSE IF entry = Missing \/ entry <= 0 THEN "unknown"
      ELSE Decided(side > 0 /\ (limit = Missing \/ side * 200 <= limit * entry))

Status(rule, context) ==
  LET config == rule.config IN
  CASE rule.type = "manual_check" -> "manual"
    [] rule.type = "allowed_symbols" ->
         IF Words(Get(config, "symbols")) = {} THEN "unknown"
         ELSE Decided(context.position.symbol \in Words(config.symbols))
    [] rule.type = "required_timeframes" ->
         IF Words(Get(config, "timeframes")) = {} THEN "unknown"
         ELSE Decided(Words(config.timeframes) \subseteq {key[1] : key \in DOMAIN context.snapshots})
    [] rule.type = "max_trades_per_day" ->
         LimitStatus(2 * SameDayCount(context), Get(config, "limit"))
    [] rule.type = "max_leverage" -> LimitStatus(context.position.leverage, Get(config, "limit"))
    [] rule.type \in {"max_risk_per_trade", "min_risk_reward"} -> "unknown"
    [] rule.type = "indicator_condition" -> ConditionStatus(config, context)
    [] rule.type = "candlestick_pattern" -> PatternStatus(config, context)
    [] rule.type = "stop_loss" -> StopLossStatus(config, context)
=============================================================================
