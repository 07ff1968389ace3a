---------------------------- MODULE TradingPlan ----------------------------
(***************************************************************************)
(* The trading plan of one user under concurrent requests.  The routes run  *)
(* in the thread pool, each in a transaction of PostgreSQL at READ          *)
(* COMMITTED: a GET creates a plan that is missing, a PUT replaces the      *)
(* items.                                                                   *)
(***************************************************************************)
EXTENDS PlanEvaluation

CONSTANTS
  Sessions,      \* ORM sessions, one for each request under way
  Payloads,      \* sequences of rules a client may send
  MaxPuts,       \* bound: PUT requests
  NoPlan,        \* no row in trading_plans
  Contexts       \* contexts in which rules are evaluated

ASSUME PutsAssumption == MaxPuts \in Nat
\* A payload is a sequence of rules; under its keys a configuration holds words, or lists of them,
\* and None is no such list.
ASSUME PayloadsAssumption ==
  \A payload \in Payloads :
    /\ payload \in Seq({payload[i] : i \in DOMAIN payload})
    /\ \A i \in DOMAIN payload :
         /\ DOMAIN payload[i] = {"type", "sort_order", "enabled", "config"}
         /\ payload[i].sort_order \in Nat
         /\ payload[i].type \in RuleTypes
         /\ \A key \in DOMAIN payload[i].config :
              /\ key \in Lists =>
                   /\ OrElse(payload[i].config[key], {}) \subseteq DOMAIN Canonical
                   /\ Words(payload[i].config[key]) # Missing
              /\ key \in Texts =>
                   payload[i].config[key] \in DOMAIN Canonical \cup {Missing}
ASSUME ContextsAssumption ==
  \A context \in Contexts :
    /\ DOMAIN context = {"position", "snapshots", "positions", "stop"}
    /\ DOMAIN context.position = {"symbol", "direction", "leverage", "entry", "day"}
    /\ context.position.direction \in {"long", "short"}
    /\ context.position.entry \in Int \cup {Missing} /\ context.stop \in Int \cup {Missing}

VARIABLES
  puts,          \* the payloads of the PUT requests so far, normalised
  plan,          \* NoPlan, or the committed rows of trading_plan_items
  pc,            \* the statement a session runs next, or how its last request ended
  put,           \* the PUT a session serves, 0 for a GET
  loaded,        \* the item rows it loaded
  gone,          \* the item rows it deleted, uncommitted
  disturbed      \* history: another request was under way beside this one

vars == <<puts, plan, pc, put, loaded, gone, disturbed>>

Ended == {"idle", "done", "failed", "lost"}
Statements == {"create", "created", "delete", "touch", "insert"}
Busy(s) == pc[s] \notin Ended
Accepted == {p \in Payloads : \A i \in DOMAIN p : Valid(p[i])}

\* Items are sorted by the number the client gave them, stably, and numbered from zero.
Place(payload, i) ==
  Cardinality({j \in DOMAIN payload :
                 \/ payload[j].sort_order < payload[i].sort_order
                 \/ payload[j].sort_order = payload[i].sort_order /\ j < i})
Rows(n) == {[put |-> n, sort_order |-> Place(puts[n], i), rule |-> puts[n][i]] : i \in DOMAIN puts[n]}
PayloadOf(s) == IF put[s] = 0 THEN {} ELSE Rows(put[s])

Items == IF plan = NoPlan THEN {} ELSE plan

\* The enabled rules, which evaluate_position and to_review_context read.
ActiveRules == {row.rule : row \in {r \in Items : r.rule.enabled}}

Init ==
  /\ puts = <<>> /\ plan = NoPlan
  /\ pc = [s \in Sessions |-> "idle"]
  /\ put = [s \in Sessions |-> 0]
  /\ loaded = [s \in Sessions |-> {}]
  /\ gone = [s \in Sessions |-> {}]
  /\ disturbed = [s \in Sessions |-> FALSE]

\* _load_plan: the rows as committed now; with no plan the request goes on to insert one.
Load(s) ==
  /\ ~Busy(s)
  /\ loaded' = [loaded EXCEPT ![s] = Items]
  /\ LET others == {q \in Sessions : Busy(q)}
     IN  disturbed' = [q \in Sessions |-> IF q = s THEN others # {}
                                          ELSE disturbed[q] \/ q \in others]
  /\ UNCHANGED <<plan, gone>>

GetPlan(s) ==
  /\ plan = NoPlan
  /\ Load(s)
  /\ put' = [put EXCEPT ![s] = 0]
  /\ pc' = [pc EXCEPT ![s] = "create"]
  /\ UNCHANGED puts

PutPlan(s) ==
  /\ Len(puts) < MaxPuts
  /\ Load(s)
  /\ \E payload \in Accepted :
       puts' = Append(puts, [i \in DOMAIN payload |-> Normalised(payload[i])])
  /\ put' = [put EXCEPT ![s] = Len(puts')]
  /\ pc' = [pc EXCEPT ![s] = IF plan = NoPlan THEN "create" ELSE "delete"]

\* Mutant: a request that fails keeps its locks.
EndWithLocks(s, outcome) ==
  /\ pc' = [pc EXCEPT ![s] = outcome]
  /\ UNCHANGED <<puts, put, loaded, gone, disturbed>>

End(s, outcome) ==
  /\ pc' = [pc EXCEPT ![s] = outcome]
  /\ loaded' = [loaded EXCEPT ![s] = {}]
  /\ gone' = [gone EXCEPT ![s] = {}]
  /\ put' = [put EXCEPT ![s] = 0]
  /\ disturbed' = [disturbed EXCEPT ![s] = FALSE]
  /\ UNCHANGED puts

\* The INSERT waits for another that is not committed, then meets the unique user.
Creating(s) == pc[s] = "created"
CreatePlan(s) ==
  /\ pc[s] = "create"
  /\ ~\E q \in Sessions : Creating(q)
  /\ \/ /\ plan = NoPlan /\ put[s] # 0
        /\ pc' = [pc EXCEPT ![s] = "created"]
        /\ UNCHANGED <<puts, plan, put, loaded, gone, disturbed>>
     \/ plan = NoPlan /\ put[s] = 0 /\ plan' = {} /\ End(s, "done")
     \/ plan # NoPlan /\ End(s, "failed") /\ UNCHANGED plan

\* The DELETEs of the loaded rows wait for another that deleted one of them; rows that are
\* gone by then are passed over, with a warning.
DeleteItems(s) ==
  /\ pc[s] = "delete"
  /\ \A q \in Sessions \ {s} : gone[q] \cap loaded[s] = {}
  /\ gone' = [gone EXCEPT ![s] = loaded[s] \cap Items]
  /\ pc' = [pc EXCEPT ![s] = "touch"]
  /\ UNCHANGED <<puts, plan, put, loaded, disturbed>>

\* The last flush updates the plan row before it inserts items.
Blocker(s) == {q \in Sessions \ {s} : pc[q] = "insert"}
TouchPlan(s) ==
  /\ pc[s] = "touch"
  /\ Blocker(s) = {}
  /\ pc' = [pc EXCEPT ![s] = "insert"]
  /\ UNCHANGED <<puts, plan, put, loaded, gone, disturbed>>

\* An INSERT whose place is taken waits if the row there is being deleted, and fails if not.
\* Mutants: no unique constraint; items inserted before the old ones are deleted.
ClashesNone(s) == {}
ClashesWithOld(s) ==
  {row \in Items :
     \E new \in PayloadOf(s) : new.sort_order = row.sort_order}
Clashes(s) ==
  {row \in Items \ gone[s] :
     \E new \in PayloadOf(s) : new.sort_order = row.sort_order}
Deleter(s) == {q \in Sessions \ {s} : gone[q] \cap Clashes(s) # {}}
InsertItems(s) ==
  /\ pc[s] \in {"created", "insert"}
  /\ Deleter(s) = {}
  /\ IF Clashes(s) = {}
     THEN /\ plan' = (Items \ gone[s]) \cup PayloadOf(s)
          /\ End(s, "done")
     ELSE UNCHANGED plan /\ End(s, "failed")

\* The database ends one of two transactions that wait for each other.
BreakDeadlock(s) ==
  /\ pc[s] = "insert"
  /\ \E q \in Deleter(s) : pc[q] = "touch" /\ \E v \in {s, q} : End(v, "failed")
  /\ UNCHANGED plan

\* The connection is lost, or the process ends: the transaction is rolled back.
Lose(s) == Busy(s) /\ End(s, "lost") /\ UNCHANGED plan

Step(s) ==
  CreatePlan(s) \/ DeleteItems(s) \/ TouchPlan(s) \/ InsertItems(s) \/ BreakDeadlock(s)
Next == \E s \in Sessions : GetPlan(s) \/ PutPlan(s) \/ Step(s) \/ Lose(s)

Fairness == \A s \in Sessions : WF_vars(Step(s))
Spec == Init /\ [][Next]_vars /\ Fairness

(***************************************************************************)
(* Properties                                                              *)
(***************************************************************************)

\* Types; a session holds rows and serves a PUT only while it is busy.
TypeOK ==
  /\ Len(puts) <= MaxPuts
  /\ plan = NoPlan \/ \A row \in plan : row.put \in DOMAIN puts
  /\ pc \in [Sessions -> Ended \cup Statements]
  /\ put \in [Sessions -> 0 .. Len(puts)]
  /\ disturbed \in [Sessions -> BOOLEAN]
  /\ \A s \in Sessions :
       /\ gone[s] \subseteq loaded[s]
       /\ gone[s] # {} => pc[s] \in {"touch", "insert"}
       /\ ~Busy(s) => put[s] = 0 /\ loaded[s] = {} /\ ~disturbed[s]

\* However requests overlap and fail, the stored plan is the list of exactly one PUT, or
\* empty; lists never mix.  upsert_plan deletes only the items it loaded.
PlanIsOnePut == plan \in {NoPlan, {}} \/ \E n \in DOMAIN puts : plan = Rows(n)

\* A request that nothing overlaps does not fail on a constraint, and a PUT that succeeds
\* leaves its items, unless they are none and another PUT overlapped.
AlonePutTakesEffect ==
  [][\A s \in Sessions :
       /\ Busy(s) /\ pc'[s] = "failed" => disturbed[s]
       /\ Busy(s) /\ pc'[s] = "done" /\ put[s] # 0 =>
            plan' = PayloadOf(s) \/ (puts[put[s]] = <<>> /\ disturbed[s])]_vars

\* What is stored passes the validators again and is left by them as it is:
\* TradingPlanItemRead runs them on every read, and a refusal there would make the plan
\* unreadable.
ReadableAsStored ==
  \A row \in Items : Valid(row.rule) /\ Normalised(row.rule) = row.rule

Knowing(context, known) == [context EXCEPT !.snapshots = [k \in known |-> @[k]]]

\* Calculating further snapshots settles what was unknown and never reverses a verdict;
\* only a missing time frame that was required may turn up.
DecidedStays ==
  \A rule \in ActiveRules, context \in Contexts :
    \A known \in SUBSET DOMAIN context.snapshots :
      LET before == Status(rule, Knowing(context, known))
          after == Status(rule, context)
      IN  \/ before \in {"unknown", after}
          \/ rule.type = "required_timeframes" /\ before = "failed" /\ after = "passed"

Turned(direction) == CASE direction = "long" -> "short" [] direction = "short" -> "long"
                       [] OTHER -> direction

TurnedRule(rule) ==
  IF "direction_scope" \in DOMAIN rule.config
  THEN [rule EXCEPT !.config.direction_scope = Turned(@)] ELSE rule
Mirror(context) ==
  LET entry == context.position.entry
      stop == IF Missing \in {entry, context.stop} THEN context.stop
              ELSE 2 * entry - context.stop
  IN  [context EXCEPT !.position.direction = Turned(@), !.stop = stop]

\* A short position is judged as the long one that mirrors it: with its stop as far on the
\* other side of the entry, and rules whose scope is turned.
DirectionsMirror ==
  \A rule \in ActiveRules, context \in Contexts :
    Status(TurnedRule(rule), Mirror(context)) = Status(rule, context)

\* Every request ends, whatever it has to wait for.
RequestsEnd == \A s \in Sessions : Busy(s) ~> ~Busy(s)
=============================================================================
