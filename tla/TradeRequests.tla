--------------------------- MODULE TradeRequests ---------------------------
(***************************************************************************)
(* Requests about one position: its trade metadata, indicator snapshots,    *)
(* reviews and questions.  A reconstruction replaces the position by a new   *)
(* row ("version") and the cascade of its DELETE takes everything away that  *)
(* belongs to the old one.                                                  *)
(*                                                                         *)
(* PUTs and reconstructions run in the thread pool, between any two          *)
(* statements.  The other requests are coroutines: one of them runs ("loop") *)
(* until it awaits MEXC or the language model.  Statements see what is       *)
(* committed; objects of a session keep the values they were loaded with     *)
(* (expire_on_commit=False).                                                *)
(***************************************************************************)
EXTENDS Review

CONSTANTS
  Requests,      \* the requests that may be under way
  Versions,      \* bound: the rows, numbered from 1, the position may have had
  Stops,         \* planned stop losses
  Notes,         \* notes of a user
  None,          \* a null column, or no order
  NoRow,         \* no row
  Plans,         \* sequences of the active rules of a plan
  Replies,       \* replies of the model to a review request
  Answers,       \* texts of the model's answers
  Free           \* no coroutine runs

VARIABLES
  version,       \* the current row of the position
  metadata,      \* its row in position_trade_metadata
  ready,         \* the entry snapshot of the reviewed time frame is stored
  reviews,       \* its rows in ai_trade_reviews
  questions,     \* its rows in ai_trade_questions
  plan,          \* the active rules
  configured,    \* an OpenAI key is set
  request,       \* what each request has read and been told
  pc,            \* where each request is, or how it ended
  loop,          \* the coroutine that runs, or Free
  disturbed      \* history: another request or a reconstruction overlapped it

stored == <<metadata, ready, reviews, questions>>
settings == <<plan, configured>>
vars == <<version, stored, settings, request, pc, loop, disturbed>>

Kinds == {"get", "put", "review", "ask", "sync", "snapshots"}
Threads == {"put"}
Ended == {"new", "ok", "missing", "not_ready", "not_configured", "upstream", "crashed",
          "conflict", "lost"}
Busy(s) == pc[s] \notin Ended
Kind(s) == request[s].kind
NoRequest == [kind |-> "none"]

\* new @@ old.
Over(new, old) ==
  [f \in DOMAIN new \cup DOMAIN old |-> IF f \in DOMAIN new THEN new[f] ELSE old[f]]
Metadata == [stop: Stops \cup {None}, notes: Notes \cup {None}]
NoMetadata == [stop |-> None, notes |-> None]

Init ==
  /\ version = 1 /\ ready \in BOOLEAN
  /\ metadata \in {NoRow, NoMetadata}
  /\ reviews = {} /\ questions = {}
  /\ plan \in Plans /\ configured \in BOOLEAN
  /\ request = [s \in Requests |-> NoRequest]
  /\ pc = [s \in Requests |-> "new"]
  /\ loop = Free
  /\ disturbed = [s \in Requests |-> FALSE]

ASSUME DatabaseAssumption == NoRow \notin Metadata /\ Free \notin Requests
ASSUME BoundAssumption == 1 \in Versions /\ Versions \subseteq Nat
\* What _llm_rule_results makes of a status, and the rules of a plan in their order.
ASSUME DraftAssumption ==
  /\ \A reply \in Replies \ NoDraft :
       reply.results \in Seq([status: {"followed", "not_followed"}, reason: Texts])
  /\ \A rules \in Plans : rules \in Seq({rules[i] : i \in DOMAIN rules})

\* Bound: the score is the truncated float product of the code for up to 49 rules (of 50
\* rules, 29 followed are truncated to 57).
ASSUME PlanAssumption == \A rules \in Plans : Len(rules) < 50
-----------------------------------------------------------------------------
\* A coroutine keeps the event loop unless it awaits or ends.
Awaits == {"orders", "candles", "model"} \cup Ended
MayRun(s) == Kind(s) \in Threads \/ loop = s
GoTo(s, place) ==
  /\ pc' = [pc EXCEPT ![s] = place]
  /\ loop' = IF Kind(s) \in Threads THEN loop ELSE IF place \in Awaits THEN Free ELSE s
  /\ UNCHANGED disturbed
\* Mutant: what a request knows is kept.
EndWithRequest(s, outcome) == GoTo(s, outcome) /\ UNCHANGED request

End(s, outcome) ==
  /\ GoTo(s, outcome)
  /\ request' = [request EXCEPT ![s] = NoRequest]
Note(s, values) == request' = [request EXCEPT ![s] = Over(values, @)]

\* The route looks the position up by the number that the client has.
Begin(s, kind, id) ==
  LET others == {q \in Requests : Busy(q)}
  IN
  /\ pc[s] = "new"
  /\ kind \notin Threads => loop = Free
  /\ IF id # version
     THEN /\ pc' = [pc EXCEPT ![s] = "missing"]
          /\ UNCHANGED <<request, disturbed>>
     ELSE /\ request' = [request EXCEPT ![s] =
               CASE kind = "put" -> [kind |-> kind, id |-> id, loaded |-> metadata]
                 [] kind = "sync" -> [kind |-> kind, id |-> id, held |-> metadata]
                 [] OTHER -> [kind |-> kind, id |-> id]]
          /\ pc' = [pc EXCEPT ![s] = CASE kind = "put" -> "write"
                                       [] kind = "snapshots" -> "candles"
                                       [] OTHER -> "orders"]
          /\ disturbed' = [q \in Requests |-> IF q = s THEN others # {}
                                              ELSE disturbed[q] \/ q \in others]
  /\ UNCHANGED <<version, stored, settings, loop>>

\* The sync after an import has just loaded the current positions.
BeginRequest(s) ==
  \E kind \in Kinds, id \in 1 .. version : (kind = "sync" => id = version) /\ Begin(s, kind, id)

-----------------------------------------------------------------------------
\* sync_stop_loss_from_mexc
AfterStop(s) == IF Kind(s) \in {"review", "ask"} THEN "context" ELSE "ok"

\* With no order nothing is written; the sync after an import turns a failure into a warning.
StopOrdersArrive(s) ==
  /\ pc[s] = "orders" /\ loop = Free
  /\ \/ \E stop \in Stops : Note(s, [stop |-> stop]) /\ GoTo(s, "load")
     \/ AfterStop(s) = "ok" /\ End(s, "ok")
     \/ AfterStop(s) # "ok" /\ GoTo(s, AfterStop(s)) /\ UNCHANGED request
     \/ End(s, IF Kind(s) = "sync" THEN "ok" ELSE "upstream")
  /\ UNCHANGED <<version, stored, settings>>

\* A row the session still holds is not read again.
LoadMetadata(s) ==
  /\ pc[s] = "load" /\ MayRun(s)
  /\ Note(s, [loaded |->
       IF request[s].id # version THEN NoRow
       ELSE IF Kind(s) = "sync" /\ request[s].held # NoRow THEN request[s].held ELSE metadata])
  /\ GoTo(s, "write")
  /\ UNCHANGED <<version, stored, settings>>

\* Mutants: columns that are not given are emptied; an UPDATE writes every column.
WrittenAlone(loaded, given) == Over(given, NoMetadata)

WrittenInFull(loaded, given) ==
  IF loaded = NoRow THEN Over(NoMetadata, given) ELSE Over(given, loaded)

\* An INSERT has the defaults; an UPDATE writes the columns that differ from those loaded.
Written(loaded, given) ==
  LET Changed(c) == c \in DOMAIN given /\ given[c] # loaded[c]
  IN  IF loaded = NoRow THEN Over(given, NoMetadata)
      ELSE [c \in {"stop", "notes"} |-> IF Changed(c) THEN given[c] ELSE metadata[c]]

\* The INSERT meets a foreign key or the unique position, the UPDATE misses its row.
Matches(s) == request[s].id = version /\ (request[s].loaded = NoRow <=> metadata = NoRow)
WriteMetadata(s) ==
  /\ pc[s] = "write" /\ MayRun(s)
  /\ \/ /\ Matches(s)
        /\ \E given \in IF Kind(s) = "put" THEN Metadata ELSE {[stop |-> request[s].stop]} :
             /\ metadata' = Written(request[s].loaded, given)
             /\ Note(s, [given |-> given])
        /\ GoTo(s, "refresh")
     \/ ~Matches(s) /\ End(s, "conflict") /\ UNCHANGED metadata
  /\ UNCHANGED <<version, ready, reviews, questions, settings>>

\* db.refresh after the commit.
Refresh(s) ==
  /\ pc[s] = "refresh" /\ MayRun(s)
  /\ \/ request[s].id # version /\ End(s, "conflict")
     \/ request[s].id = version /\ AfterStop(s) = "ok" /\ End(s, "ok")
     \/ /\ request[s].id = version /\ AfterStop(s) # "ok" /\ GoTo(s, "context")
        /\ request' = [request EXCEPT ![s] = [kind |-> @.kind, id |-> @.id]]
  /\ UNCHANGED <<version, stored, settings>>

-----------------------------------------------------------------------------
\* generate_review, answer_question: the position is looked up again; the snapshots are
\* read before the plan.
ReadPosition(s) ==
  /\ pc[s] = "context" /\ MayRun(s)
  /\ \/ request[s].id # version /\ End(s, "missing")
     \/ request[s].id = version /\ Kind(s) = "ask" /\ ~configured /\ End(s, "not_configured")
     \/ /\ request[s].id = version /\ (Kind(s) = "ask" => configured)
        /\ Note(s, [ready |-> ready]) /\ GoTo(s, "rules")
  /\ UNCHANGED <<version, stored, settings>>

ReadRules(s) ==
  /\ pc[s] = "rules" /\ MayRun(s)
  /\ IF Kind(s) = "review" /\ ~request[s].ready THEN End(s, "not_ready")
     ELSE IF ~configured THEN End(s, "not_configured")
     ELSE Note(s, [rules |-> plan, calls |-> 0]) /\ GoTo(s, "model")
  /\ UNCHANGED <<version, stored, settings>>

\* Mutant: the attempts alternate.
NextAttempt(calls) == 1 - calls

Counted(calls) == calls + 1

ModelReplies(s, reply) ==
  LET calls == Counted(request[s].calls)
      review == Enforced(reply, request[s].rules)
      again == Attempt(reply) = "retry" /\ calls < 2
  IN
  /\ pc[s] = "model" /\ loop = Free /\ Kind(s) = "review"
  /\ \/ /\ Attempt(reply) = "accept" /\ ~Forbidden(review)
        /\ Note(s, [calls |-> calls, review |-> Stripped(review), reply |-> reply])
        /\ GoTo(s, "save")
     \/ again /\ Note(s, [calls |-> calls]) /\ GoTo(s, "model")
     \/ /\ ~again /\ (Attempt(reply) = "accept" => Forbidden(review))
        /\ End(s, "upstream")
  /\ UNCHANGED <<version, stored, settings>>

\* Nothing catches a failure of the model here.
ModelAnswers(s) ==
  /\ pc[s] = "model" /\ loop = Free /\ Kind(s) = "ask"
  /\ \/ \E text \in Answers : Note(s, [answer |-> Answer(text)]) /\ GoTo(s, "save")
     \/ End(s, "crashed")
  /\ UNCHANGED <<version, stored, settings>>

\* _save_review, or the end of answer_question; the row is refreshed after the commit.  The
\* reply that a review was made from is kept as history: it is not stored.
Save(s) ==
  /\ pc[s] = "save" /\ MayRun(s)
  /\ IF request[s].id # version
     THEN End(s, "conflict") /\ UNCHANGED <<reviews, questions>>
     ELSE /\ IF Kind(s) = "review"
             THEN /\ reviews' = reviews \cup
                       {[by |-> s, rules |-> request[s].rules, reply |-> request[s].reply,
                         review |-> request[s].review]}
                  /\ UNCHANGED questions
             ELSE /\ questions' = questions \cup {[by |-> s, answer |-> request[s].answer]}
                  /\ UNCHANGED reviews
          /\ GoTo(s, "saved") /\ UNCHANGED request
  /\ UNCHANGED <<version, metadata, ready, settings>>

Saved(s) ==
  /\ pc[s] = "saved" /\ MayRun(s)
  /\ End(s, IF request[s].id = version THEN "ok" ELSE "conflict")
  /\ UNCHANGED <<version, stored, settings>>

-----------------------------------------------------------------------------
\* calculate_indicator_snapshots: candles are fetched and stored, then one transaction
\* calculates.  The route holds the position, so it is not looked up again.
CandlesArrive(s) ==
  /\ pc[s] = "candles" /\ loop = Free
  /\ \/ GoTo(s, "calculate") /\ UNCHANGED request
     \/ End(s, "upstream")
  /\ UNCHANGED <<version, stored, settings>>

CalculateSnapshots(s) ==
  /\ pc[s] = "calculate" /\ MayRun(s)
  /\ \/ request[s].id = version /\ ready' = TRUE /\ End(s, "ok")
     \/ UNCHANGED ready /\ End(s, "ok")      \* no candles, a warning
     \/ request[s].id # version /\ UNCHANGED ready /\ End(s, "conflict")
  /\ UNCHANGED <<version, metadata, reviews, questions, settings>>

-----------------------------------------------------------------------------
\* A reconstruction commits: DELETE with its cascade, INSERT with a new number.
Reconstruct ==
  /\ version + 1 \in Versions
  /\ version' = version + 1
  /\ metadata' = NoRow /\ ready' = FALSE /\ reviews' = {} /\ questions' = {}
  /\ disturbed' = [s \in Requests |-> disturbed[s] \/ Busy(s)]
  /\ UNCHANGED <<settings, request, pc, loop>>

\* The database fails a statement.
Lose(s) ==
  /\ pc[s] \notin Awaits /\ MayRun(s)
  /\ End(s, "lost")
  /\ UNCHANGED <<version, stored, settings>>

Step(s) ==
  \/ StopOrdersArrive(s) \/ LoadMetadata(s) \/ WriteMetadata(s) \/ Refresh(s)
  \/ ReadPosition(s) \/ ReadRules(s)
  \/ \E reply \in Replies : ModelReplies(s, reply)
  \/ ModelAnswers(s) \/ Save(s) \/ Saved(s)
  \/ CandlesArrive(s) \/ CalculateSnapshots(s)

Next == \/ \E s \in Requests : BeginRequest(s) \/ Step(s) \/ Lose(s)
        \/ Reconstruct

\* MEXC and the model answer or the client times out; the event loop resumes each coroutine.
Fairness == \A s \in Requests : SF_vars(Step(s))
Spec == Init /\ [][Next]_vars /\ Fairness

-----------------------------------------------------------------------------
(* Properties                                                              *)

\* The event loop belongs to a coroutine exactly while one is between two awaits, and what
\* a request knows is dropped when it ends.
TypeOK ==
  /\ version \in Versions
  /\ metadata \in Metadata \cup {NoRow}
  /\ \A s \in Requests :
       /\ ~Busy(s) <=> request[s] = NoRequest
       /\ loop = s <=> Kind(s) \notin Threads /\ pc[s] \notin Awaits
       /\ Busy(s) => request[s].id <= version

\* A request that nothing overlaps meets no constraint of the database.  Its write takes
\* effect as given: a PUT leaves just its payload, a stop that was looked up is stored
\* beside the notes that were there (upsert_metadata, sync_stop_loss_from_mexc).
AloneTakesEffect ==
  [][\A s \in Requests : ~disturbed[s] =>
       /\ pc'[s] # "conflict"
       /\ pc[s] = "write" /\ pc'[s] = "refresh" =>
            metadata' = Over(request'[s].given,
                             IF metadata = NoRow THEN NoMetadata ELSE metadata)]_vars

\* Notes are the user's: however requests overlap, those of a position that stays are
\* changed by a PUT alone, and by one that carries them.  Looking up a stop, which loads the
\* row before a PUT commits and writes it after, leaves them.
NotesStay ==
  [][version' = version /\ metadata # NoRow =>
       /\ metadata' # NoRow
       /\ metadata'.notes # metadata.notes =>
            \E s \in Requests : /\ Kind(s) = "put" /\ pc[s] = "write" /\ pc'[s] = "refresh"
                               /\ request'[s].given.notes = metadata'.notes]_vars

\* What a review r of the rules r.rules has to be, after the model's reply r.reply.
Sound(r) ==
  LET results == r.review.results
      said == {i \in DOMAIN r.reply.results : r.reply.results[i].status = "followed"}
      followed == {i \in DOMAIN results : results[i].status = "followed"}
  IN  /\ [i \in DOMAIN results |-> results[i].rule] = r.rules
      /\ Attempt(r.reply) = "accept"
      /\ followed = said \cap DOMAIN r.rules
      /\ {line.place : line \in r.review.lines} = DOMAIN results \ followed
      /\ r.review.score = IF r.rules = <<>> THEN NoScore
                          ELSE (100 * Cardinality(followed)) \div Len(r.rules)
      /\ r.review.score = 100 <=> r.rules # <<>> /\ followed = DOMAIN results
      /\ \A line \in r.review.lines : line.text # "open"
      /\ \A i \in DOMAIN results : "open" \notin {results[i].reason, results[i].rule.title}

\* A stored review judges each active rule once and in order; "followed" are just the rules
\* of which the very reply this request accepted says so, one it leaves out is not; the
\* review lists just the other rules, scores the share that was followed, and 100 only for
\* all; nothing in it reads as a forbidden phrase, also not where markup hid one from the
\* first check (_enforce_rule_only_review).
ReviewSound == \A r \in reviews : Sound(r)

\* Every request ends: the model is asked at most twice, and no wait is for ever.
RequestsEnd == \A s \in Requests : Busy(s) ~> ~Busy(s)
=============================================================================
