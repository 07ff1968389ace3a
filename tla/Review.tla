------------------------------- MODULE Review -------------------------------
(***************************************************************************)
(* What AiReviewEngine makes of a draft of the language model.  A text is    *)
(* known by whether a forbidden phrase can be read in it: "clean", "open",   *)
(* "hidden" (readable only once markup and characters outside ASCII are      *)
(* dropped) or "blank".                                                     *)
(*                                                                         *)
(* A draft is the sequence of results the model gives for the rules, and     *)
(* "other" for all its other texts.  A reply that holds no draft was         *)
(* "rejected" (a 4xx answer), "failed" (5xx, a timeout) or is "unreadable".  *)
(***************************************************************************)
EXTENDS Integers, Sequences, FiniteSets

CONSTANT NoScore      \* None

ASSUME ScoreAssumption == NoScore \notin Int
Texts == {"clean", "open", "hidden", "blank"}

NoDraft == [failure: {"rejected", "failed", "unreadable"}]

\* _plain_text, with a fallback that is clean; one pass leaves nothing for a second.
Plain(text) == CASE text = "hidden" -> "open" [] text = "blank" -> "clean" [] OTHER -> text

ForbiddenDraft(draft) ==
  draft.other = "open" \/ \E i \in DOMAIN draft.results : draft.results[i].reason = "open"

\* One attempt of _generate_llm_review_or_fallback.
Attempt(reply) ==
  CASE reply \in NoDraft -> IF reply.failure = "rejected" THEN "stop" ELSE "retry"
    [] OTHER -> IF ForbiddenDraft(reply) THEN "retry" ELSE "accept"

\* The model's results are matched by their place; what it says of a rule that the plan
\* does not have is dropped.
Results(draft, rules) ==
  [i \in DOMAIN rules |->
     IF i \in DOMAIN draft.results
     THEN [rule |-> rules[i], status |-> draft.results[i].status,
           reason |-> Plain(draft.results[i].reason)]
     ELSE [rule |-> rules[i], status |-> "not_followed", reason |-> "clean"]]

\* int() of the share: below 50 rules the float product truncates as division does.
Score(results) ==
  IF results = <<>> THEN NoScore
  ELSE (100 * Cardinality({i \in DOMAIN results : results[i].status = "followed"}))
         \div Len(results)

\* The lines "title. reason" of the rules that were not followed.
Lines(results) ==
  {[place |-> i, text |-> IF "open" \in {Plain(results[i].rule.title), results[i].reason}
                          THEN "open" ELSE "clean"] :
     i \in {j \in DOMAIN results : results[j].status = "not_followed"}}

\* _enforce_rule_only_review: all other fields get fixed texts.
Enforced(draft, rules) ==
  LET results == Results(draft, rules)
  IN  [results |-> results, lines |-> Lines(results), score |-> Score(results)]

\* _sanitize_review_text
Stripped(review) ==
  [results |-> [i \in DOMAIN review.results |->
                  [rule |-> review.results[i].rule, status |-> review.results[i].status,
                   reason |-> Plain(review.results[i].reason)]],
   lines |-> review.lines, score |-> review.score]

\* Mutant: only the draft is checked.
ForbiddenNever(review) == FALSE

Forbidden(review) ==
  \/ \E i \in DOMAIN review.results :
       "open" \in {review.results[i].reason, review.results[i].rule.title}
  \/ \E line \in review.lines : line.text = "open"

\* answer_question replaces an answer in which it reads a forbidden phrase, and only then
\* strips the markup: a hidden phrase is stored open.
Answer(text) == Plain(IF text = "open" THEN "clean" ELSE text)
=============================================================================
