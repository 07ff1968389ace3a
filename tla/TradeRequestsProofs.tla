------------------------ MODULE TradeRequestsProofs ------------------------
(***************************************************************************)
(* Proofs about TradeRequests, for any requests, rows, plans and replies.  *)
(***************************************************************************)
EXTENDS TradeRequests, FiniteSetTheorems, TLAPS

-----------------------------------------------------------------------------
(* What a review says.                                                     *)

\* Plain text hides nothing, and shows nothing that was not open or hidden.
LEMMA PlainFacts ==
  ASSUME NEW text
  PROVE  /\ Plain(text) # "hidden"
         /\ text # "open" /\ text # "hidden" => Plain(text) # "open"
BY DEF Plain

\* An element of a sequence belongs to the set the sequence is over.
LEMMA ElementOf ==
  ASSUME NEW S, NEW seq \in Seq(S), NEW i \in DOMAIN seq
  PROVE  seq[i] \in S
OBVIOUS

\* A sequence is the function of its places.
LEMMA SequenceIs ==
  ASSUME NEW S, NEW seq \in Seq(S)
  PROVE  seq = [i \in DOMAIN seq |-> seq[i]]
OBVIOUS

\* The results follow the rules of the plan, and followed are those the draft calls so.
LEMMA ResultsFacts ==
  ASSUME NEW reply \in Replies, reply \notin NoDraft, NEW rules \in Plans,
         NEW results, results = Results(reply, rules)
  PROVE  /\ DOMAIN results = DOMAIN rules
         /\ \A i \in DOMAIN rules :
              /\ DOMAIN results[i] = {"rule", "status", "reason"}
              /\ results[i].rule = rules[i]
              /\ results[i].status \in {"followed", "not_followed"}
              /\ results[i].status = "followed" <=>
                   i \in DOMAIN reply.results /\ reply.results[i].status = "followed"
              /\ results[i].reason # "hidden"
<1>1. reply.results \in Seq([status: {"followed", "not_followed"}, reason: Texts])
  BY DraftAssumption
<1>2. \A i \in DOMAIN reply.results : reply.results[i].status \in {"followed", "not_followed"}
  <2>1. \A i \in DOMAIN reply.results :
          reply.results[i] \in [status: {"followed", "not_followed"}, reason: Texts]
    BY <1>1, ElementOf
  <2> QED  BY <2>1
<1>3. DOMAIN results = DOMAIN rules
  BY DEF Results
<1>4. ASSUME NEW i \in DOMAIN rules
      PROVE  /\ DOMAIN results[i] = {"rule", "status", "reason"}
             /\ results[i].rule = rules[i]
             /\ results[i].status \in {"followed", "not_followed"}
             /\ results[i].status = "followed" <=>
                  i \in DOMAIN reply.results /\ reply.results[i].status = "followed"
             /\ results[i].reason # "hidden"
  <2>1. CASE i \in DOMAIN reply.results
    <3>1. results[i] = [rule |-> rules[i], status |-> reply.results[i].status,
                        reason |-> Plain(reply.results[i].reason)]
      BY <2>1 DEF Results
    <3> QED  BY <1>2, <2>1, <3>1, PlainFacts
  <2>2. CASE i \notin DOMAIN reply.results
    <3>1. results[i] = [rule |-> rules[i], status |-> "not_followed", reason |-> "clean"]
      BY <2>2 DEF Results
    <3> QED  BY <2>2, <3>1
  <2> QED  BY <2>1, <2>2
<1> QED  BY <1>3, <1>4

FollowedOf(results) == {i \in DOMAIN results : results[i].status = "followed"}

\* The score is the share of the rules that were followed, and 100 exactly for all of them.
LEMMA ScoreFacts ==
  ASSUME NEW n \in Nat, NEW results, DOMAIN results = 1 .. n,
         results \in Seq({results[i] : i \in 1 .. n})
  PROVE  /\ Score(results) = IF n = 0 THEN NoScore
                             ELSE (100 * Cardinality(FollowedOf(results))) \div n
         /\ Score(results) = 100 <=> n # 0 /\ FollowedOf(results) = 1 .. n
<1> DEFINE F == FollowedOf(results)
<1>1. Len(results) = n /\ (results = <<>> <=> n = 0)
  OBVIOUS
<1>2. IsFiniteSet(1 .. n) /\ Cardinality(1 .. n) = n /\ F \subseteq 1 .. n
  <2>1. IsFiniteSet(1 .. n) /\ Cardinality(1 .. n) = n
    BY FS_Interval
  <2> QED  BY <2>1 DEF FollowedOf
<1>3. Cardinality(F) \in Nat /\ Cardinality(F) <= n /\ (Cardinality(F) = n => F = 1 .. n)
  BY <1>2, FS_Subset, FS_CardinalityType
<1>4. Score(results) = IF n = 0 THEN NoScore ELSE (100 * Cardinality(F)) \div n
  BY <1>1 DEF Score, FollowedOf
<1> HIDE DEF F
<1>5. CASE n = 0
  BY <1>4, <1>5, ScoreAssumption
<1>6. CASE n # 0 /\ F = 1 .. n
  <2>1. (100 * n) \div n = 100
    BY <1>6
  <2> QED  BY <1>2, <1>4, <1>6, <2>1 DEF F
<1>7. CASE n # 0 /\ F # 1 .. n
  <2> DEFINE c == Cardinality(F)
  <2>1. c \in Nat /\ c < n
    BY <1>3, <1>7
  <2> HIDE DEF c
  <2>2. (100 * c) \div n < 100
    BY <1>7, <2>1
  <2>3. (100 * c) \div n # 100
    BY <1>7, <2>1, <2>2
  <2> QED  BY <1>4, <1>7, <2>3 DEF c, F
<1> QED  BY <1>4, <1>5, <1>6, <1>7 DEF F

\* What is stored of a reply that was accepted is sound.
LEMMA EnforcedSound ==
  ASSUME NEW reply \in Replies, Attempt(reply) = "accept", NEW rules \in Plans,
         ~Forbidden(Enforced(reply, rules)), NEW stored_row,
         stored_row.rules = rules, stored_row.reply = reply,
         stored_row.review = Stripped(Enforced(reply, rules))
  PROVE  Sound(stored_row)
<1> DEFINE raw == Results(reply, rules)
           results == [i \in DOMAIN raw |-> [rule |-> raw[i].rule, status |-> raw[i].status,
                                             reason |-> Plain(raw[i].reason)]]
           review == [results |-> results, lines |-> Lines(raw), score |-> Score(raw)]
           followed == {i \in DOMAIN results : results[i].status = "followed"}
           said == {i \in DOMAIN reply.results : reply.results[i].status = "followed"}
<1>1. stored_row.review = review
  BY DEF Enforced, Stripped
<1>2. reply \notin NoDraft
  BY DEF Attempt
<1>3. PICK n \in Nat : DOMAIN rules = 1 .. n /\ (rules = <<>> <=> n = 0)
  <2>1. rules \in Seq({rules[i] : i \in DOMAIN rules})
    BY DraftAssumption
  <2> QED  BY <2>1
<1>0. raw = Results(reply, rules)
  OBVIOUS
<1> HIDE DEF raw, results
<1>4. /\ DOMAIN raw = 1 .. n
      /\ \A i \in 1 .. n :
           /\ DOMAIN raw[i] = {"rule", "status", "reason"}
           /\ raw[i].rule = rules[i]
           /\ raw[i].status \in {"followed", "not_followed"}
           /\ raw[i].status = "followed" <=>
                i \in DOMAIN reply.results /\ reply.results[i].status = "followed"
           /\ raw[i].reason # "hidden"
  <2>1. /\ DOMAIN raw = DOMAIN rules
        /\ \A i \in DOMAIN rules :
              /\ DOMAIN raw[i] = {"rule", "status", "reason"}
              /\ raw[i].rule = rules[i]
              /\ raw[i].status \in {"followed", "not_followed"}
              /\ raw[i].status = "followed" <=>
                   i \in DOMAIN reply.results /\ reply.results[i].status = "followed"
              /\ raw[i].reason # "hidden"
    BY <1>0, <1>2, ResultsFacts
  <2> QED  BY <1>3, <2>1
<1>5. raw \in Seq({raw[i] : i \in 1 .. n})
  BY <1>3 DEF Results, raw
<1>6. /\ \A i \in 1 .. n : raw[i].reason # "open" /\ raw[i].rule.title # "open"
      /\ \A line \in Lines(raw) : line.text # "open"
  BY <1>4 DEF Forbidden, Enforced, raw
<1>7. /\ DOMAIN results = 1 .. n
      /\ \A i \in 1 .. n : /\ results[i].rule = rules[i]
                           /\ results[i].status = raw[i].status
                           /\ results[i].reason = Plain(raw[i].reason)
  BY <1>4 DEF results
<1>8. [i \in DOMAIN results |-> results[i].rule] = rules
  <2>1. rules = [i \in 1 .. n |-> rules[i]]
    BY <1>3, DraftAssumption, SequenceIs
  <2> QED  BY <1>7, <2>1
<1>9. followed = said \cap DOMAIN rules
  BY <1>3, <1>4, <1>7
<1>10. {line.place : line \in Lines(raw)} = DOMAIN results \ followed
  <2>1. DOMAIN results \ followed = {j \in DOMAIN raw : raw[j].status = "not_followed"}
    BY <1>4, <1>7
  <2>2. ASSUME NEW i \in DOMAIN raw, raw[i].status = "not_followed"
        PROVE  \E line \in Lines(raw) : line.place = i
    <3> DEFINE line == [place |-> i, text |-> IF "open" \in {Plain(raw[i].rule.title), raw[i].reason}
                                              THEN "open" ELSE "clean"]
    <3>1. line \in Lines(raw)
      BY <2>2 DEF Lines
    <3> QED  BY <3>1
  <2>3. ASSUME NEW line \in Lines(raw)
        PROVE  line.place \in {j \in DOMAIN raw : raw[j].status = "not_followed"}
    BY DEF Lines
  <2> QED  BY <2>1, <2>2, <2>3
<1>11. followed = FollowedOf(raw) /\ Len(rules) = n
  BY <1>3, <1>4, <1>7, DraftAssumption DEF FollowedOf
<1>12. /\ Score(raw) = IF rules = <<>> THEN NoScore
                       ELSE (100 * Cardinality(followed)) \div Len(rules)
       /\ Score(raw) = 100 <=> rules # <<>> /\ followed = DOMAIN results
  <2> HIDE DEF followed
  <2>1. DOMAIN raw = 1 .. n /\ DOMAIN results = 1 .. n
    BY <1>4, <1>7
  <2>2. /\ Score(raw) = IF n = 0 THEN NoScore
                        ELSE (100 * Cardinality(FollowedOf(raw))) \div n
        /\ Score(raw) = 100 <=> n # 0 /\ FollowedOf(raw) = 1 .. n
    BY <1>5, <2>1, ScoreFacts
  <2> QED  BY <1>3, <1>11, <2>1, <2>2
<1>13. \A i \in 1 .. n : results[i].reason # "open" /\ results[i].rule.title # "open"
  BY <1>4, <1>6, <1>7, PlainFacts
<1> HIDE DEF followed, said
<1>14. /\ stored_row.review.results = results
       /\ stored_row.review.lines = Lines(raw)
       /\ stored_row.review.score = Score(raw)
  BY <1>1
<1> QED
  BY <1>6, <1>7, <1>8, <1>9, <1>10, <1>12, <1>13, <1>14 DEF Sound, followed, said

-----------------------------------------------------------------------------
(* The inductive invariant.                                                *)

Shape ==
  /\ version \in Versions
  /\ metadata \in Metadata \cup {NoRow}
  /\ plan \in Plans
  /\ DOMAIN request = Requests /\ DOMAIN pc = Requests
  /\ disturbed \in [Requests -> BOOLEAN]

\* What is known of a request: it is empty unless the request is under way.
Known(s) ==
  /\ Busy(s) => /\ {"kind", "id"} \subseteq DOMAIN request[s]
                /\ Kind(s) \in Kinds
                /\ request[s].id \in Nat /\ request[s].id <= version
  /\ ~Busy(s) => request[s] = NoRequest
  /\ loop = s <=> Kind(s) \notin Threads /\ pc[s] \notin Awaits

\* What it has been told by the time it needs it.
Informed(s) ==
  /\ pc[s] \in {"load", "write"} /\ Kind(s) # "put" =>
       "stop" \in DOMAIN request[s] /\ request[s].stop \in Stops
  /\ pc[s] = "model" /\ Kind(s) = "review" =>
       "rules" \in DOMAIN request[s] /\ request[s].rules \in Plans
  /\ pc[s] = "save" /\ Kind(s) = "review" =>
       Sound([by |-> s, rules |-> request[s].rules, reply |-> request[s].reply,
              review |-> request[s].review])

\* A request that nothing overlaps is about the current row, and has loaded its metadata.
Current(s) ==
  /\ Kind(s) = "sync" /\ pc[s] \in {"orders", "load"} =>
       "held" \in DOMAIN request[s] /\ request[s].held = metadata
  /\ pc[s] = "write" => "loaded" \in DOMAIN request[s] /\ request[s].loaded = metadata
Alone(s) ==
  /\ pc[s] = "conflict" => disturbed[s]
  /\ Busy(s) /\ ~disturbed[s] =>
       /\ request[s].id = version
       /\ \A q \in Requests \ {s} : ~Busy(q)
       /\ Current(s)

IInv ==
  /\ Shape
  /\ ReviewSound
  /\ \A s \in Requests : Known(s) /\ Informed(s) /\ Alone(s)

\* The invariant holds before the first request.
LEMMA InitIInv == Init => IInv
<1> SUFFICES ASSUME Init PROVE IInv
  OBVIOUS
<1>1. Shape
  BY BoundAssumption DEF Init, Shape, Metadata, NoMetadata
<1>2. ReviewSound
  BY DEF Init, ReviewSound
<1>3. ASSUME NEW s \in Requests PROVE Known(s) /\ Informed(s) /\ Alone(s)
  <2>1. pc[s] = "new" /\ request[s] = NoRequest /\ loop = Free /\ loop # s
    BY DatabaseAssumption DEF Init
  <2> QED  BY <2>1 DEF Known, Informed, Alone, Busy, Ended, Kind, NoRequest, Threads, Awaits
<1> QED  BY <1>1, <1>2, <1>3 DEF IInv

-----------------------------------------------------------------------------
(* A request moves on or ends.                                             *)

\* The other requests stay as they were.
Aside(s) ==
  /\ DOMAIN request' = Requests /\ DOMAIN pc' = Requests
  /\ \A q \in Requests \ {s} : request'[q] = request[q] /\ pc'[q] = pc[q]
  /\ UNCHANGED <<version, plan, disturbed>>
  /\ metadata' \in Metadata \cup {NoRow}

\* While a request is under way, each other one under way is disturbed by it.
LEMMA OthersStay ==
  ASSUME IInv, NEW s \in Requests, Busy(s), Aside(s), ReviewSound',
         \A q \in Requests \ {s} : loop' = q <=> loop = q,
         Known(s)', Informed(s)', Alone(s)'
  PROVE  IInv'
<1>1. Shape'
  BY DEF IInv, Aside, Shape
<1>2. ASSUME NEW q \in Requests \ {s} PROVE (Known(q) /\ Informed(q) /\ Alone(q))'
  <2>1. /\ request'[q] = request[q] /\ pc'[q] = pc[q] /\ version' = version
        /\ disturbed'[q] = disturbed[q] /\ (loop' = q <=> loop = q)
    BY DEF Aside
  <2>2. Known(q) /\ Informed(q) /\ Alone(q)
    BY DEF IInv
  <2>3. Busy(q) => disturbed[q]
    BY <2>2 DEF Alone
  <2>4. Known(q)'
    BY <2>1, <2>2 DEF Known, Busy, Kind
  <2>5. Informed(q)'
    BY <2>1, <2>2 DEF Informed, Busy, Kind
  <2>6. Alone(q)'
    BY <2>1, <2>2, <2>3 DEF Alone, Busy
  <2> QED  BY <2>4, <2>5, <2>6
<1> QED  BY <1>1, <1>2 DEF IInv

\* Who moves has the loop, does not need it, or finds it free; it passes to nobody else.
LEMMA LoopPasses ==
  ASSUME IInv, NEW s \in Requests, NEW place, GoTo(s, place), MayRun(s) \/ loop = Free
  PROVE  /\ \A q \in Requests \ {s} : loop' = q <=> loop = q
         /\ loop' = s <=> Kind(s) \notin Threads /\ place \notin Awaits
BY DatabaseAssumption DEF IInv, Known, GoTo, MayRun

\* A request that ends keeps the invariant; only a disturbed one ends in a conflict.
LEMMA EndKeeps ==
  ASSUME IInv, NEW s \in Requests, Busy(s), NEW outcome \in Ended, End(s, outcome),
         MayRun(s) \/ loop = Free, outcome = "conflict" => disturbed[s],
         UNCHANGED <<version, plan>>, metadata' \in Metadata \cup {NoRow}, ReviewSound'
  PROVE  IInv'
<1>1. Aside(s) /\ pc'[s] = outcome /\ request'[s] = NoRequest
  BY DEF IInv, Shape, End, GoTo, Aside
<1>2. /\ \A q \in Requests \ {s} : loop' = q <=> loop = q
      /\ loop' # s
  BY LoopPasses DEF End, Awaits
<1>3. Known(s)'
  BY <1>1, <1>2 DEF Known, Busy, Kind, NoRequest, Threads, Awaits
<1>4. Informed(s)' /\ Alone(s)'
  BY <1>1 DEF Informed, Alone, Busy, Ended, Aside
<1> QED  BY <1>1, <1>2, <1>3, <1>4, OthersStay

\* A request that moves on keeps it, if it has been told what it needs next.
LEMMA MoveKeeps ==
  ASSUME IInv, NEW s \in Requests, Busy(s), NEW place, place \notin Ended, GoTo(s, place),
         MayRun(s) \/ loop = Free,
         DOMAIN request' = Requests, \A q \in Requests \ {s} : request'[q] = request[q],
         {"kind", "id"} \subseteq DOMAIN request'[s],
         request'[s].kind = request[s].kind, request'[s].id = request[s].id,
         UNCHANGED <<version, plan>>, metadata' \in Metadata \cup {NoRow}, ReviewSound',
         Informed(s)', ~disturbed[s] => Current(s)'
  PROVE  IInv'
<1>1. Aside(s) /\ pc'[s] = place
  BY DEF IInv, Shape, GoTo, Aside
<1>2. /\ \A q \in Requests \ {s} : loop' = q <=> loop = q
      /\ loop' = s <=> Kind(s) \notin Threads /\ place \notin Awaits
  BY LoopPasses
<1>3. Known(s) /\ Alone(s)
  BY DEF IInv
<1>4. Known(s)'
  BY <1>1, <1>2, <1>3 DEF Known, Busy, Kind, Aside
<1>5. Alone(s)'
  BY <1>1, <1>3 DEF Alone, Busy, Ended, Aside
<1> QED  BY <1>1, <1>2, <1>4, <1>5, OthersStay

\* What a request notes adds to what it knows.
LEMMA NoteFacts ==
  ASSUME IInv, NEW s \in Requests, Busy(s), NEW values, Note(s, values),
         "kind" \notin DOMAIN values, "id" \notin DOMAIN values
  PROVE  /\ DOMAIN request' = Requests
         /\ \A q \in Requests \ {s} : request'[q] = request[q]
         /\ request'[s] = Over(values, request[s])
         /\ {"kind", "id"} \subseteq DOMAIN request'[s]
         /\ request'[s].kind = request[s].kind /\ request'[s].id = request[s].id
BY DEF IInv, Shape, Known, Note, Over

\* Nothing noted, nothing forgotten.
LEMMA UnchangedFacts ==
  ASSUME IInv, NEW s \in Requests, Busy(s), UNCHANGED request
  PROVE  /\ DOMAIN request' = Requests
         /\ \A q \in Requests \ {s} : request'[q] = request[q]
         /\ {"kind", "id"} \subseteq DOMAIN request'[s]
         /\ request'[s].kind = request[s].kind /\ request'[s].id = request[s].id
BY DEF IInv, Shape, Known

-----------------------------------------------------------------------------
(* One lemma for each action.                                              *)

\* Where a request is decides that it is under way, and whether it may be interrupted.
LEMMA Places ==
  ASSUME NEW s
  PROVE  /\ pc[s] \in {"orders", "load", "write", "refresh", "context", "rules", "model", "save",
                       "saved", "candles", "calculate"} => Busy(s)
         /\ \A place \in {"orders", "load", "write", "refresh", "context", "rules", "model",
                          "save", "saved", "candles", "calculate"} : place \notin Ended
         /\ {"ok", "missing", "not_ready", "not_configured", "upstream", "crashed", "conflict",
             "lost"} \subseteq Ended
BY DEF Busy, Ended

\* What stays as it is when only the requests change.
LEMMA StoredStay ==
  ASSUME IInv, UNCHANGED <<version, stored, settings>>
  PROVE  /\ UNCHANGED <<version, plan>> /\ metadata' = metadata
         /\ metadata' \in Metadata \cup {NoRow} /\ ReviewSound'
BY DEF IInv, Shape, stored, settings, ReviewSound, Sound

\* MEXC's stop orders arrive.
LEMMA StopOrdersStep ==
  ASSUME IInv, NEW s \in Requests, StopOrdersArrive(s)
  PROVE  IInv'
<1>1. pc[s] = "orders" /\ Busy(s) /\ loop = Free
  BY Places DEF StopOrdersArrive
<1>2. /\ UNCHANGED <<version, plan>> /\ metadata' = metadata
      /\ metadata' \in Metadata \cup {NoRow} /\ ReviewSound'
  BY StoredStay DEF StopOrdersArrive
<1>3. ASSUME NEW outcome \in {"ok", "upstream"}, End(s, outcome) PROVE IInv'
  BY <1>1, <1>2, <1>3, Places, EndKeeps
<1>4. ASSUME NEW stop \in Stops, Note(s, [stop |-> stop]), GoTo(s, "load") PROVE IInv'
  <2>1. /\ DOMAIN request' = Requests
        /\ \A q \in Requests \ {s} : request'[q] = request[q]
        /\ request'[s] = Over([stop |-> stop], request[s])
        /\ {"kind", "id"} \subseteq DOMAIN request'[s]
        /\ request'[s].kind = request[s].kind /\ request'[s].id = request[s].id
    BY <1>1, <1>4, NoteFacts
  <2>2. pc'[s] = "load"
    BY <1>4 DEF IInv, Shape, GoTo
  <2>3. Informed(s)'
    BY <2>1, <2>2 DEF Informed, Over
  <2>4. ~disturbed[s] => Current(s)'
    BY <1>1, <1>2, <2>1, <2>2 DEF IInv, Alone, Current, Kind, Over
  <2> QED  BY <1>1, <1>2, <1>4, <2>1, <2>3, <2>4, Places, MoveKeeps
<1>5. ASSUME AfterStop(s) # "ok", GoTo(s, AfterStop(s)), UNCHANGED request PROVE IInv'
  <2>1. /\ DOMAIN request' = Requests
        /\ \A q \in Requests \ {s} : request'[q] = request[q]
        /\ {"kind", "id"} \subseteq DOMAIN request'[s]
        /\ request'[s].kind = request[s].kind /\ request'[s].id = request[s].id
    BY <1>1, <1>5, UnchangedFacts
  <2>2. AfterStop(s) = "context" /\ pc'[s] = "context"
    BY <1>5 DEF IInv, Shape, GoTo, AfterStop
  <2>3. Informed(s)' /\ Current(s)'
    BY <2>2 DEF Informed, Current
  <2> QED  BY <1>1, <1>2, <1>5, <2>1, <2>2, <2>3, Places, MoveKeeps
<1> QED  BY <1>3, <1>4, <1>5 DEF StopOrdersArrive

\* The row is loaded.
LEMMA LoadMetadataStep ==
  ASSUME IInv, NEW s \in Requests, LoadMetadata(s)
  PROVE  IInv'
<1> DEFINE row == IF request[s].id # version THEN NoRow
                  ELSE IF Kind(s) = "sync" /\ request[s].held # NoRow THEN request[s].held
                  ELSE metadata
<1>1. pc[s] = "load" /\ Busy(s) /\ MayRun(s) /\ Note(s, [loaded |-> row]) /\ GoTo(s, "write")
  BY Places DEF LoadMetadata
<1>2. /\ UNCHANGED <<version, plan>> /\ metadata' = metadata
      /\ metadata' \in Metadata \cup {NoRow} /\ ReviewSound'
  BY StoredStay DEF LoadMetadata
<1>3. ~disturbed[s] => row = metadata
  BY <1>1 DEF IInv, Alone, Current
<1> HIDE DEF row
<1>4. /\ DOMAIN request' = Requests
      /\ \A q \in Requests \ {s} : request'[q] = request[q]
      /\ request'[s] = Over([loaded |-> row], request[s])
      /\ {"kind", "id"} \subseteq DOMAIN request'[s]
      /\ request'[s].kind = request[s].kind /\ request'[s].id = request[s].id
  BY <1>1, NoteFacts
<1>5. pc'[s] = "write"
  BY <1>1 DEF IInv, Shape, GoTo
<1>6. Informed(s)'
  BY <1>1, <1>4, <1>5 DEF IInv, Informed, Kind, Over
<1>7. ~disturbed[s] => Current(s)'
  BY <1>2, <1>3, <1>4, <1>5 DEF Current, Over
<1> QED  BY <1>1, <1>2, <1>4, <1>6, <1>7, Places, MoveKeeps

\* What a write leaves: a row, in which only given columns differ from what was there; and
\* just what was given, if the row was loaded as it is.
LEMMA WrittenFacts ==
  ASSUME metadata \in Metadata \cup {NoRow}, NEW row, row = NoRow <=> metadata = NoRow,
         NEW given, given \in Metadata \/ \E stop \in Stops : given = [stop |-> stop]
  PROVE  /\ Written(row, given) \in Metadata
         /\ metadata # NoRow /\ Written(row, given).notes # metadata.notes =>
              given \in Metadata /\ Written(row, given).notes = given.notes
         /\ row = metadata =>
              Written(row, given) = Over(given, IF metadata = NoRow THEN NoMetadata ELSE metadata)
<1>1. /\ DOMAIN given \in {{"stop"}, {"stop", "notes"}}
      /\ "notes" \in DOMAIN given => given \in Metadata
      /\ given["stop"] \in Stops \cup {None}
      /\ "notes" \in DOMAIN given => given["notes"] \in Notes \cup {None}
  BY DEF Metadata
<1>2. CASE row = NoRow
  <2>1. Written(row, given) = [f \in {"stop", "notes"} |->
                                 IF f \in DOMAIN given THEN given[f] ELSE NoMetadata[f]]
    BY <1>1, <1>2 DEF Written, Over, NoMetadata
  <2>2. Written(row, given) \in Metadata
    BY <1>1, <2>1 DEF Metadata, NoMetadata
  <2> QED  BY <1>2, <2>2 DEF Written
<1>3. CASE row # NoRow
  <2>1. metadata \in Metadata
    BY <1>3
  <2>2. Written(row, given) =
          [c \in {"stop", "notes"} |-> IF c \in DOMAIN given /\ given[c] # row[c]
                                       THEN given[c] ELSE metadata[c]]
    BY <1>3 DEF Written
  <2>3. Written(row, given) \in Metadata
    BY <1>1, <2>1, <2>2 DEF Metadata
  <2>4. Written(row, given).notes # metadata.notes =>
          given \in Metadata /\ Written(row, given).notes = given.notes
    BY <1>1, <2>2
  <2>5. row = metadata => Written(row, given) = Over(given, metadata)
    <3>1. DOMAIN metadata = {"stop", "notes"} /\ DOMAIN given \subseteq {"stop", "notes"}
      BY <1>1, <2>1 DEF Metadata
    <3> QED  BY <2>2, <3>1 DEF Over
  <2> QED  BY <1>3, <2>3, <2>4, <2>5
<1> QED  BY <1>2, <1>3

\* What a write is given.
LEMMA WriteFacts ==
  ASSUME IInv, NEW s \in Requests, WriteMetadata(s)
  PROVE  /\ pc[s] = "write" /\ Busy(s) /\ MayRun(s)
         /\ UNCHANGED <<version, plan, reviews>>
         /\ \/ \E given : /\ Matches(s)
                          /\ Kind(s) = "put" => given \in Metadata
                          /\ Kind(s) # "put" => given = [stop |-> request[s].stop]
                          /\ given \in Metadata \/ \E stop \in Stops : given = [stop |-> stop]
                          /\ metadata' = Written(request[s].loaded, given)
                          /\ Note(s, [given |-> given]) /\ GoTo(s, "refresh")
            \/ ~Matches(s) /\ End(s, "conflict") /\ UNCHANGED metadata
<1>1. pc[s] = "write" /\ Busy(s) /\ MayRun(s) /\ UNCHANGED <<version, plan, reviews>>
  BY Places DEF WriteMetadata, settings
<1>2. Kind(s) # "put" => request[s].stop \in Stops
  BY <1>1 DEF IInv, Informed
<1> QED  BY <1>1, <1>2 DEF WriteMetadata

\* The row is written, or the write meets a constraint.
LEMMA WriteMetadataStep ==
  ASSUME IInv, NEW s \in Requests, WriteMetadata(s)
  PROVE  IInv'
<1>1. /\ pc[s] = "write" /\ Busy(s) /\ MayRun(s)
      /\ UNCHANGED <<version, plan, reviews>>
  BY WriteFacts
<1>2. ReviewSound'
  BY <1>1 DEF IInv, ReviewSound, Sound
<1>3. ASSUME NEW given, Matches(s),
             given \in Metadata \/ \E stop \in Stops : given = [stop |-> stop],
             metadata' = Written(request[s].loaded, given),
             Note(s, [given |-> given]), GoTo(s, "refresh")
      PROVE  IInv'
  <2>1. metadata' \in Metadata
    BY <1>3, WrittenFacts DEF IInv, Shape, Matches
  <2>2. /\ DOMAIN request' = Requests
        /\ \A q \in Requests \ {s} : request'[q] = request[q]
        /\ {"kind", "id"} \subseteq DOMAIN request'[s]
        /\ request'[s].kind = request[s].kind /\ request'[s].id = request[s].id
    BY <1>1, <1>3, NoteFacts
  <2>3. pc'[s] = "refresh"
    BY <1>3 DEF IInv, Shape, GoTo
  <2>4. Informed(s)' /\ Current(s)'
    BY <2>3 DEF Informed, Current
  <2> QED  BY <1>1, <1>2, <1>3, <2>1, <2>2, <2>4, Places, MoveKeeps
<1>4. ASSUME ~Matches(s), End(s, "conflict"), UNCHANGED metadata PROVE IInv'
  <2>1. disturbed[s]
    BY <1>1, <1>4 DEF IInv, Alone, Current, Matches
  <2>2. metadata' \in Metadata \cup {NoRow}
    BY <1>4 DEF IInv, Shape
  <2> QED  BY <1>1, <1>2, <1>4, <2>1, <2>2, Places, EndKeeps
<1> QED  BY <1>3, <1>4, WriteFacts

\* A step that changes nothing but the request itself, and goes where nothing is required.
LEMMA MoveOn ==
  ASSUME IInv, NEW s \in Requests, Busy(s), MayRun(s) \/ loop = Free,
         NEW place \in {"refresh", "context", "rules", "saved", "calculate"}, GoTo(s, place),
         UNCHANGED <<version, plan, metadata>>, ReviewSound',
         DOMAIN request' = Requests, \A q \in Requests \ {s} : request'[q] = request[q],
         {"kind", "id"} \subseteq DOMAIN request'[s],
         request'[s].kind = request[s].kind, request'[s].id = request[s].id
  PROVE  IInv'
<1>1. pc'[s] = place
  BY DEF IInv, Shape, GoTo
<1>2. Informed(s)' /\ Current(s)'
  BY <1>1 DEF Informed, Current
<1>3. metadata' \in Metadata \cup {NoRow}
  BY DEF IInv, Shape
<1> QED  BY <1>2, <1>3, Places, MoveKeeps

\* The row is read back.
LEMMA RefreshStep ==
  ASSUME IInv, NEW s \in Requests, Refresh(s)
  PROVE  IInv'
<1>1. pc[s] = "refresh" /\ Busy(s) /\ MayRun(s)
  BY Places DEF Refresh
<1>2. /\ UNCHANGED <<version, plan>> /\ metadata' = metadata
      /\ metadata' \in Metadata \cup {NoRow} /\ ReviewSound'
  BY StoredStay DEF Refresh
<1>3. ASSUME request[s].id # version, End(s, "conflict") PROVE IInv'
  <2>1. disturbed[s]
    BY <1>1, <1>3 DEF IInv, Alone
  <2> QED  BY <1>1, <1>2, <1>3, <2>1, Places, EndKeeps
<1>4. ASSUME End(s, "ok") PROVE IInv'
  BY <1>1, <1>2, <1>4, Places, EndKeeps
<1>5. ASSUME GoTo(s, "context"),
             request' = [request EXCEPT ![s] = [kind |-> @.kind, id |-> @.id]]
      PROVE  IInv'
  <2>1. /\ DOMAIN request' = Requests
        /\ \A q \in Requests \ {s} : request'[q] = request[q]
        /\ request'[s] = [kind |-> request[s].kind, id |-> request[s].id]
    BY <1>5 DEF IInv, Shape
  <2>2. /\ {"kind", "id"} \subseteq DOMAIN request'[s]
        /\ request'[s].kind = request[s].kind /\ request'[s].id = request[s].id
    BY <2>1
  <2> QED  BY <1>1, <1>2, <1>5, <2>1, <2>2, MoveOn
<1> QED  BY <1>3, <1>4, <1>5 DEF Refresh

\* The position is looked up again.
LEMMA ReadPositionStep ==
  ASSUME IInv, NEW s \in Requests, ReadPosition(s)
  PROVE  IInv'
<1>1. pc[s] = "context" /\ Busy(s) /\ MayRun(s)
  BY Places DEF ReadPosition
<1>2. /\ UNCHANGED <<version, plan>> /\ metadata' = metadata
      /\ metadata' \in Metadata \cup {NoRow} /\ ReviewSound'
  BY StoredStay DEF ReadPosition
<1>3. ASSUME NEW outcome \in {"missing", "not_configured"}, End(s, outcome) PROVE IInv'
  BY <1>1, <1>2, <1>3, Places, EndKeeps
<1>4. ASSUME Note(s, [ready |-> ready]), GoTo(s, "rules") PROVE IInv'
  <2>1. /\ DOMAIN request' = Requests
        /\ \A q \in Requests \ {s} : request'[q] = request[q]
        /\ {"kind", "id"} \subseteq DOMAIN request'[s]
        /\ request'[s].kind = request[s].kind /\ request'[s].id = request[s].id
    BY <1>1, <1>4, NoteFacts
  <2> QED  BY <1>1, <1>2, <1>4, <2>1, MoveOn
<1> QED  BY <1>3, <1>4 DEF ReadPosition

\* The plan is read.
LEMMA ReadRulesStep ==
  ASSUME IInv, NEW s \in Requests, ReadRules(s)
  PROVE  IInv'
<1>1. pc[s] = "rules" /\ Busy(s) /\ MayRun(s)
  BY Places DEF ReadRules
<1>2. /\ UNCHANGED <<version, plan>> /\ metadata' = metadata
      /\ metadata' \in Metadata \cup {NoRow} /\ ReviewSound'
  BY StoredStay DEF ReadRules
<1>3. ASSUME NEW outcome \in {"not_ready", "not_configured"}, End(s, outcome) PROVE IInv'
  BY <1>1, <1>2, <1>3, Places, EndKeeps
<1>4. ASSUME Note(s, [rules |-> plan, calls |-> 0]), GoTo(s, "model") PROVE IInv'
  <2>1. /\ DOMAIN request' = Requests
        /\ \A q \in Requests \ {s} : request'[q] = request[q]
        /\ request'[s] = Over([rules |-> plan, calls |-> 0], request[s])
        /\ {"kind", "id"} \subseteq DOMAIN request'[s]
        /\ request'[s].kind = request[s].kind /\ request'[s].id = request[s].id
    BY <1>1, <1>4, NoteFacts
  <2>2. pc'[s] = "model"
    BY <1>4 DEF IInv, Shape, GoTo
  <2>3. "rules" \in DOMAIN request'[s] /\ request'[s].rules \in Plans
    BY <2>1 DEF Over, IInv, Shape
  <2>4. Informed(s)' /\ Current(s)'
    BY <2>2, <2>3 DEF Informed, Current
  <2> QED  BY <1>1, <1>2, <1>4, <2>1, <2>4, Places, MoveKeeps
<1> QED  BY <1>3, <1>4 DEF ReadRules

\* A reply to a review request arrives; what is accepted is sound.
LEMMA ModelRepliesStep ==
  ASSUME IInv, NEW s \in Requests, NEW reply \in Replies, ModelReplies(s, reply)
  PROVE  IInv'
<1> DEFINE calls == Counted(request[s].calls)
           review == Enforced(reply, request[s].rules)
<1>1. pc[s] = "model" /\ Busy(s) /\ loop = Free /\ Kind(s) = "review"
  BY Places DEF ModelReplies
<1>2. /\ UNCHANGED <<version, plan>> /\ metadata' = metadata
      /\ metadata' \in Metadata \cup {NoRow} /\ ReviewSound'
  BY StoredStay DEF ModelReplies
<1>3. "rules" \in DOMAIN request[s] /\ request[s].rules \in Plans
  BY <1>1 DEF IInv, Informed
<1>4. ASSUME Attempt(reply) = "accept", ~Forbidden(review),
             Note(s, [calls |-> calls, review |-> Stripped(review), reply |-> reply]),
             GoTo(s, "save")
      PROVE  IInv'
  <2> HIDE DEF calls
  <2>1. /\ DOMAIN request' = Requests
        /\ \A q \in Requests \ {s} : request'[q] = request[q]
        /\ request'[s] = Over([calls |-> calls, review |-> Stripped(review), reply |-> reply],
                             request[s])
        /\ {"kind", "id"} \subseteq DOMAIN request'[s]
        /\ request'[s].kind = request[s].kind /\ request'[s].id = request[s].id
    BY <1>1, <1>4, NoteFacts
  <2>2. pc'[s] = "save"
    BY <1>4 DEF IInv, Shape, GoTo
  <2>3. /\ request'[s].rules = request[s].rules /\ request'[s].reply = reply
        /\ request'[s].review = Stripped(review)
    BY <1>3, <2>1 DEF Over
  <2> DEFINE made == [by |-> s, rules |-> request'[s].rules, reply |-> request'[s].reply,
                     review |-> request'[s].review]
  <2>4. /\ made.rules = request[s].rules /\ made.reply = reply
        /\ made.review = Stripped(Enforced(reply, request[s].rules))
    BY <2>3
  <2>5. Sound(made)
    <3> HIDE DEF made
    <3> QED  BY <1>3, <1>4, <2>4, EnforcedSound
  <2>6. Sound([by |-> s, rules |-> request[s].rules, reply |-> request[s].reply,
              review |-> request[s].review])'
    BY <2>5 DEF Sound
  <2>7. Informed(s)' /\ Current(s)'
    BY <2>2, <2>6 DEF Informed, Current
  <2> QED  BY <1>1, <1>2, <1>4, <2>1, <2>7, Places, MoveKeeps
<1>5. ASSUME Note(s, [calls |-> calls]), GoTo(s, "model") PROVE IInv'
  <2> HIDE DEF calls
  <2>1. /\ DOMAIN request' = Requests
        /\ \A q \in Requests \ {s} : request'[q] = request[q]
        /\ request'[s] = Over([calls |-> calls], request[s])
        /\ {"kind", "id"} \subseteq DOMAIN request'[s]
        /\ request'[s].kind = request[s].kind /\ request'[s].id = request[s].id
    BY <1>1, <1>5, NoteFacts
  <2>2. pc'[s] = "model"
    BY <1>5 DEF IInv, Shape, GoTo
  <2>3. "rules" \in DOMAIN request'[s] /\ request'[s].rules \in Plans
    BY <1>3, <2>1 DEF Over
  <2>4. Informed(s)' /\ Current(s)'
    BY <2>2, <2>3 DEF Informed, Current
  <2> QED  BY <1>1, <1>2, <1>5, <2>1, <2>4, Places, MoveKeeps
<1>6. ASSUME End(s, "upstream") PROVE IInv'
  BY <1>1, <1>2, <1>6, Places, EndKeeps
<1> QED  BY <1>4, <1>5, <1>6 DEF ModelReplies

\* An answer to a question arrives.
LEMMA ModelAnswersStep ==
  ASSUME IInv, NEW s \in Requests, ModelAnswers(s)
  PROVE  IInv'
<1>1. pc[s] = "model" /\ Busy(s) /\ loop = Free /\ Kind(s) = "ask"
  BY Places DEF ModelAnswers
<1>2. /\ UNCHANGED <<version, plan>> /\ metadata' = metadata
      /\ metadata' \in Metadata \cup {NoRow} /\ ReviewSound'
  BY StoredStay DEF ModelAnswers
<1>3. ASSUME NEW text \in Answers, Note(s, [answer |-> Answer(text)]), GoTo(s, "save")
      PROVE  IInv'
  <2>1. /\ DOMAIN request' = Requests
        /\ \A q \in Requests \ {s} : request'[q] = request[q]
        /\ {"kind", "id"} \subseteq DOMAIN request'[s]
        /\ request'[s].kind = request[s].kind /\ request'[s].id = request[s].id
    BY <1>1, <1>3, NoteFacts
  <2>2. pc'[s] = "save" /\ request'[s].kind = "ask"
    BY <1>1, <1>3, <2>1 DEF IInv, Shape, GoTo, Kind
  <2>3. Informed(s)' /\ Current(s)'
    BY <2>2 DEF Informed, Current, Kind
  <2> QED  BY <1>1, <1>2, <1>3, <2>1, <2>3, Places, MoveKeeps
<1>4. ASSUME End(s, "crashed") PROVE IInv'
  BY <1>1, <1>2, <1>4, Places, EndKeeps
<1> QED  BY <1>3, <1>4 DEF ModelAnswers

\* The review or the question is stored.
LEMMA SaveStep ==
  ASSUME IInv, NEW s \in Requests, Save(s)
  PROVE  IInv'
<1>1. pc[s] = "save" /\ Busy(s) /\ MayRun(s)
  BY Places DEF Save
<1>2. UNCHANGED <<version, plan, metadata>> /\ metadata' \in Metadata \cup {NoRow}
  BY DEF Save, settings, IInv, Shape
<1>3. ASSUME request[s].id # version, End(s, "conflict"), UNCHANGED reviews PROVE IInv'
  <2>1. disturbed[s]
    BY <1>1, <1>3 DEF IInv, Alone
  <2>2. ReviewSound'
    BY <1>3 DEF IInv, ReviewSound, Sound
  <2> QED  BY <1>1, <1>2, <1>3, <2>1, <2>2, Places, EndKeeps
<1>4. ASSUME GoTo(s, "saved"), UNCHANGED request,
             \/ reviews' = reviews
             \/ /\ Kind(s) = "review"
                /\ reviews' = reviews \cup
                     {[by |-> s, rules |-> request[s].rules, reply |-> request[s].reply,
                       review |-> request[s].review]}
      PROVE  IInv'
  <2>1. ReviewSound'
    <3>1. \A r \in reviews' : Sound(r)
      BY <1>1, <1>4 DEF IInv, Informed, ReviewSound
    <3> QED  BY <3>1 DEF ReviewSound, Sound
  <2>2. /\ DOMAIN request' = Requests
        /\ \A q \in Requests \ {s} : request'[q] = request[q]
        /\ {"kind", "id"} \subseteq DOMAIN request'[s]
        /\ request'[s].kind = request[s].kind /\ request'[s].id = request[s].id
    BY <1>1, <1>4, UnchangedFacts
  <2> QED  BY <1>1, <1>2, <1>4, <2>1, <2>2, MoveOn
<1> QED  BY <1>3, <1>4 DEF Save

\* It is read back.
LEMMA SavedStep ==
  ASSUME IInv, NEW s \in Requests, Saved(s)
  PROVE  IInv'
<1>1. pc[s] = "saved" /\ Busy(s) /\ MayRun(s)
  BY Places DEF Saved
<1>2. /\ UNCHANGED <<version, plan>> /\ metadata' = metadata
      /\ metadata' \in Metadata \cup {NoRow} /\ ReviewSound'
  BY StoredStay DEF Saved
<1>3. request[s].id # version => disturbed[s]
  BY <1>1 DEF IInv, Alone
<1> DEFINE outcome == IF request[s].id = version THEN "ok" ELSE "conflict"
<1>4. outcome \in Ended /\ End(s, outcome) /\ (outcome = "conflict" => disturbed[s])
  BY <1>3, Places DEF Saved
<1> HIDE DEF outcome
<1> QED  BY <1>1, <1>2, <1>4, EndKeeps

\* Candles arrive.
LEMMA CandlesArriveStep ==
  ASSUME IInv, NEW s \in Requests, CandlesArrive(s)
  PROVE  IInv'
<1>1. pc[s] = "candles" /\ Busy(s) /\ loop = Free
  BY Places DEF CandlesArrive
<1>2. /\ UNCHANGED <<version, plan>> /\ metadata' = metadata
      /\ metadata' \in Metadata \cup {NoRow} /\ ReviewSound'
  BY StoredStay DEF CandlesArrive
<1>3. ASSUME GoTo(s, "calculate"), UNCHANGED request PROVE IInv'
  <2>1. /\ DOMAIN request' = Requests
        /\ \A q \in Requests \ {s} : request'[q] = request[q]
        /\ {"kind", "id"} \subseteq DOMAIN request'[s]
        /\ request'[s].kind = request[s].kind /\ request'[s].id = request[s].id
    BY <1>1, <1>3, UnchangedFacts
  <2> QED  BY <1>1, <1>2, <1>3, <2>1, MoveOn
<1>4. ASSUME End(s, "upstream") PROVE IInv'
  BY <1>1, <1>2, <1>4, Places, EndKeeps
<1> QED  BY <1>3, <1>4 DEF CandlesArrive

\* The snapshots are calculated.
LEMMA CalculateSnapshotsStep ==
  ASSUME IInv, NEW s \in Requests, CalculateSnapshots(s)
  PROVE  IInv'
<1>1. pc[s] = "calculate" /\ Busy(s) /\ MayRun(s)
  BY Places DEF CalculateSnapshots
<1>2. /\ UNCHANGED <<version, plan>> /\ metadata' \in Metadata \cup {NoRow} /\ ReviewSound'
  BY DEF CalculateSnapshots, settings, IInv, Shape, ReviewSound, Sound
<1>3. request[s].id # version => disturbed[s]
  BY <1>1 DEF IInv, Alone
<1>4. End(s, "ok") \/ (End(s, "conflict") /\ disturbed[s])
  BY <1>3 DEF CalculateSnapshots
<1> QED  BY <1>1, <1>2, <1>4, Places, EndKeeps

\* The database fails a statement.
LEMMA LoseStep ==
  ASSUME IInv, NEW s \in Requests, Lose(s)
  PROVE  IInv'
<1>1. Busy(s) /\ MayRun(s) /\ End(s, "lost")
  BY DEF Lose, Busy, Awaits
<1>2. /\ UNCHANGED <<version, plan>> /\ metadata' = metadata
      /\ metadata' \in Metadata \cup {NoRow} /\ ReviewSound'
  BY StoredStay DEF Lose
<1> QED  BY <1>1, <1>2, Places, EndKeeps

\* A request begins: alone it loads the current row, otherwise all are disturbed.
LEMMA BeginStep ==
  ASSUME IInv, NEW s \in Requests, NEW kind \in Kinds, NEW id \in 1 .. version,
         Begin(s, kind, id)
  PROVE  IInv'
<1>1. /\ pc[s] = "new" /\ ~Busy(s) /\ request[s] = NoRequest /\ loop # s
      /\ UNCHANGED <<version, metadata, plan, reviews, loop>>
  BY DEF Begin, IInv, Known, Busy, Ended, Awaits, stored, settings, Kind, NoRequest, Threads
<1>2. ReviewSound'
  BY <1>1 DEF IInv, ReviewSound, Sound
<1>3. ASSUME pc' = [pc EXCEPT ![s] = "missing"], UNCHANGED <<request, disturbed>> PROVE IInv'
  <2>1. pc'[s] = "missing" /\ DOMAIN pc' = Requests /\ \A q \in Requests \ {s} : pc'[q] = pc[q]
    BY <1>3 DEF IInv, Shape
  <2>2. \A q \in Requests : Busy(q)' <=> Busy(q)
    BY <1>1, <2>1 DEF Busy, Ended
  <2>3. ASSUME NEW q \in Requests PROVE (Known(q) /\ Informed(q) /\ Alone(q))'
    <3>1. Known(q) /\ Informed(q) /\ Alone(q)
      BY DEF IInv
    <3>2. CASE q = s
      BY <1>1, <1>3, <2>1, <2>2, <3>1, <3>2
         DEF Known, Informed, Alone, Kind, Awaits, Ended, NoRequest, Threads
    <3>3. CASE q # s
      <4>1. pc'[q] = pc[q]
        BY <2>1, <3>3
      <4> QED
        BY <1>1, <1>3, <2>2, <3>1, <4>1 DEF Known, Informed, Alone, Kind, Current, Sound
    <3> QED  BY <3>2, <3>3
  <2>4. Shape'
    BY <1>1, <1>3, <2>1 DEF IInv, Shape
  <2> QED  BY <1>2, <2>3, <2>4 DEF IInv
<1>4. CASE id = version
  <2> DEFINE others == {q \in Requests : Busy(q)}
             new == CASE kind = "put" -> [kind |-> kind, id |-> id, loaded |-> metadata]
                      [] kind = "sync" -> [kind |-> kind, id |-> id, held |-> metadata]
                      [] OTHER -> [kind |-> kind, id |-> id]
             place == CASE kind = "put" -> "write" [] kind = "snapshots" -> "candles"
                        [] OTHER -> "orders"
  <2>1. /\ request' = [request EXCEPT ![s] = new]
        /\ pc' = [pc EXCEPT ![s] = place]
        /\ disturbed' = [q \in Requests |-> IF q = s THEN others # {}
                                            ELSE disturbed[q] \/ q \in others]
    BY <1>4 DEF Begin
  <2>2. /\ {"kind", "id"} \subseteq DOMAIN new /\ new.kind = kind /\ new.id = version
        /\ kind = "put" => "loaded" \in DOMAIN new /\ new.loaded = metadata
        /\ kind = "sync" => "held" \in DOMAIN new /\ new.held = metadata
    BY <1>4
  <2>3. /\ place \in {"write", "candles", "orders"} /\ place \notin Ended
        /\ place = "write" <=> kind = "put"
        /\ kind # "put" => place \in Awaits
    BY DEF Ended, Awaits
  <2> HIDE DEF new, place
  <2>4. /\ DOMAIN request' = Requests /\ DOMAIN pc' = Requests
        /\ request'[s] = new /\ pc'[s] = place
        /\ \A q \in Requests \ {s} : request'[q] = request[q] /\ pc'[q] = pc[q]
    BY <2>1 DEF IInv, Shape
  <2>5. Shape'
    BY <1>1, <2>1, <2>4 DEF IInv, Shape
  <2>6. version \in Nat
    BY BoundAssumption DEF IInv, Shape
  <2>7. Known(s)'
    BY <1>1, <2>2, <2>3, <2>4, <2>6 DEF Known, Busy, Kind, Threads
  <2>8. Informed(s)'
    BY <2>2, <2>3, <2>4 DEF Informed, Kind
  <2>9. Alone(s)'
    <3>1. pc'[s] # "conflict"
      BY <2>3, <2>4
    <3>2. disturbed'[s] <=> others # {}
      BY <2>1
    <3>3. ASSUME ~disturbed'[s], NEW q \in Requests \ {s} PROVE ~Busy(q)'
      BY <2>4, <3>2, <3>3 DEF Busy
    <3>4. Current(s)'
      BY <1>1, <2>2, <2>3, <2>4 DEF Current, Kind
    <3> QED  BY <1>1, <2>2, <2>4, <3>1, <3>3, <3>4 DEF Alone
  <2>10. ASSUME NEW q \in Requests \ {s} PROVE (Known(q) /\ Informed(q) /\ Alone(q))'
    <3>1. Known(q) /\ Informed(q) /\ Alone(q)
      BY DEF IInv
    <3>2. request'[q] = request[q] /\ pc'[q] = pc[q] /\ version' = version /\ loop' = loop
      BY <1>1, <2>4
    <3>3. disturbed'[q] <=> disturbed[q] \/ Busy(q)
      BY <2>1
    <3>4. Known(q)' /\ Informed(q)'
      BY <3>1, <3>2 DEF Known, Informed, Busy, Kind, Sound
    <3>5. Alone(q)'
      BY <3>1, <3>2, <3>3 DEF Alone, Busy
    <3> QED  BY <3>4, <3>5
  <2> QED  BY <1>2, <2>5, <2>7, <2>8, <2>9, <2>10 DEF IInv
<1> QED  BY <1>3, <1>4 DEF Begin

\* A reconstruction replaces the row and disturbs every request.
LEMMA ReconstructStep ==
  ASSUME IInv, Reconstruct
  PROVE  IInv'
<1>1. /\ version' = version + 1 /\ version' \in Versions /\ version \in Nat
      /\ metadata' = NoRow /\ reviews' = {}
      /\ UNCHANGED <<plan, request, pc, loop>>
      /\ disturbed' = [s \in Requests |-> disturbed[s] \/ Busy(s)]
  BY BoundAssumption DEF Reconstruct, settings, IInv, Shape
<1>2. Shape' /\ ReviewSound'
  BY <1>1 DEF IInv, Shape, ReviewSound
<1>3. ASSUME NEW s \in Requests PROVE (Known(s) /\ Informed(s) /\ Alone(s))'
  <2>1. Known(s) /\ Informed(s) /\ Alone(s)
    BY DEF IInv
  <2>2. disturbed'[s] <=> disturbed[s] \/ Busy(s)
    BY <1>1
  <2>3. Known(s)' /\ Informed(s)'
    <3>1. Known(s)'
      BY <1>1, <2>1 DEF Known, Busy, Kind
    <3>2. Informed(s)'
      BY <1>1, <2>1 DEF Informed, Busy, Kind, Sound
    <3> QED  BY <3>1, <3>2
  <2>4. Alone(s)'
    BY <1>1, <2>1, <2>2 DEF Alone, Busy
  <2> QED  BY <2>3, <2>4
<1> QED  BY <1>2, <1>3 DEF IInv

\* Nothing changes.
LEMMA StutterStep ==
  ASSUME IInv, UNCHANGED vars
  PROVE  IInv'
<1>1. UNCHANGED <<version, metadata, reviews, plan, request, pc, loop, disturbed>>
  BY DEF vars, stored, settings
<1>2. Shape' /\ ReviewSound'
  BY <1>1 DEF IInv, Shape, ReviewSound, Sound
<1>3. ASSUME NEW s \in Requests PROVE (Known(s) /\ Informed(s) /\ Alone(s))'
  <2>1. Known(s) /\ Informed(s) /\ Alone(s)
    BY DEF IInv
  <2>2. Known(s)' /\ Informed(s)'
    <3>1. Known(s)'
      BY <1>1, <2>1 DEF Known, Busy, Kind
    <3>2. Informed(s)'
      BY <1>1, <2>1 DEF Informed, Busy, Kind, Sound
    <3> QED  BY <3>1, <3>2
  <2>3. Current(s)' <=> Current(s)
    BY <1>1 DEF Current, Kind
  <2>4. Alone(s)'
    BY <1>1, <2>1, <2>3 DEF Alone, Busy, Kind
  <2> QED  BY <2>2, <2>4
<1> QED  BY <1>2, <1>3 DEF IInv

\* Every step keeps the invariant.
LEMMA NextIInv == IInv /\ [Next]_vars => IInv'
<1> SUFFICES ASSUME IInv, [Next]_vars PROVE IInv'
  OBVIOUS
<1>1. ASSUME NEW s \in Requests, BeginRequest(s) PROVE IInv'
  BY <1>1, BeginStep DEF BeginRequest
<1>2. ASSUME NEW s \in Requests, Step(s) PROVE IInv'
  BY <1>2, StopOrdersStep, LoadMetadataStep, WriteMetadataStep, RefreshStep, ReadPositionStep,
     ReadRulesStep, ModelRepliesStep, ModelAnswersStep, SaveStep, SavedStep, CandlesArriveStep,
     CalculateSnapshotsStep DEF Step
<1>3. ASSUME NEW s \in Requests, Lose(s) PROVE IInv'
  BY <1>3, LoseStep
<1>4. CASE Reconstruct
  BY <1>4, ReconstructStep
<1>5. CASE UNCHANGED vars
  BY <1>5, StutterStep
<1> QED  BY <1>1, <1>2, <1>3, <1>4, <1>5 DEF Next

\* The invariant holds always.
LEMMA Inductive == Spec => []IInv
BY InitIInv, NextIInv, PTL DEF Spec

-----------------------------------------------------------------------------
(* The theorems.                                                           *)

\* What a request knows is dropped when it ends, and the event loop belongs to a coroutine
\* exactly while one is between two awaits.
THEOREM TypeCorrect == Spec => []TypeOK
<1>1. IInv => TypeOK
  <2> SUFFICES ASSUME IInv, NEW s \in Requests
               PROVE  /\ ~Busy(s) <=> request[s] = NoRequest
                      /\ loop = s <=> Kind(s) \notin Threads /\ pc[s] \notin Awaits
                      /\ Busy(s) => request[s].id <= version
    BY DEF IInv, Shape, TypeOK
  <2>1. Known(s)
    BY DEF IInv
  <2> QED  BY <2>1 DEF Known, Kind, NoRequest, Kinds
<1> QED  BY <1>1, Inductive, PTL

\* Every stored review is sound (generate_review), for any plan and any replies.
THEOREM ReviewsAreSound == Spec => []ReviewSound
<1>1. IInv => ReviewSound
  BY DEF IInv
<1> QED  BY <1>1, Inductive, PTL

\* Which steps write the metadata of a position that stays.
LEMMA MetadataWriters ==
  ASSUME IInv, [Next]_vars, metadata' # metadata, version' = version
  PROVE  \E s \in Requests : WriteMetadata(s)
<1>1. version \in Nat
  BY BoundAssumption DEF IInv, Shape
<1>2. ~Reconstruct
  BY <1>1 DEF Reconstruct
<1>3. ASSUME NEW s \in Requests, BeginRequest(s) \/ Lose(s) PROVE FALSE
  BY <1>3 DEF BeginRequest, Begin, Lose, stored
<1>4. ASSUME NEW s \in Requests, Step(s) PROVE WriteMetadata(s)
  BY <1>4 DEF Step, StopOrdersArrive, LoadMetadata, Refresh, ReadPosition, ReadRules,
     ModelReplies, ModelAnswers, Save, Saved, CandlesArrive, CalculateSnapshots, stored
<1> QED  BY <1>2, <1>3, <1>4 DEF Next, vars, stored

\* However requests overlap, only a PUT that carries them changes the notes of a position
\* that stays (sync_stop_loss_from_mexc writes the column it changed).
THEOREM NotesAreTheUsers == Spec => NotesStay
<1> DEFINE Kept ==
      version' = version /\ metadata # NoRow =>
        /\ metadata' # NoRow
        /\ metadata'.notes # metadata.notes =>
             \E s \in Requests : /\ Kind(s) = "put" /\ pc[s] = "write" /\ pc'[s] = "refresh"
                                /\ request'[s].given.notes = metadata'.notes
<1>1. ASSUME IInv, [Next]_vars PROVE Kept
  <2> SUFFICES ASSUME version' = version, metadata # NoRow, metadata' # metadata
               PROVE  /\ metadata' # NoRow
                      /\ metadata'.notes # metadata.notes =>
                           \E s \in Requests :
                             /\ Kind(s) = "put" /\ pc[s] = "write" /\ pc'[s] = "refresh"
                             /\ request'[s].given.notes = metadata'.notes
    OBVIOUS
  <2>1. PICK s \in Requests : WriteMetadata(s)
    BY <1>1, MetadataWriters
  <2>2. pc[s] = "write" /\ Busy(s)
    BY <1>1, <2>1, WriteFacts
  <2>3. PICK given : /\ Matches(s)
                     /\ Kind(s) # "put" => given = [stop |-> request[s].stop]
                     /\ given \in Metadata \/ \E stop \in Stops : given = [stop |-> stop]
                     /\ metadata' = Written(request[s].loaded, given)
                     /\ Note(s, [given |-> given]) /\ GoTo(s, "refresh")
    BY <1>1, <2>1, WriteFacts
  <2>4. /\ metadata' \in Metadata
        /\ metadata'.notes # metadata.notes => given \in Metadata /\ metadata'.notes = given.notes
    BY <1>1, <2>3, WrittenFacts DEF IInv, Shape, Matches
  <2>5. pc'[s] = "refresh" /\ request'[s].given = given
    BY <1>1, <2>3 DEF IInv, Shape, GoTo, Note, Over
  <2>6. given \in Metadata => Kind(s) = "put"
    BY <2>3 DEF Metadata
  <2> QED  BY <2>2, <2>4, <2>5, <2>6, DatabaseAssumption
<1>2. IInv /\ [Next]_vars => [Kept]_vars
  BY <1>1
<1> QED  BY <1>2, Inductive, PTL DEF Spec, NotesStay

\* Only a step of its own makes a request end in a conflict, and such a step leaves its
\* history as it was.
LEMMA ConflictSteps ==
  ASSUME IInv, [Next]_vars, NEW s \in Requests, pc'[s] = "conflict", pc[s] # "conflict"
  PROVE  disturbed' = disturbed
<1>1. ASSUME NEW q \in Requests, BeginRequest(q) PROVE FALSE
  BY <1>1 DEF BeginRequest, Begin, IInv, Shape
<1>2. ASSUME NEW q \in Requests, Step(q) \/ Lose(q) PROVE disturbed' = disturbed
  BY <1>2 DEF Step, Lose, StopOrdersArrive, LoadMetadata, WriteMetadata, Refresh, ReadPosition,
     ReadRules, ModelReplies, ModelAnswers, Save, Saved, CandlesArrive, CalculateSnapshots,
     End, GoTo
<1>3. ~Reconstruct
  BY DEF Reconstruct
<1> QED  BY <1>1, <1>2, <1>3 DEF Next, vars

\* A request moves from the write to the refresh by writing.
LEMMA RefreshFollowsWrite ==
  ASSUME IInv, [Next]_vars, NEW s \in Requests, pc[s] = "write", pc'[s] = "refresh"
  PROVE  WriteMetadata(s)
<1>1. ASSUME NEW q \in Requests, BeginRequest(q) PROVE FALSE
  BY <1>1 DEF BeginRequest, Begin, IInv, Shape
<1>2. ASSUME NEW q \in Requests, Step(q) \/ Lose(q) PROVE q = s
  <2>1. \A place : GoTo(q, place) => \A r \in Requests \ {q} : pc'[r] = pc[r]
    BY DEF IInv, Shape, GoTo
  <2>2. \E place : GoTo(q, place)
    BY <1>2 DEF Step, Lose, StopOrdersArrive, LoadMetadata, WriteMetadata, Refresh, ReadPosition,
       ReadRules, ModelReplies, ModelAnswers, Save, Saved, CandlesArrive, CalculateSnapshots, End
  <2> QED  BY <2>1, <2>2
<1>3. ASSUME Step(s) PROVE WriteMetadata(s)
  BY <1>3 DEF Step, StopOrdersArrive, LoadMetadata, Refresh, ReadPosition,
     ReadRules, ModelReplies, ModelAnswers, Save, Saved, CandlesArrive, CalculateSnapshots
<1>4. ~Lose(s)
  BY DEF Lose, End, GoTo, IInv, Shape
<1>5. ~Reconstruct
  BY DEF Reconstruct
<1> QED  BY <1>1, <1>2, <1>3, <1>4, <1>5 DEF Next, vars

\* A request that nothing overlaps meets no constraint, and its write takes effect.
THEOREM AloneEffective == Spec => AloneTakesEffect
<1> DEFINE Effect ==
      \A s \in Requests : ~disturbed[s] =>
        /\ pc'[s] # "conflict"
        /\ pc[s] = "write" /\ pc'[s] = "refresh" =>
             metadata' = Over(request'[s].given,
                              IF metadata = NoRow THEN NoMetadata ELSE metadata)
<1>1. ASSUME IInv, IInv', [Next]_vars PROVE Effect
  <2> SUFFICES ASSUME NEW s \in Requests, ~disturbed[s]
               PROVE  /\ pc'[s] # "conflict"
                      /\ pc[s] = "write" /\ pc'[s] = "refresh" =>
                           metadata' = Over(request'[s].given,
                                            IF metadata = NoRow THEN NoMetadata ELSE metadata)
    OBVIOUS
  <2>1. pc[s] # "conflict"
    BY <1>1 DEF IInv, Alone
  <2>2. pc'[s] # "conflict"
    BY <1>1, <2>1, ConflictSteps DEF IInv, Alone
  <2>3. ASSUME pc[s] = "write", pc'[s] = "refresh"
        PROVE  metadata' = Over(request'[s].given,
                                IF metadata = NoRow THEN NoMetadata ELSE metadata)
    <3>1. WriteMetadata(s)
      BY <1>1, <2>3, RefreshFollowsWrite
    <3>2. request[s].loaded = metadata
      BY <1>1, <2>3, Places DEF IInv, Alone, Current
    <3>3. ~End(s, "conflict")
      BY <1>1, <2>3 DEF End, GoTo, IInv, Shape
    <3>4. PICK given : /\ Matches(s)
                       /\ given \in Metadata \/ \E stop \in Stops : given = [stop |-> stop]
                       /\ metadata' = Written(request[s].loaded, given)
                       /\ Note(s, [given |-> given])
      BY <1>1, <3>1, <3>3, WriteFacts
    <3>5. request'[s].given = given
      BY <1>1, <3>4 DEF IInv, Shape, Note, Over
    <3> QED  BY <1>1, <3>2, <3>4, <3>5, WrittenFacts DEF IInv, Shape, Matches
  <2> QED  BY <2>2, <2>3
<1>2. IInv /\ IInv' /\ [Next]_vars => [Effect]_vars
  BY <1>1
<1> QED  BY <1>2, Inductive, PTL DEF Spec, AloneTakesEffect
=============================================================================
