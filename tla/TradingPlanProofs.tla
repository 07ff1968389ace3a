------------------------- MODULE TradingPlanProofs -------------------------
(***************************************************************************)
(* Proofs about TradingPlan, for any sessions and payloads and any number  *)
(* of requests.                                                            *)
(***************************************************************************)
EXTENDS TradingPlan, SetLemmas, TLAPS

-----------------------------------------------------------------------------
(* The places of items.                                                    *)

\* A list as upsert_plan stores it: a sequence of rules with natural numbers.
List(list) ==
  /\ list \in Seq({list[i] : i \in DOMAIN list})
  /\ \A i \in DOMAIN list : list[i].sort_order \in Nat

\* Of a list that is not empty, one item gets the place zero.
LEMMA FirstPlace ==
  ASSUME NEW list, List(list), list # <<>>
  PROVE  \E i \in DOMAIN list : Place(list, i) = 0
<1>1. PICK n \in Nat : n > 0 /\ DOMAIN list = 1 .. n
  <2>1. list \in Seq({list[i] : i \in DOMAIN list})
    BY DEF List
  <2> QED  BY <2>1
<1> DEFINE Orders == {list[i].sort_order : i \in 1 .. n}
<1>2. Orders \subseteq Nat /\ list[1].sort_order \in Orders
  BY <1>1 DEF List
<1>3. PICK least \in Orders : \A order \in Orders : least <= order
  BY <1>2, LeastNatural
<1> DEFINE Firsts == {i \in 1 .. n : list[i].sort_order = least}
<1>4. Firsts \subseteq Nat /\ Firsts # {}
  OBVIOUS
<1>5. PICK first \in Firsts : \A i \in Firsts : first <= i
  BY <1>4, LeastNatural
<1>6. ASSUME NEW j \in 1 .. n
      PROVE  ~ (\/ list[j].sort_order < list[first].sort_order
                \/ list[j].sort_order = list[first].sort_order /\ j < first)
  <2>1. list[j].sort_order \in Orders /\ list[first].sort_order = least
    OBVIOUS
  <2>2. least <= list[j].sort_order /\ list[j].sort_order \in Nat /\ least \in Nat
    BY <1>2, <1>3, <2>1
  <2>3. list[j].sort_order = least => first <= j
    BY <1>5
  <2> QED  BY <2>1, <2>2, <2>3
<1>7. {j \in DOMAIN list : \/ list[j].sort_order < list[first].sort_order
                           \/ list[j].sort_order = list[first].sort_order /\ j < first} = {}
  BY <1>1, <1>6
<1>8. Place(list, first) = 0
  BY <1>7, FS_EmptySet DEF Place
<1> QED  BY <1>1, <1>8

\* The lists clients may have sent, normalised.
Sent == {[i \in DOMAIN payload |-> Normalised(payload[i])] : payload \in Accepted}

\* Such a list is one the validators left in order.
LEMMA SentFacts ==
  ASSUME NEW list \in Sent
  PROVE  List(list)
<1>1. PICK payload \in Accepted : list = [i \in DOMAIN payload |-> Normalised(payload[i])]
  BY DEF Sent
<1>2. /\ payload \in Seq({payload[i] : i \in DOMAIN payload})
      /\ \A i \in DOMAIN payload :
           /\ DOMAIN payload[i] = {"type", "sort_order", "enabled", "config"}
           /\ payload[i].sort_order \in Nat
  BY PayloadsAssumption DEF Accepted
<1>3. PICK n \in Nat : DOMAIN payload = 1 .. n
  BY <1>2
<1>4. DOMAIN list = 1 .. n /\ list = [i \in 1 .. n |-> list[i]]
  BY <1>1, <1>3
<1>5. list \in Seq({list[i] : i \in 1 .. n})
  BY <1>3, <1>4
<1>6. ASSUME NEW i \in 1 .. n PROVE list[i].sort_order \in Nat
  <2>1. list[i] = Normalised(payload[i])
    BY <1>1, <1>3
  <2>2. Normalised(payload[i]).sort_order = payload[i].sort_order
    BY <1>2, <1>3 DEF Normalised
  <2> QED  BY <1>2, <1>3, <2>1, <2>2
<1> QED  BY <1>4, <1>5, <1>6 DEF List

-----------------------------------------------------------------------------
(* The inductive invariant.                                                *)

Shape ==
  /\ puts \in Seq(Sent)
  /\ pc = [s \in Sessions |-> pc[s]] /\ put = [s \in Sessions |-> put[s]]
  /\ DOMAIN loaded = Sessions /\ DOMAIN gone = Sessions
  /\ disturbed \in [Sessions -> BOOLEAN]
  /\ Len(puts) <= MaxPuts

\* Rows are those of one PUT, all of them.
Whole(rows) == rows = {} \/ \E n \in DOMAIN puts : rows = Rows(n)

\* A session that has ended holds nothing, and one that writes serves a PUT.  What it loaded was a
\* whole list; what it deleted are all items there are.
SessionOK(s) ==
  /\ pc[s] \in Ended \cup Statements
  /\ ~Busy(s) => put[s] = 0 /\ loaded[s] = {} /\ ~disturbed[s]
  /\ gone[s] \subseteq loaded[s]
  /\ put[s] \in 0 .. Len(puts)
  /\ pc[s] \in {"created", "delete", "touch", "insert"} => put[s] # 0
  /\ Whole(loaded[s])
  /\ gone[s] # {} => pc[s] \in {"touch", "insert"} /\ gone[s] = Items

\* A session that nothing overlaps knows the plan as it is.
Alone(s) ==
  Busy(s) /\ ~disturbed[s] =>
    /\ \A q \in Sessions \ {s} : ~Busy(q)
    /\ pc[s] \in {"create", "created"} => plan = NoPlan
    /\ pc[s] = "delete" => loaded[s] = Items
    /\ pc[s] \in {"touch", "insert"} => gone[s] = Items

IInv ==
  /\ Shape
  /\ Whole(Items)
  /\ \A s \in Sessions : SessionOK(s) /\ Alone(s)
  /\ \A s, q \in Sessions : gone[s] # {} /\ gone[q] # {} => s = q

\* A list that is not empty has a row in the first place, and its rows are its own.
LEMMA RowsFacts ==
  ASSUME Shape, NEW n \in DOMAIN puts
  PROVE  /\ puts[n] = <<>> => Rows(n) = {}
         /\ puts[n] # <<>> => \E row \in Rows(n) : row.sort_order = 0
         /\ \A row \in Rows(n) : row.put = n
         /\ List(puts[n])
<1>1. puts[n] \in Sent
  BY DEF Shape
<1>2. List(puts[n])
  BY <1>1, SentFacts
<1>3. ASSUME puts[n] # <<>> PROVE \E row \in Rows(n) : row.sort_order = 0
  <2>1. PICK i \in DOMAIN puts[n] : Place(puts[n], i) = 0
    BY <1>2, <1>3, FirstPlace
  <2>2. [put |-> n, sort_order |-> Place(puts[n], i), rule |-> puts[n][i]] \in Rows(n)
    BY DEF Rows
  <2> QED  BY <2>1, <2>2
<1>4. puts[n] = <<>> => Rows(n) = {}
  BY DEF Rows
<1>5. \A row \in Rows(n) : row.put = n
  BY DEF Rows
<1> QED  BY <1>2, <1>3, <1>4, <1>5

\* Whole lists have everything in common or nothing.
LEMMA WholeMeet ==
  ASSUME Shape, NEW A, NEW B, Whole(A), Whole(B)
  PROVE  A \cap B \in {{}, B} /\ (A \cap B # {} => A = B)
<1>1. CASE A = {} \/ B = {}
  BY <1>1
<1>2. ASSUME NEW n \in DOMAIN puts, NEW m \in DOMAIN puts, A = Rows(n), B = Rows(m)
      PROVE  A \cap B \in {{}, B} /\ (A \cap B # {} => A = B)
  <2>1. \A row \in A : row.put = n
    BY <1>2, RowsFacts
  <2>2. \A row \in B : row.put = m
    BY <1>2, RowsFacts
  <2>3. CASE n = m
    BY <1>2, <2>3
  <2>4. CASE n # m
    <3>1. A \cap B = {}
      BY <2>1, <2>2, <2>4
    <3> QED  BY <3>1
  <2> QED  BY <2>3, <2>4
<1> QED  BY <1>1, <1>2 DEF Whole

\* The lists of the past stay as they were.
LEMMA PutsStay ==
  ASSUME Shape, puts' = puts \/ \E list \in Sent : puts' = Append(puts, list)
  PROVE  /\ DOMAIN puts \subseteq DOMAIN puts'
         /\ \A n \in DOMAIN puts : Rows(n)' = Rows(n)
         /\ \A A : Whole(A) => Whole(A)'
         /\ Len(puts') \in Nat /\ Len(puts) <= Len(puts')
<1>1. /\ DOMAIN puts \subseteq DOMAIN puts'
      /\ \A n \in DOMAIN puts : puts'[n] = puts[n]
      /\ Len(puts') \in Nat /\ Len(puts) <= Len(puts')
  BY DEF Shape
<1>2. \A n \in DOMAIN puts : Rows(n)' = Rows(n)
  BY <1>1 DEF Rows
<1>3. ASSUME NEW A, Whole(A) PROVE Whole(A)'
  BY <1>1, <1>2, <1>3 DEF Whole
<1> QED  BY <1>1, <1>2, <1>3

\* Before the first request.
LEMMA InitIInv == Init => IInv
<1> SUFFICES ASSUME Init PROVE IInv
  OBVIOUS
<1>1. Shape /\ Whole(Items)
  BY PutsAssumption DEF Init, Shape, Whole, Items
<1>2. ASSUME NEW s \in Sessions PROVE SessionOK(s) /\ Alone(s) /\ gone[s] = {}
  BY DEF Init, SessionOK, Alone, Busy, Ended, Whole, Statements
<1> QED  BY <1>1, <1>2 DEF IInv

-----------------------------------------------------------------------------
(* Steps.                                                                  *)

\* A session ends.  The plan may have changed, as long as it is whole and keeps what another
\* session has deleted.
LEMMA EndKeeps ==
  ASSUME IInv, NEW s \in Sessions, NEW outcome \in Ended, End(s, outcome), Busy(s),
         Whole(Items'),
         \A q \in Sessions \ {s} : gone[q] # {} => Items' = Items
  PROVE  IInv'
<1>1. /\ puts' = puts /\ pc'[s] = outcome /\ loaded'[s] = {} /\ gone'[s] = {} /\ put'[s] = 0
      /\ ~disturbed'[s]
      /\ \A q \in Sessions \ {s} :
           /\ pc'[q] = pc[q] /\ loaded'[q] = loaded[q] /\ gone'[q] = gone[q] /\ put'[q] = put[q]
           /\ disturbed'[q] = disturbed[q]
  BY DEF End, IInv, Shape
<1>2. Shape'
  BY DEF End, IInv, Shape
<1>3. \A A : Whole(A) => Whole(A)'
  BY <1>1, PutsStay DEF IInv
<1>4. ASSUME NEW q \in Sessions PROVE SessionOK(q)' /\ Alone(q)'
  <2>1. CASE q = s
    BY <1>1, <2>1, <1>2 DEF SessionOK, Alone, Busy, Ended, Whole, Shape
  <2>2. CASE q # s
    <3>1. SessionOK(q) /\ Alone(q)
      BY DEF IInv
    <3>2. gone[q] # {} => Items' = Items
      BY <2>2
    <3>3. SessionOK(q)'
      BY <1>1, <1>3, <2>2, <3>1, <3>2 DEF SessionOK, Busy
    <3>4. Alone(q)'
      BY <1>1, <2>2, <3>1 DEF Alone, Busy
    <3> QED  BY <3>3, <3>4
  <2> QED  BY <2>1, <2>2
<1>5. \A q, r \in Sessions : gone'[q] # {} /\ gone'[r] # {} => q = r
  BY <1>1 DEF IInv
<1> QED  BY <1>2, <1>3, <1>4, <1>5 DEF IInv

\* A session goes on to its next statement; what it deletes are all items or none.
LEMMA MoveKeeps ==
  ASSUME IInv, NEW s \in Sessions, Busy(s), NEW place,
         pc' = [pc EXCEPT ![s] = place], UNCHANGED <<puts, plan, put, loaded, disturbed>>,
         place \in Statements, gone'[s] \subseteq loaded[s],
         DOMAIN gone' = Sessions, \A q \in Sessions \ {s} : gone'[q] = gone[q],
         gone'[s] # {} => /\ place \in {"touch", "insert"} /\ gone'[s] = Items
                          /\ \A q \in Sessions \ {s} : gone[q] = {},
         place \in {"created", "delete", "touch", "insert"} => put[s] # 0,
         ~disturbed[s] => /\ place \in {"create", "created"} => plan = NoPlan
                          /\ place = "delete" => loaded[s] = Items
                          /\ place \in {"touch", "insert"} => gone'[s] = Items
  PROVE  IInv'
<1>1. /\ DOMAIN pc' = Sessions /\ pc'[s] = place /\ \A q \in Sessions \ {s} : pc'[q] = pc[q]
      /\ Items' = Items
  BY DEF IInv, Shape, Items
<1>2. Shape'
  BY <1>1 DEF IInv, Shape
<1>3. \A A : Whole(A) => Whole(A)'
  BY PutsStay DEF IInv
<1>4. ASSUME NEW q \in Sessions PROVE SessionOK(q)' /\ Alone(q)'
  <2>1. SessionOK(q) /\ Alone(q)
    BY DEF IInv
  <2>2. CASE q = s
    <3>1. SessionOK(q)'
      BY <1>1, <1>3, <2>1, <2>2 DEF SessionOK, Busy, Ended, Statements
    <3>2. Alone(q)'
      BY <1>1, <2>1, <2>2 DEF Alone, Busy, Items
    <3> QED  BY <3>1, <3>2
  <2>3. CASE q # s
    <3>1. SessionOK(q)'
      BY <1>1, <1>3, <2>1, <2>3 DEF SessionOK, Busy
    <3>2. Alone(q)'
      BY <1>1, <2>1, <2>3 DEF Alone, Busy
    <3> QED  BY <3>1, <3>2
  <2> QED  BY <2>2, <2>3
<1>5. \A q, r \in Sessions : gone'[q] # {} /\ gone'[r] # {} => q = r
  BY DEF IInv
<1>6. Whole(Items)'
  BY <1>1, <1>3 DEF IInv
<1> QED  BY <1>2, <1>4, <1>5, <1>6 DEF IInv

\* A request begins: it loads the plan, and disturbs every other under way.
LEMMA LoadKeeps ==
  ASSUME IInv, NEW s \in Sessions, Load(s),
         puts' = puts \/ \E list \in Sent : puts' = Append(puts, list),
         Len(puts') <= MaxPuts,
         put' = [q \in Sessions |-> put'[q]], pc' = [q \in Sessions |-> pc'[q]],
         \A q \in Sessions \ {s} : put'[q] = put[q] /\ pc'[q] = pc[q],
         put'[s] \in 0 .. Len(puts'),
         \/ pc'[s] = "create" /\ plan = NoPlan
         \/ pc'[s] = "delete" /\ put'[s] # 0
  PROVE  IInv'
<1> DEFINE others == {q \in Sessions : Busy(q)}
<1>1. /\ ~Busy(s) /\ plan' = plan /\ gone' = gone
      /\ loaded' = [loaded EXCEPT ![s] = Items]
      /\ disturbed' = [q \in Sessions |-> IF q = s THEN others # {}
                                          ELSE disturbed[q] \/ q \in others]
  BY DEF Load
<1>2. /\ loaded'[s] = Items /\ \A q \in Sessions \ {s} : loaded'[q] = loaded[q]
      /\ disturbed'[s] <=> others # {}
      /\ \A q \in Sessions \ {s} : disturbed'[q] <=> disturbed[q] \/ Busy(q)
      /\ Items' = Items
  BY <1>1 DEF IInv, Shape, Items
<1>3. Shape'
  <2>1. puts' \in Seq(Sent)
    <3>1. puts \in Seq(Sent)
      BY DEF IInv, Shape
    <3> QED  BY <3>1
  <2>2. DOMAIN loaded' = Sessions /\ DOMAIN gone' = Sessions
    BY <1>1 DEF IInv, Shape
  <2>3. disturbed' \in [Sessions -> BOOLEAN]
    BY <1>1 DEF IInv, Shape
  <2> QED  BY <1>2, <2>1, <2>2, <2>3 DEF Shape
<1>4. /\ \A A : Whole(A) => Whole(A)'
      /\ Len(puts') \in Nat /\ Len(puts) <= Len(puts')
  BY PutsStay DEF IInv
<1>5. gone[s] = {}
  BY <1>1 DEF IInv, SessionOK, Busy, Ended
<1>6. SessionOK(s)'
  BY <1>1, <1>2, <1>4, <1>5 DEF SessionOK, IInv, Busy, Ended, Statements
<1>7. Alone(s)'
  <2>1. ASSUME ~disturbed'[s], NEW q \in Sessions \ {s} PROVE ~Busy(q)'
    BY <1>2, <2>1 DEF Busy
  <2> QED  BY <1>1, <1>2, <2>1 DEF Alone
<1>8. ASSUME NEW q \in Sessions \ {s} PROVE SessionOK(q)' /\ Alone(q)'
  <2>1. SessionOK(q) /\ Alone(q)
    BY DEF IInv
  <2>2. Len(puts) \in Nat
    BY DEF IInv, Shape
  <2>3. SessionOK(q)'
    BY <1>1, <1>2, <1>4, <2>1, <2>2 DEF SessionOK, Busy
  <2>4. Alone(q)'
    BY <1>2, <2>1 DEF Alone, Busy
  <2> QED  BY <2>3, <2>4
<1>9. Whole(Items)'
  BY <1>2, <1>4 DEF IInv
<1> QED  BY <1>1, <1>3, <1>6, <1>7, <1>8, <1>9 DEF IInv

\* Where a session is decides that it is under way.
LEMMA Places ==
  ASSUME NEW s, pc[s] \in {"create", "created", "delete", "touch", "insert"}
  PROVE  Busy(s) /\ {"created", "touch", "insert"} \subseteq Statements
BY DEF Busy, Ended, Statements

\* A GET or a PUT begins.
LEMMA BeginStep ==
  ASSUME IInv, NEW s \in Sessions, GetPlan(s) \/ PutPlan(s)
  PROVE  IInv'
<1>1. CASE GetPlan(s)
  <2>1. puts' = puts \/ \E list \in Sent : puts' = Append(puts, list)
    BY <1>1 DEF GetPlan
  <2>2. /\ put' = [q \in Sessions |-> put'[q]] /\ pc' = [q \in Sessions |-> pc'[q]]
        /\ \A q \in Sessions \ {s} : put'[q] = put[q] /\ pc'[q] = pc[q]
    BY <1>1 DEF GetPlan, IInv, Shape
  <2>3. put'[s] \in 0 .. Len(puts')
    BY <1>1, <2>2 DEF GetPlan, IInv, Shape
  <2>4. Load(s)
    BY <1>1 DEF GetPlan
  <2>5. \/ pc'[s] = "create" /\ plan = NoPlan
        \/ pc'[s] = "delete" /\ put'[s] # 0
    BY <1>1 DEF GetPlan, IInv, Shape
  <2>6. Len(puts') <= MaxPuts
    BY <1>1 DEF GetPlan, IInv, Shape
  <2> QED  BY <2>1, <2>2, <2>3, <2>4, <2>5, <2>6, LoadKeeps
<1>2. CASE PutPlan(s)
  <2>1. PICK payload \in Accepted :
          puts' = Append(puts, [i \in DOMAIN payload |-> Normalised(payload[i])])
    BY <1>2 DEF PutPlan
  <2> DEFINE list == [i \in DOMAIN payload |-> Normalised(payload[i])]
  <2>2. list \in Sent
    BY DEF Sent
  <2> HIDE DEF list
  <2>3. Len(puts') \in Nat /\ Len(puts') # 0 /\ puts' = Append(puts, list)
    BY <2>1, <2>2 DEF IInv, Shape, list
  <2>4. /\ put' = [q \in Sessions |-> put'[q]] /\ pc' = [q \in Sessions |-> pc'[q]]
        /\ \A q \in Sessions \ {s} : put'[q] = put[q] /\ pc'[q] = pc[q]
        /\ put'[s] = Len(puts')
        /\ pc'[s] = IF plan = NoPlan THEN "create" ELSE "delete"
    BY <1>2 DEF PutPlan, IInv, Shape
  <2>5. Load(s)
    BY <1>2 DEF PutPlan
  <2>6. put'[s] \in 0 .. Len(puts')
    BY <2>3, <2>4
  <2>7. \/ pc'[s] = "create" /\ plan = NoPlan
        \/ pc'[s] = "delete" /\ put'[s] # 0
    BY <2>3, <2>4
  <2>8. Len(puts') <= MaxPuts
    BY <1>2, <2>3, PutsAssumption DEF PutPlan, IInv, Shape
  <2> QED  BY <2>2, <2>3, <2>4, <2>5, <2>6, <2>7, <2>8, LoadKeeps
<1> QED  BY <1>1, <1>2

\* The plan is created, by a GET that ends or a PUT that goes on; or it exists.
LEMMA CreateStep ==
  ASSUME IInv, NEW s \in Sessions, CreatePlan(s)
  PROVE  IInv'
<1>1. pc[s] = "create" /\ Busy(s) /\ gone[s] = {}
  <2>1. pc[s] = "create"
    BY DEF CreatePlan
  <2>2. SessionOK(s)
    BY DEF IInv
  <2> QED  BY <2>1, <2>2, Places DEF SessionOK
<1>2. CASE /\ plan = NoPlan /\ put[s] # 0
           /\ pc' = [pc EXCEPT ![s] = "created"]
           /\ UNCHANGED <<puts, plan, put, loaded, gone, disturbed>>
  <2>1. /\ DOMAIN gone' = Sessions /\ gone'[s] = {}
        /\ \A q \in Sessions \ {s} : gone'[q] = gone[q]
    BY <1>1, <1>2 DEF IInv, Shape
  <2>2. "created" \in Statements
    BY DEF Statements
  <2> QED  BY <1>1, <1>2, <2>1, <2>2, MoveKeeps
<1>3. CASE plan = NoPlan /\ put[s] = 0 /\ plan' = {} /\ End(s, "done")
  <2>1. Items = {} /\ Items' = {}
    BY <1>3 DEF Items
  <2>2. "done" \in Ended /\ Whole(Items')
    BY <2>1 DEF Ended, Whole
  <2> QED  BY <1>1, <1>3, <2>1, <2>2, EndKeeps
<1>4. CASE plan # NoPlan /\ End(s, "failed") /\ UNCHANGED plan
  <2>1. "failed" \in Ended /\ Items' = Items /\ Whole(Items')
    BY <1>4 DEF Ended, Items, IInv
  <2> QED  BY <1>1, <1>4, <2>1, EndKeeps
<1> QED  BY <1>2, <1>3, <1>4 DEF CreatePlan

\* A session without a change of the plan fails, or is lost.
LEMMA FailKeeps ==
  ASSUME IInv, NEW s \in Sessions, Busy(s), UNCHANGED plan, NEW outcome \in Ended,
         End(s, outcome)
  PROVE  IInv'
<1>1. Items' = Items /\ Whole(Items')
  BY DEF Items, IInv
<1> QED  BY <1>1, EndKeeps

\* The loaded items are deleted: all items there are, or none of them.
LEMMA DeleteStep ==
  ASSUME IInv, NEW s \in Sessions, DeleteItems(s)
  PROVE  IInv'
<1>1. /\ pc[s] = "delete" /\ \A q \in Sessions \ {s} : gone[q] \cap loaded[s] = {}
      /\ gone' = [gone EXCEPT ![s] = loaded[s] \cap Items]
      /\ pc' = [pc EXCEPT ![s] = "touch"]
      /\ UNCHANGED <<puts, plan, put, loaded, disturbed>>
  BY DEF DeleteItems
<1>2. Busy(s) /\ {"created", "touch", "insert"} \subseteq Statements
  BY <1>1, Places
<1>3. SessionOK(s) /\ Alone(s)
  BY DEF IInv
<1>4. /\ loaded[s] \cap Items \in {{}, Items}
      /\ loaded[s] \cap Items # {} => loaded[s] = Items
  BY <1>3, WholeMeet DEF IInv, SessionOK
<1>5. /\ DOMAIN gone' = Sessions /\ gone'[s] = loaded[s] \cap Items
      /\ \A q \in Sessions \ {s} : gone'[q] = gone[q]
  BY <1>1 DEF IInv, Shape
<1>6. Items' = Items
  BY <1>1 DEF Items
<1>7. ASSUME gone'[s] # {}, NEW q \in Sessions \ {s} PROVE gone[q] = {}
  <2>1. loaded[s] = Items
    BY <1>4, <1>5, <1>7
  <2>2. gone[q] # {} => gone[q] = Items
    BY DEF IInv, SessionOK
  <2> QED  BY <1>1, <2>1, <2>2
<1>8. put[s] # 0
  BY <1>1, <1>3 DEF SessionOK
<1>9. ~disturbed[s] => gone'[s] = Items
  BY <1>1, <1>2, <1>3, <1>5 DEF Alone
<1>10. gone'[s] # {} => gone'[s] = Items
  BY <1>4, <1>5
<1> QED  BY <1>1, <1>2, <1>5, <1>6, <1>7, <1>8, <1>9, <1>10, MoveKeeps

\* The plan row is updated.
LEMMA TouchStep ==
  ASSUME IInv, NEW s \in Sessions, TouchPlan(s)
  PROVE  IInv'
<1>1. /\ pc[s] = "touch" /\ pc' = [pc EXCEPT ![s] = "insert"]
      /\ UNCHANGED <<puts, plan, put, loaded, gone, disturbed>>
  BY DEF TouchPlan
<1>2. Busy(s) /\ {"created", "touch", "insert"} \subseteq Statements
  BY <1>1, Places
<1>3. SessionOK(s) /\ Alone(s)
  BY DEF IInv
<1>4. Items' = Items
  BY <1>1 DEF Items
<1>5. /\ DOMAIN gone' = Sessions /\ gone'[s] = gone[s]
      /\ \A q \in Sessions \ {s} : gone'[q] = gone[q]
      /\ gone'[s] \subseteq loaded[s]
  BY <1>1, <1>3 DEF IInv, Shape, SessionOK
<1>6. gone'[s] # {} => gone'[s] = Items /\ \A q \in Sessions \ {s} : gone[q] = {}
  BY <1>3, <1>4, <1>5 DEF IInv, SessionOK
<1>7. put[s] # 0
  BY <1>1, <1>3 DEF SessionOK
<1>8. ~disturbed[s] => gone'[s] = Items
  BY <1>1, <1>2, <1>3, <1>5 DEF Alone
<1> QED  BY <1>1, <1>2, <1>5, <1>4, <1>6, <1>7, <1>8, MoveKeeps

\* The items of a PUT are inserted where nothing clashes: into an empty plan, or they are
\* none and the plan stays.  Nobody else has deleted anything then that the plan loses.
LEMMA InsertFacts ==
  ASSUME IInv, NEW s \in Sessions, pc[s] \in {"created", "insert"}, Deleter(s) = {},
         Clashes(s) = {}
  PROVE  /\ put[s] \in DOMAIN puts /\ PayloadOf(s) = Rows(put[s])
         /\ Items \ gone[s] = {} \/ (gone[s] = {} /\ PayloadOf(s) = {} /\ puts[put[s]] = <<>>)
<1>1. SessionOK(s)
  BY DEF IInv
<1>2. put[s] \in DOMAIN puts /\ PayloadOf(s) = Rows(put[s])
  BY <1>1 DEF SessionOK, PayloadOf, IInv, Shape
<1>3. ASSUME Items \ gone[s] # {}
      PROVE  gone[s] = {} /\ PayloadOf(s) = {} /\ puts[put[s]] = <<>>
  <2>1. gone[s] = {}
    BY <1>1, <1>3 DEF SessionOK
  <2>2. PICK n \in DOMAIN puts : Items = Rows(n)
    BY <1>3, <2>1 DEF IInv, Whole
  <2>3. puts[n] # <<>>
    BY <1>3, <2>1, <2>2, RowsFacts DEF IInv
  <2>4. PICK old \in Items : old.sort_order = 0
    BY <2>2, <2>3, RowsFacts DEF IInv
  <2>5. \A new \in PayloadOf(s) : new.sort_order # old.sort_order
    BY <2>1, <2>4 DEF Clashes
  <2>6. puts[put[s]] = <<>>
    BY <1>2, <2>4, <2>5, RowsFacts DEF IInv
  <2>7. PayloadOf(s) = {}
    BY <1>2, <2>6, RowsFacts DEF IInv
  <2> QED  BY <2>1, <2>6, <2>7
<1> QED  BY <1>2, <1>3

\* The insert of a PUT, where it succeeds and where it fails.
LEMMA InsertStep ==
  ASSUME IInv, NEW s \in Sessions, InsertItems(s)
  PROVE  IInv'
<1>1. Busy(s)
  BY Places DEF InsertItems
<1>2. CASE Clashes(s) = {}
  <2>1. plan' = (Items \ gone[s]) \cup PayloadOf(s) /\ End(s, "done")
    BY <1>2 DEF InsertItems
  <2>2. /\ put[s] \in DOMAIN puts /\ PayloadOf(s) = Rows(put[s])
        /\ \/ Items \ gone[s] = {}
           \/ gone[s] = {} /\ PayloadOf(s) = {} /\ puts[put[s]] = <<>>
    BY <1>2, InsertFacts DEF InsertItems
  <2>3. CASE Items \ gone[s] = {}
    <3>1. plan' = Rows(put[s])
      BY <2>1, <2>2, <2>3
    <3>2. Whole(Items')
      BY <2>2, <3>1 DEF Whole, Items
    <3>3. ASSUME NEW q \in Sessions \ {s} PROVE gone[q] = {}
      <4>1. gone[q] # {} => gone[q] = Items
        BY DEF IInv, SessionOK
      <4>2. gone[q] # {} => gone[s] = {}
        BY DEF IInv
      <4> QED  BY <2>3, <4>1, <4>2
    <3> QED  BY <1>1, <2>1, <3>2, <3>3, EndKeeps DEF Ended
  <2>4. CASE gone[s] = {} /\ PayloadOf(s) = {}
    <3>1. plan' = Items
      BY <2>1, <2>4
    <3>2. Items' = Items
      BY <3>1 DEF Items
    <3>3. Whole(Items')
      BY <3>2 DEF IInv
    <3> QED  BY <1>1, <2>1, <3>2, <3>3, EndKeeps DEF Ended
  <2> QED  BY <2>2, <2>3, <2>4
<1>3. CASE Clashes(s) # {}
  <2>1. UNCHANGED plan /\ End(s, "failed")
    BY <1>3 DEF InsertItems
  <2>2. "failed" \in Ended
    BY DEF Ended
  <2> QED  BY <1>1, <2>1, <2>2, FailKeeps
<1> QED  BY <1>2, <1>3

\* One of two requests that wait for each other fails.
LEMMA BreakStep ==
  ASSUME IInv, NEW s \in Sessions, BreakDeadlock(s)
  PROVE  IInv'
<1>1. PICK q \in Deleter(s) : pc[q] = "touch" /\ \E v \in {s, q} : End(v, "failed")
  BY DEF BreakDeadlock
<1>2. PICK v \in {s, q} : End(v, "failed")
  BY <1>1
<1>3. q \in Sessions
  BY <1>1 DEF Deleter
<1>4. Busy(s) /\ Busy(q)
  BY <1>1, Places DEF BreakDeadlock
<1>5. v \in Sessions /\ Busy(v) /\ UNCHANGED plan /\ "failed" \in Ended
  BY <1>2, <1>3, <1>4 DEF BreakDeadlock, Ended
<1> QED  BY <1>2, <1>5, FailKeeps

\* Every step keeps the invariant.
LEMMA NextStep == IInv /\ [Next]_vars => IInv'
<1> SUFFICES ASSUME IInv, [Next]_vars PROVE IInv'
  OBVIOUS
<1>1. CASE Next
  <2>1. PICK s \in Sessions : GetPlan(s) \/ PutPlan(s) \/ Step(s) \/ Lose(s)
    BY <1>1 DEF Next
  <2>2. CASE Lose(s)
    <3>1. Busy(s) /\ End(s, "lost") /\ UNCHANGED plan /\ "lost" \in Ended
      BY <2>2 DEF Lose, Ended
    <3> QED  BY <3>1, FailKeeps
  <2> QED  BY <2>1, <2>2, BeginStep, CreateStep, DeleteStep, TouchStep, InsertStep, BreakStep
           DEF Step
<1>2. CASE UNCHANGED vars
  <2>1. Shape' /\ Whole(Items)'
    BY <1>2 DEF vars, IInv, Shape, Whole, Items, Rows
  <2>2. ASSUME NEW s \in Sessions PROVE SessionOK(s)' /\ Alone(s)'
    <3>1. SessionOK(s) /\ Alone(s)
      BY DEF IInv
    <3>2. Items' = Items /\ \A A : Whole(A) => Whole(A)'
      BY <1>2 DEF vars, Items, Rows, Whole
    <3>3. SessionOK(s)'
      BY <1>2, <3>1, <3>2 DEF vars, SessionOK, Busy
    <3>4. Alone(s)'
      BY <1>2, <3>1, <3>2 DEF vars, Alone, Busy
    <3> QED  BY <3>3, <3>4
  <2> QED  BY <1>2, <2>1, <2>2 DEF vars, IInv
<1> QED  BY <1>1, <1>2

LEMMA Invariant == Spec => []IInv
BY InitIInv, NextStep, PTL DEF Spec

-----------------------------------------------------------------------------
(* Theorems.                                                               *)

\* The state has its types: a session holds rows and serves a PUT only while it is busy, and
\* what it deleted it had loaded.
THEOREM TypeCorrect == Spec => []TypeOK
<1>1. ASSUME IInv PROVE TypeOK
  <2>1. Len(puts) <= MaxPuts /\ disturbed \in [Sessions -> BOOLEAN]
    BY <1>1 DEF IInv, Shape
  <2>2. plan = NoPlan \/ \A row \in plan : row.put \in DOMAIN puts
    <3>1. Items = {} \/ \E n \in DOMAIN puts : Items = Rows(n)
      BY <1>1 DEF IInv, Whole
    <3>2. \A row \in Items : row.put \in DOMAIN puts
      BY <1>1, <3>1, RowsFacts DEF IInv
    <3> QED  BY <3>2 DEF Items
  <2>3. \A s \in Sessions : SessionOK(s)
    BY <1>1 DEF IInv
  <2>4. pc \in [Sessions -> Ended \cup Statements] /\ put \in [Sessions -> 0 .. Len(puts)]
    BY <1>1, <2>3 DEF SessionOK, IInv, Shape
  <2>5. \A s \in Sessions :
          /\ gone[s] \subseteq loaded[s]
          /\ gone[s] # {} => pc[s] \in {"touch", "insert"}
          /\ ~Busy(s) => put[s] = 0 /\ loaded[s] = {} /\ ~disturbed[s]
    BY <2>3 DEF SessionOK
  <2> QED  BY <2>1, <2>2, <2>4, <2>5 DEF TypeOK
<1> QED  BY <1>1, Invariant, PTL

\* However requests overlap and fail, the stored plan is the list of exactly one PUT, or
\* empty (upsert_plan).
THEOREM PlansNeverMix == Spec => []PlanIsOnePut
<1>1. ASSUME IInv PROVE PlanIsOnePut
  BY <1>1 DEF IInv, Whole, Items, PlanIsOnePut
<1> QED  BY <1>1, Invariant, PTL

\* A request that nothing overlaps does not fail, and the plan is then what it sent.
LEMMA EffectStep ==
  ASSUME IInv, Next, NEW s \in Sessions, Busy(s)
  PROVE  /\ pc'[s] = "failed" => disturbed[s]
         /\ pc'[s] = "done" /\ put[s] # 0 =>
              \/ plan' = PayloadOf(s)
              \/ puts[put[s]] = <<>> /\ disturbed[s]
<1>1. PICK v \in Sessions : GetPlan(v) \/ PutPlan(v) \/ Step(v) \/ Lose(v)
  BY DEF Next
<1>2. pc[s] \notin {"done", "failed", "lost", "idle"} /\ s \in DOMAIN pc
  BY DEF Busy, Ended, IInv, Shape
<1>3. Alone(s)
  BY DEF IInv
<1>4. CASE GetPlan(v) \/ PutPlan(v)
  <2>1. ~Busy(v)
    BY <1>4 DEF GetPlan, PutPlan, Load
  <2>2. pc'[s] = pc[s]
    BY <1>4, <2>1, <1>2 DEF GetPlan, PutPlan
  <2> QED  BY <1>2, <2>2
<1>5. CASE CreatePlan(v)
  <2>1. CASE v # s
    BY <1>2, <1>5, <2>1 DEF CreatePlan, End
  <2>2. CASE v = s
    <3>1. pc[s] = "create"
      BY <1>5, <2>2 DEF CreatePlan
    <3>2. pc'[s] = "failed" => plan # NoPlan
      BY <1>2, <1>5, <2>2 DEF CreatePlan, End
    <3>3. pc'[s] = "done" => put[s] = 0
      BY <1>2, <1>5, <2>2 DEF CreatePlan, End
    <3> QED  BY <1>3, <3>1, <3>2, <3>3 DEF Alone
  <2> QED  BY <2>1, <2>2
<1>6. CASE DeleteItems(v) \/ TouchPlan(v)
  BY <1>2, <1>6 DEF DeleteItems, TouchPlan
<1>7. CASE InsertItems(v)
  <2>1. CASE v # s
    BY <1>2, <1>7, <2>1 DEF InsertItems, End
  <2>2. CASE v = s
    <3>1. pc[s] \in {"created", "insert"} /\ Deleter(s) = {}
      BY <1>7, <2>2 DEF InsertItems
    <3>2. ~disturbed[s] => Items \ gone[s] = {}
      BY <1>3, <3>1 DEF Alone, Items
    <3>3. CASE Clashes(s) = {}
      <4>1. plan' = (Items \ gone[s]) \cup PayloadOf(s) /\ pc'[s] = "done"
        BY <1>2, <1>7, <2>2, <3>3 DEF InsertItems, End
      <4>2. \/ Items \ gone[s] = {}
            \/ gone[s] = {} /\ PayloadOf(s) = {} /\ puts[put[s]] = <<>>
        BY <3>1, <3>3, InsertFacts
      <4>3. CASE Items \ gone[s] = {}
        BY <4>1, <4>3
      <4>4. CASE Items \ gone[s] # {}
        BY <3>2, <4>1, <4>2, <4>4
      <4> QED  BY <4>3, <4>4
    <3>4. CASE Clashes(s) # {}
      <4>1. pc'[s] = "failed"
        BY <1>2, <1>7, <2>2, <3>4 DEF InsertItems, End
      <4>2. disturbed[s]
        BY <3>2, <3>4 DEF Clashes
      <4> QED  BY <4>1, <4>2
    <3> QED  BY <3>3, <3>4
  <2> QED  BY <2>1, <2>2
<1>8. CASE BreakDeadlock(v)
  <2>1. PICK q \in Deleter(v) : pc[q] = "touch" /\ \E u \in {v, q} : End(u, "failed")
    BY <1>8 DEF BreakDeadlock
  <2>2. PICK u \in {v, q} : End(u, "failed")
    BY <2>1
  <2>3. q \in Sessions /\ q # v /\ Busy(v) /\ Busy(q)
    BY <1>8, <2>1, Places DEF BreakDeadlock, Deleter
  <2>4. CASE s = u
    BY <1>2, <1>3, <2>2, <2>3, <2>4 DEF Alone, End
  <2>5. CASE s # u
    BY <1>2, <2>2, <2>5 DEF End
  <2> QED  BY <2>4, <2>5
<1>9. CASE Lose(v)
  BY <1>2, <1>9 DEF Lose, End
<1> QED  BY <1>1, <1>4, <1>5, <1>6, <1>7, <1>8, <1>9 DEF Step

\* A request that nothing overlaps does not fail on a constraint, and a PUT that succeeds
\* leaves its items, unless they are none and another PUT overlapped (upsert_plan).
THEOREM AlonePutEffective == Spec => AlonePutTakesEffect
<1>1. ASSUME IInv, [Next]_vars
      PROVE  [\A s \in Sessions :
                /\ Busy(s) /\ pc'[s] = "failed" => disturbed[s]
                /\ Busy(s) /\ pc'[s] = "done" /\ put[s] # 0 =>
                     plan' = PayloadOf(s) \/ (puts[put[s]] = <<>> /\ disturbed[s])]_vars
  BY <1>1, EffectStep
<1> QED  BY <1>1, Invariant, PTL DEF Spec, AlonePutTakesEffect

-----------------------------------------------------------------------------
(* The rules as they are stored.                                           *)

\* A rule a client may send.
Shaped(rule) ==
  /\ DOMAIN rule = {"type", "sort_order", "enabled", "config"}
  /\ rule.type \in RuleTypes
  /\ \A key \in DOMAIN rule.config :
       /\ key \in Lists => /\ OrElse(rule.config[key], {}) \subseteq DOMAIN Canonical
                           /\ Words(rule.config[key]) # Missing
       /\ key \in Texts => rule.config[key] \in DOMAIN Canonical \cup {Missing}

\* The keys under which no words are stored.
LEMMA DefaultFacts ==
  ASSUME NEW type
  PROVE  /\ DOMAIN Defaults(type) \subseteq {"anchor", "direction_scope", "match_mode"}
         /\ \A key : Get(Defaults(type), key) \in {Missing, "entry", "all", "any"}
         /\ type \in {"indicator_condition", "candlestick_pattern"} =>
              Get(Defaults(type), "anchor") = "entry"
         /\ type \in {"indicator_condition", "candlestick_pattern", "stop_loss"} =>
              /\ "direction_scope" \in DOMAIN Defaults(type)
              /\ Get(Defaults(type), "direction_scope") = "all"
         /\ type = "candlestick_pattern" =>
              /\ "match_mode" \in DOMAIN Defaults(type)
              /\ Get(Defaults(type), "match_mode") = "any"
<1>1. CASE type = "indicator_condition"
  BY <1>1 DEF Defaults, Get
<1>2. CASE type = "candlestick_pattern"
  BY <1>2 DEF Defaults, Get
<1>3. CASE type = "stop_loss"
  BY <1>3 DEF Defaults, Get
<1>4. CASE type \notin {"indicator_condition", "candlestick_pattern", "stop_loss"}
  <2>1. Defaults(type) = << >>
    BY <1>4 DEF Defaults
  <2>2. DOMAIN Defaults(type) = {}
    BY <2>1
  <2> QED  BY <1>4, <2>2 DEF Get
<1> QED  BY <1>1, <1>2, <1>3, <1>4

\* Normalising leaves everything but the configuration.
LEMMA NormalShape ==
  ASSUME NEW rule, Shaped(rule), NEW stored, stored = Normalised(rule)
  PROVE  /\ DOMAIN stored = DOMAIN rule /\ stored.type = rule.type
         /\ stored = [key \in DOMAIN stored |-> stored[key]]
         /\ stored.config = [key \in DOMAIN stored.config |-> stored.config[key]]
BY DEF Normalised, Shaped

LEMMA NormalDomain ==
  ASSUME NEW rule, Shaped(rule), NEW stored, stored = Normalised(rule)
  PROVE  DOMAIN stored.config = DOMAIN rule.config \cup DOMAIN Defaults(rule.type)
BY DEF Normalised, Shaped

LEMMA NormalConfig ==
  ASSUME NEW rule, Shaped(rule), NEW stored, stored = Normalised(rule),
         NEW key \in DOMAIN stored.config
  PROVE  /\ key \in Lists => stored.config[key] = Words(rule.config[key])
         /\ key \in Texts \ Lists =>
              stored.config[key] = Word(rule.config, key, Get(Defaults(rule.type), key))
         /\ key \notin Lists \cup Texts => stored.config[key] = rule.config[key]
<1>1. PICK default, keys :
        /\ default = Defaults(rule.type)
        /\ keys = DOMAIN rule.config \cup DOMAIN default
  OBVIOUS
<1>2. key \in keys
  BY <1>1, NormalDomain
<1>3. stored.config =
        [k \in keys |-> CASE k \in Lists -> Words(rule.config[k])
                          [] k \in Texts -> Word(rule.config, k, Get(default, k))
                          [] OTHER -> rule.config[k]]
  BY <1>1 DEF Normalised, Shaped
<1>4. stored.config[key] = CASE key \in Lists -> Words(rule.config[key])
                             [] key \in Texts -> Word(rule.config, key, Get(default, key))
                             [] OTHER -> rule.config[key]
  BY <1>2, <1>3
<1>5. key \in Lists => key \notin Texts
  BY DEF Lists, Texts
<1> QED  BY <1>1, <1>4, <1>5

LEMMA WordsTwice ==
  ASSUME NEW value, OrElse(value, {}) \subseteq DOMAIN Canonical, Words(value) # Missing
  PROVE  Words(Words(value)) = Words(value)
<1>1. PICK given : given = OrElse(value, {})
  OBVIOUS
<1>2. PICK words : words = Words(value)
  OBVIOUS
<1>3. words = {Canonical[w] : w \in given} \ {""} /\ given \subseteq DOMAIN Canonical
  BY <1>1, <1>2 DEF Words
<1>4. \A w \in words : w \in DOMAIN Canonical /\ Canonical[w] = w /\ w # ""
  BY <1>3, WordsAssumption, MissingAssumption
<1>5. words # Missing
  BY <1>2
<1>6. Words(words) = {Canonical[w] : w \in words} \ {""}
  BY <1>5 DEF Words, OrElse
<1>7. Words(words) = words
  BY <1>4, <1>6
<1> QED  BY <1>2, <1>7

LEMMA WordsKept ==
  ASSUME NEW rule, Shaped(rule), NEW stored, stored = Normalised(rule), NEW key \in Lists
  PROVE  Words(Get(stored.config, key)) = Words(Get(rule.config, key))
<1>1. key \notin DOMAIN Defaults(rule.type)
  BY DefaultFacts DEF Lists
<1>2. key \in DOMAIN stored.config <=> key \in DOMAIN rule.config
  BY <1>1, NormalDomain
<1>3. CASE key \in DOMAIN rule.config
  <2>1. PICK value : value = rule.config[key]
    OBVIOUS
  <2>2. OrElse(value, {}) \subseteq DOMAIN Canonical /\ Words(value) # Missing
    BY <1>3, <2>1 DEF Shaped
  <2>3. stored.config[key] = Words(value)
    BY <1>2, <1>3, <2>1, NormalConfig
  <2>4. Words(Words(value)) = Words(value)
    BY <2>2, WordsTwice
  <2> QED  BY <1>2, <1>3, <2>1, <2>3, <2>4 DEF Get
<1>4. CASE key \notin DOMAIN rule.config
  BY <1>2, <1>4 DEF Get
<1> QED  BY <1>3, <1>4

LEMMA WordKept ==
  ASSUME NEW rule, Shaped(rule), NEW stored, stored = Normalised(rule), NEW key \in Texts,
         NEW default, default = Get(Defaults(rule.type), key)
  PROVE  Word(stored.config, key, default) = Word(rule.config, key, default)
<1>1. default \in {Missing, "entry", "all", "any"}
  BY DefaultFacts
<1>2. CASE key \notin DOMAIN stored.config
  <2>1. key \notin DOMAIN rule.config
    BY <1>2, NormalDomain
  <2> QED  BY <1>2, <2>1 DEF Word, Get
<1>3. CASE key \in DOMAIN stored.config
  <2>1. PICK x : x = Word(rule.config, key, default)
    OBVIOUS
  <2>2. key \notin Lists
    BY DEF Lists, Texts
  <2>3. stored.config[key] = x
    BY <1>3, <2>1, <2>2, NormalConfig
  <2>4. x = default \/ (x \in DOMAIN Canonical /\ Canonical[x] = x /\ x # "")
    <3>1. Get(rule.config, key) \in DOMAIN Canonical \cup {Missing}
      BY DEF Get, Shaped
    <3>2. PICK w : w = Get(rule.config, key)
      OBVIOUS
    <3>3. x = IF w = Missing \/ Canonical[w] = "" THEN default ELSE Canonical[w]
      BY <2>1, <3>2 DEF Word
    <3> QED  BY <3>1, <3>2, <3>3, WordsAssumption, MissingAssumption
  <2>5. Word(stored.config, key, default)
          = IF x = Missing \/ Canonical[x] = "" THEN default ELSE Canonical[x]
    BY <1>3, <2>3 DEF Word, Get
  <2>6. CASE x = default
    BY <1>1, <2>1, <2>5, <2>6, WordsAssumption, MissingAssumption
  <2>7. CASE x \in DOMAIN Canonical /\ Canonical[x] = x /\ x # ""
    BY <2>1, <2>5, <2>7, WordsAssumption, MissingAssumption
  <2> QED  BY <2>4, <2>6, <2>7
<1> QED  BY <1>2, <1>3

LEMMA OtherKept ==
  ASSUME NEW rule, Shaped(rule), NEW stored, stored = Normalised(rule),
         NEW key, key \notin Lists \cup Texts
  PROVE  /\ key \in DOMAIN stored.config <=> key \in DOMAIN rule.config
         /\ Get(stored.config, key) = Get(rule.config, key)
         /\ key \in DOMAIN rule.config => stored.config[key] = rule.config[key]
<1>1. key \notin DOMAIN Defaults(rule.type)
  BY DefaultFacts DEF Texts
<1>2. key \in DOMAIN stored.config <=> key \in DOMAIN rule.config
  BY <1>1, NormalDomain
<1>3. key \in DOMAIN rule.config => stored.config[key] = rule.config[key]
  BY <1>2, NormalConfig
<1> QED  BY <1>2, <1>3 DEF Get

\* The two texts that have defaults in conditions and patterns, and the texts that have none.
LEMMA AnchorKept ==
  ASSUME NEW rule, Shaped(rule), NEW stored, stored = Normalised(rule),
         rule.type \in {"indicator_condition", "candlestick_pattern"}
  PROVE  Word(stored.config, "anchor", "entry") = Word(rule.config, "anchor", "entry")
<1>1. Get(Defaults(rule.type), "anchor") = "entry" /\ "anchor" \in Texts
  BY DefaultFacts DEF Texts
<1> QED  BY <1>1, WordKept

LEMMA ScopeKept ==
  ASSUME NEW rule, Shaped(rule), NEW stored, stored = Normalised(rule),
         rule.type \in {"indicator_condition", "candlestick_pattern", "stop_loss"}
  PROVE  Word(stored.config, "direction_scope", "all") = Word(rule.config, "direction_scope", "all")
<1>1. Get(Defaults(rule.type), "direction_scope") = "all" /\ "direction_scope" \in Texts
  BY DefaultFacts DEF Texts
<1> QED  BY <1>1, WordKept

LEMMA ModeKept ==
  ASSUME NEW rule, Shaped(rule), NEW stored, stored = Normalised(rule),
         rule.type = "candlestick_pattern"
  PROVE  Word(stored.config, "match_mode", "any") = Word(rule.config, "match_mode", "any")
<1>1. Get(Defaults(rule.type), "match_mode") = "any" /\ "match_mode" \in Texts
  BY DefaultFacts DEF Texts
<1> QED  BY <1>1, WordKept

LEMMA RequiredKept ==
  ASSUME NEW rule, Shaped(rule), NEW stored, stored = Normalised(rule),
         NEW key \in {"timeframe", "indicator", "operator"}
  PROVE  Word(stored.config, key, Missing) = Word(rule.config, key, Missing)
<1>1. key \notin DOMAIN Defaults(rule.type) /\ key \in Texts
  BY DefaultFacts DEF Texts
<1>2. Get(Defaults(rule.type), key) = Missing
  BY <1>1 DEF Get
<1> QED  BY <1>1, <1>2, WordKept

LEMMA ConditionKept ==
  ASSUME NEW rule, Shaped(rule), NEW stored, stored = Normalised(rule), ConditionOK(rule.config)
  PROVE  ConditionOK(stored.config)
<1>1. /\ Word(stored.config, "indicator", Missing) = Word(rule.config, "indicator", Missing)
      /\ Word(stored.config, "operator", Missing) = Word(rule.config, "operator", Missing)
  BY RequiredKept
<1>2. "value" \notin Lists \cup Texts /\ "word" \notin Lists \cup Texts /\ "words" \notin Lists \cup Texts
  BY DEF Lists, Texts
<1>3. Get(stored.config, "value") = Get(rule.config, "value")
  BY <1>2, OtherKept
<1>4. DOMAIN stored.config \cap {"value", "word", "words"}
        = DOMAIN rule.config \cap {"value", "word", "words"}
  BY <1>2, OtherKept
<1> QED  BY <1>1, <1>3, <1>4 DEF ConditionOK

\* A rule that was accepted is accepted again as it is stored.
LEMMA ValidKept ==
  ASSUME NEW rule, Shaped(rule), NEW stored, stored = Normalised(rule), Valid(rule)
  PROVE  Valid(stored)
<1>1. stored.type = rule.type
  BY NormalShape
<1>2. \A key \in {"timeframes", "patterns"} :
        Words(Get(stored.config, key)) = Words(Get(rule.config, key))
  BY WordsKept DEF Lists
<1>3. "limit" \notin Lists \cup Texts /\ "max_distance_percent" \notin Lists \cup Texts
  BY DEF Lists, Texts
<1>4. /\ Get(stored.config, "limit") = Get(rule.config, "limit")
      /\ Get(stored.config, "max_distance_percent") = Get(rule.config, "max_distance_percent")
  BY <1>3, OtherKept
<1>5. rule.type = "max_trades_per_day" =>
        /\ IsLimit(Get(stored.config, "limit"))
        /\ Get(stored.config, "limit") # Missing => stored.config.limit % 2 = 0
  <2>1. SUFFICES ASSUME rule.type = "max_trades_per_day"
                 PROVE  Get(stored.config, "limit") # Missing => stored.config.limit % 2 = 0
    BY <1>4 DEF Valid
  <2>2. Get(rule.config, "limit") # Missing => rule.config.limit % 2 = 0
    BY <2>1 DEF Valid
  <2>3. "limit" \in DOMAIN rule.config => stored.config.limit = rule.config.limit
    BY <1>3, OtherKept
  <2>4. Get(rule.config, "limit") # Missing => "limit" \in DOMAIN rule.config
    BY DEF Get
  <2> QED  BY <1>4, <2>2, <2>3, <2>4
<1>6. rule.type = "required_timeframes" => Words(Get(stored.config, "timeframes")) \subseteq Timeframes
  BY <1>2 DEF Valid
<1>7. rule.type \in LimitTypes => IsLimit(Get(stored.config, "limit"))
  BY <1>4 DEF Valid
<1>8. rule.type \in {"indicator_condition", "candlestick_pattern"} =>
        /\ Word(stored.config, "timeframe", Missing) \in Timeframes
        /\ Word(stored.config, "anchor", "entry") \in {"entry", "exit"}
  BY AnchorKept, RequiredKept DEF Valid
<1>9. rule.type \in {"indicator_condition", "candlestick_pattern", "stop_loss"} =>
        Word(stored.config, "direction_scope", "all") \in {"all", "long", "short"}
  BY ScopeKept DEF Valid
<1>10. rule.type = "indicator_condition" => ConditionOK(stored.config)
  BY ConditionKept DEF Valid
<1>11. rule.type = "candlestick_pattern" =>
         /\ Words(Get(stored.config, "patterns")) # {}
         /\ Words(Get(stored.config, "patterns")) \subseteq Patterns
         /\ Word(stored.config, "match_mode", "any") \in {"any", "all"}
  BY <1>2, ModeKept DEF Valid
<1>12. rule.type = "stop_loss" => IsLimit(Get(stored.config, "max_distance_percent"))
  BY <1>4 DEF Valid
<1> QED  BY <1>1, <1>5, <1>6, <1>7, <1>8, <1>9, <1>10, <1>11, <1>12 DEF Valid

\* A record that is given the field it has.
LEMMA SameField ==
  ASSUME NEW r, r = [k \in DOMAIN r |-> r[k]], NEW config, config = r.config
  PROVE  [r EXCEPT !.config = config] = r
OBVIOUS

\* A stored rule is left as it is.
LEMMA NormalTwice ==
  ASSUME NEW rule, Shaped(rule), NEW stored, stored = Normalised(rule)
  PROVE  Normalised(stored) = stored
<1>1. PICK default : default = Defaults(rule.type)
  OBVIOUS
<1>2. stored.type = rule.type /\ DOMAIN default \subseteq DOMAIN stored.config
  <2>1. stored.type = rule.type
    BY NormalShape
  <2>2. DOMAIN stored.config = DOMAIN rule.config \cup DOMAIN default
    BY <1>1, NormalDomain
  <2> QED  BY <2>1, <2>2
<1>3. PICK config :
        config = [k \in DOMAIN stored.config \cup DOMAIN default |->
                    CASE k \in Lists -> Words(stored.config[k])
                      [] k \in Texts -> Word(stored.config, k, Get(default, k))
                      [] OTHER -> stored.config[k]]
  OBVIOUS
<1>4. Normalised(stored) = [stored EXCEPT !.config = config]
  BY <1>1, <1>2, <1>3 DEF Normalised
<1>5. DOMAIN config = DOMAIN stored.config /\ config = [k \in DOMAIN config |-> config[k]]
  BY <1>2, <1>3
<1>6. ASSUME NEW key \in DOMAIN stored.config PROVE config[key] = stored.config[key]
  <2>1. config[key] = CASE key \in Lists -> Words(stored.config[key])
                        [] key \in Texts -> Word(stored.config, key, Get(default, key))
                        [] OTHER -> stored.config[key]
    BY <1>3
  <2>2. CASE key \in Lists
    <3>1. key \notin DOMAIN default
      BY <1>1, <2>2, DefaultFacts DEF Lists
    <3>2. key \in DOMAIN rule.config
      BY <1>1, <3>1, NormalDomain
    <3>3. PICK value : value = rule.config[key]
      OBVIOUS
    <3>4. OrElse(value, {}) \subseteq DOMAIN Canonical /\ Words(value) # Missing
      BY <2>2, <3>2, <3>3 DEF Shaped
    <3>5. stored.config[key] = Words(value)
      BY <2>2, <3>3, NormalConfig
    <3>6. config[key] = Words(stored.config[key])
      <4>1. key \notin Texts
        BY <2>2 DEF Lists, Texts
      <4> QED  BY <2>1, <2>2, <4>1
    <3> QED  BY <3>4, <3>5, <3>6, WordsTwice
  <2>3. CASE key \in Texts
    <3>1. key \notin Lists
      BY <2>3 DEF Lists, Texts
    <3>2. config[key] = Word(stored.config, key, Get(default, key))
      BY <2>1, <2>3, <3>1
    <3>3. stored.config[key] = Word(rule.config, key, Get(default, key))
      BY <1>1, <2>3, <3>1, NormalConfig
    <3> QED  BY <1>1, <2>3, <3>2, <3>3, WordKept
  <2>4. CASE key \notin Lists \cup Texts
    BY <2>1, <2>4
  <2> QED  BY <2>2, <2>3, <2>4
<1>7. config = stored.config
  <2>1. stored.config = [k \in DOMAIN stored.config |-> stored.config[k]]
    BY NormalShape
  <2> QED  BY <1>5, <1>6, <2>1
<1>8. stored = [k \in DOMAIN stored |-> stored[k]]
  BY NormalShape
<1> QED  BY <1>4, <1>7, <1>8, SameField

\* What is stored are rules that clients sent, normalised.
LEMMA StoredRule ==
  ASSUME IInv, NEW row \in Items
  PROVE  \E rule : Shaped(rule) /\ Valid(rule) /\ row.rule = Normalised(rule)
<1>1. PICK n \in DOMAIN puts : Items = Rows(n)
  BY DEF IInv, Whole
<1>2. PICK i \in DOMAIN puts[n] : row.rule = puts[n][i]
  BY <1>1 DEF Rows
<1>3. puts[n] \in Sent
  BY DEF IInv, Shape
<1>4. PICK payload \in Accepted : puts[n] = [k \in DOMAIN payload |-> Normalised(payload[k])]
  BY <1>3 DEF Sent
<1>5. i \in DOMAIN payload /\ row.rule = Normalised(payload[i])
  BY <1>2, <1>4
<1>6. Valid(payload[i]) /\ payload \in Payloads
  BY <1>5 DEF Accepted
<1>7. Shaped(payload[i])
  BY <1>5, <1>6, PayloadsAssumption DEF Shaped
<1> QED  BY <1>5, <1>6, <1>7

\* Every stored rule passes the validators again, which leave it as it is: the plan can always
\* be read (TradingPlanItemRead, TradingPlanItemBase.validate_config).
THEOREM RulesReadable == Spec => []ReadableAsStored
<1>1. IInv => ReadableAsStored
  BY StoredRule, ValidKept, NormalTwice DEF ReadableAsStored
<1> QED  BY <1>1, Invariant, PTL

-----------------------------------------------------------------------------
(* Verdicts.                                                               *)

\* What a rule of each type says.
LEMMA StatusCases ==
  ASSUME NEW rule, NEW context
  PROVE  /\ rule.type = "manual_check" => Status(rule, context) = "manual"
         /\ rule.type = "allowed_symbols" => Status(rule, context) =
              IF Words(Get(rule.config, "symbols")) = {} THEN "unknown"
              ELSE Decided(context.position.symbol \in Words(rule.config.symbols))
         /\ rule.type = "required_timeframes" => Status(rule, context) =
              IF Words(Get(rule.config, "timeframes")) = {} THEN "unknown"
              ELSE Decided(Words(rule.config.timeframes)
                             \subseteq {key[1] : key \in DOMAIN context.snapshots})
         /\ rule.type = "max_trades_per_day" => Status(rule, context) =
              LimitStatus(2 * SameDayCount(context), Get(rule.config, "limit"))
         /\ rule.type = "max_leverage" => Status(rule, context) =
              LimitStatus(context.position.leverage, Get(rule.config, "limit"))
         /\ rule.type \in {"max_risk_per_trade", "min_risk_reward"} => Status(rule, context) = "unknown"
         /\ rule.type = "indicator_condition" =>
              Status(rule, context) = ConditionStatus(rule.config, context)
         /\ rule.type = "candlestick_pattern" =>
              Status(rule, context) = PatternStatus(rule.config, context)
         /\ rule.type = "stop_loss" =>
              Status(rule, context) = StopLossStatus(rule.config, context)
BY DEF Status

LEMMA FewerSnapshots ==
  ASSUME NEW context \in Contexts, NEW known \in SUBSET DOMAIN context.snapshots,
         NEW fewer, fewer = Knowing(context, known)
  PROVE  /\ fewer.position = context.position /\ fewer.positions = context.positions
         /\ fewer.stop = context.stop
         /\ DOMAIN fewer.snapshots = known
         /\ \A k \in known : fewer.snapshots[k] = context.snapshots[k]
BY ContextsAssumption DEF Knowing

\* A verdict that needs a snapshot does not change when others are there.
LEMMA SnapshotVerdicts ==
  ASSUME NEW config, NEW context, NEW fewer, fewer.position = context.position,
         \A k \in DOMAIN fewer.snapshots :
           k \in DOMAIN context.snapshots /\ fewer.snapshots[k] = context.snapshots[k]
  PROVE  /\ ConditionStatus(config, fewer) \in {"unknown", ConditionStatus(config, context)}
         /\ PatternStatus(config, fewer) \in {"unknown", PatternStatus(config, context)}
<1>1. Applies(config, fewer) = Applies(config, context)
  BY DEF Applies
<1>2. PICK key : key = SnapshotKey(config)
  OBVIOUS
<1>3. CASE ~ Applies(config, context)
  BY <1>1, <1>3 DEF ConditionStatus, PatternStatus
<1>4. CASE ~ HasSnapshot(config, fewer)
  BY <1>1, <1>4 DEF ConditionStatus, PatternStatus
<1>5. CASE Applies(config, context) /\ HasSnapshot(config, fewer)
  <2>1. HasSnapshot(config, context) /\ fewer.snapshots[key] = context.snapshots[key]
    BY <1>2, <1>5 DEF HasSnapshot
  <2>2. ConditionStatus(config, fewer) = ConditionStatus(config, context)
    BY <1>1, <1>2, <1>5, <2>1 DEF ConditionStatus
  <2>3. PatternStatus(config, fewer) = PatternStatus(config, context)
    BY <1>1, <1>2, <1>5, <2>1 DEF PatternStatus
  <2> QED  BY <2>2, <2>3
<1> QED  BY <1>3, <1>4, <1>5

LEMMA FewerKnown ==
  ASSUME NEW rule, rule.type \in RuleTypes, NEW context, NEW fewer,
         fewer.position = context.position, fewer.positions = context.positions,
         fewer.stop = context.stop,
         \A k \in DOMAIN fewer.snapshots :
           k \in DOMAIN context.snapshots /\ fewer.snapshots[k] = context.snapshots[k]
  PROVE  \/ Status(rule, fewer) \in {"unknown", Status(rule, context)}
         \/ /\ rule.type = "required_timeframes"
            /\ Status(rule, fewer) = "failed" /\ Status(rule, context) = "passed"
<1>1. CASE rule.type \in {"manual_check", "max_risk_per_trade", "min_risk_reward"}
  BY <1>1, StatusCases
<1>2. CASE rule.type \in {"allowed_symbols", "max_leverage"}
  BY <1>2, StatusCases
<1>3. CASE rule.type = "max_trades_per_day"
  <2>1. SameDayCount(fewer) = SameDayCount(context)
    BY DEF SameDayCount
  <2> QED  BY <1>3, <2>1, StatusCases
<1>4. CASE rule.type = "required_timeframes"
  <2>1. PICK words, some, more :
          /\ words = Words(rule.config.timeframes)
          /\ some = {key[1] : key \in DOMAIN fewer.snapshots}
          /\ more = {key[1] : key \in DOMAIN context.snapshots}
    OBVIOUS
  <2>2. some \subseteq more
    BY <2>1
  <2>3. Words(Get(rule.config, "timeframes")) # {} =>
          /\ Status(rule, fewer) = Decided(words \subseteq some)
          /\ Status(rule, context) = Decided(words \subseteq more)
    BY <1>4, <2>1, StatusCases
  <2>4. Words(Get(rule.config, "timeframes")) = {} => Status(rule, fewer) = "unknown"
    BY <1>4, StatusCases
  <2> QED  BY <1>4, <2>2, <2>3, <2>4 DEF Decided
<1>5. CASE rule.type \in {"indicator_condition", "candlestick_pattern"}
  BY <1>5, StatusCases, SnapshotVerdicts
<1>6. CASE rule.type = "stop_loss"
  <2>1. StopLossStatus(rule.config, fewer) = StopLossStatus(rule.config, context)
    BY DEF StopLossStatus, Applies
  <2> QED  BY <1>6, <2>1, StatusCases
<1> QED  BY <1>1, <1>2, <1>3, <1>4, <1>5, <1>6 DEF RuleTypes

\* More snapshots settle what was unknown and reverse no verdict, but for a time frame that
\* was required and turns up (_evaluate_item and the rules it calls).
THEOREM VerdictsStay == Spec => []DecidedStays
<1>1. ASSUME IInv, NEW rule \in ActiveRules, NEW context \in Contexts,
             NEW known \in SUBSET DOMAIN context.snapshots,
             NEW fewer, fewer = Knowing(context, known)
      PROVE  \/ Status(rule, fewer) \in {"unknown", Status(rule, context)}
             \/ /\ rule.type = "required_timeframes"
                /\ Status(rule, fewer) = "failed" /\ Status(rule, context) = "passed"
  <2>2. PICK row \in Items : row.rule = rule
    BY DEF ActiveRules
  <2>3. rule.type \in RuleTypes
    <3>1. PICK sent : Shaped(sent) /\ Valid(sent) /\ rule = Normalised(sent)
      BY <1>1, <2>2, StoredRule
    <3>2. rule.type = sent.type
      BY <3>1, NormalShape
    <3> QED  BY <3>1, <3>2 DEF Shaped
  <2>4. /\ fewer.position = context.position /\ fewer.positions = context.positions
        /\ fewer.stop = context.stop
        /\ DOMAIN fewer.snapshots = known
        /\ \A k \in known : fewer.snapshots[k] = context.snapshots[k]
    BY <1>1, FewerSnapshots
  <2> QED  BY <2>3, <2>4, FewerKnown
<1>2. IInv => DecidedStays
  BY <1>1 DEF DecidedStays
<1> QED  BY <1>2, Invariant, PTL

-----------------------------------------------------------------------------
(* The other direction.                                                    *)

LEMMA MirrorFacts ==
  ASSUME NEW context \in Contexts, NEW mirror, mirror = Mirror(context)
  PROVE  /\ mirror.position.direction = Turned(context.position.direction)
         /\ \A field \in {"symbol", "leverage", "entry", "day"} :
              mirror.position[field] = context.position[field]
         /\ mirror.snapshots = context.snapshots /\ mirror.positions = context.positions
         /\ mirror.stop = IF Missing \in {context.position.entry, context.stop} THEN context.stop
                          ELSE 2 * context.position.entry - context.stop
<1>1. /\ DOMAIN context = {"position", "snapshots", "positions", "stop"}
      /\ DOMAIN context.position = {"symbol", "direction", "leverage", "entry", "day"}
  BY ContextsAssumption
<1>2. PICK stop : stop = IF Missing \in {context.position.entry, context.stop} THEN context.stop
                         ELSE 2 * context.position.entry - context.stop
  OBVIOUS
<1>3. mirror = [context EXCEPT !.position.direction = Turned(@), !.stop = stop]
  BY <1>2 DEF Mirror
<1> QED  BY <1>1, <1>2, <1>3

\* Configurations that differ in their scope alone.
Alike(turned, config) ==
  /\ DOMAIN turned = DOMAIN config
  /\ \A key \in DOMAIN config \ {"direction_scope"} : turned[key] = config[key]

LEMMA TurnedFacts ==
  ASSUME NEW rule, Shaped(rule), NEW stored, stored = Normalised(rule),
         NEW turned, turned = TurnedRule(stored)
  PROVE  /\ turned.type = stored.type /\ Alike(turned.config, stored.config)
         /\ "direction_scope" \in DOMAIN stored.config =>
              turned.config["direction_scope"] = Turned(stored.config["direction_scope"])
<1>1. "config" \in DOMAIN stored /\ "type" \in DOMAIN stored
  BY NormalShape DEF Shaped
<1> QED  BY <1>1 DEF TurnedRule, Alike

LEMMA ScopeWord ==
  ASSUME NEW config, "direction_scope" \in DOMAIN config,
         NEW scope \in {"all", "long", "short"}, config["direction_scope"] = scope
  PROVE  Word(config, "direction_scope", "all") = scope
<1>1. scope # Missing /\ Canonical[scope] = scope /\ scope # ""
  BY WordsAssumption, MissingAssumption
<1>2. Get(config, "direction_scope") = scope
  BY DEF Get
<1> QED  BY <1>1, <1>2 DEF Word

\* A scope is turned with the direction.
LEMMA AppliesTurned ==
  ASSUME NEW rule, Shaped(rule), Valid(rule), NEW stored, stored = Normalised(rule),
         rule.type \in {"indicator_condition", "candlestick_pattern", "stop_loss"},
         NEW context \in Contexts
  PROVE  Applies(TurnedRule(stored).config, Mirror(context)) = Applies(stored.config, context)
<1>1. PICK turned, mirror, scope, direction :
        /\ turned = TurnedRule(stored).config /\ mirror = Mirror(context)
        /\ scope = Word(rule.config, "direction_scope", "all")
        /\ direction = context.position.direction
  OBVIOUS
<1>2. "direction_scope" \in DOMAIN stored.config
  BY DefaultFacts, NormalDomain
<1>3. stored.config["direction_scope"] = scope
  <2>1. "direction_scope" \in Texts \ Lists
    BY DEF Texts, Lists
  <2>2. stored.config["direction_scope"]
          = Word(rule.config, "direction_scope", Get(Defaults(rule.type), "direction_scope"))
    BY <1>2, <2>1, NormalConfig
  <2>3. Get(Defaults(rule.type), "direction_scope") = "all"
    BY DefaultFacts
  <2> QED  BY <1>1, <2>2, <2>3
<1>4. scope \in {"all", "long", "short"} /\ Turned(scope) \in {"all", "long", "short"}
  BY <1>1 DEF Valid, Turned
<1>5. direction \in {"long", "short"} /\ mirror.position.direction = Turned(direction)
  <2>1. direction \in {"long", "short"}
    BY <1>1, ContextsAssumption
  <2>2. mirror.position.direction = Turned(direction)
    BY <1>1, MirrorFacts
  <2> QED  BY <2>1, <2>2
<1>6. "direction_scope" \in DOMAIN turned /\ turned["direction_scope"] = Turned(scope)
  <2>1. /\ Alike(turned, stored.config)
        /\ turned["direction_scope"] = Turned(stored.config["direction_scope"])
    BY <1>1, <1>2, TurnedFacts
  <2> QED  BY <1>2, <1>3, <2>1 DEF Alike
<1>7. /\ Word(stored.config, "direction_scope", "all") = scope
      /\ Word(turned, "direction_scope", "all") = Turned(scope)
  BY <1>2, <1>3, <1>4, <1>6, ScopeWord
<1> QED  BY <1>1, <1>4, <1>5, <1>7 DEF Applies, Turned

\* What does not depend on the scope.
LEMMA GetAlike ==
  ASSUME NEW turned, NEW config, Alike(turned, config), NEW key, key # "direction_scope"
  PROVE  Get(turned, key) = Get(config, key)
BY DEF Alike, Get

LEMMA WordAlike ==
  ASSUME NEW turned, NEW config, Alike(turned, config), NEW key, key # "direction_scope", NEW default
  PROVE  Word(turned, key, default) = Word(config, key, default)
BY GetAlike DEF Word

LEMMA ConditionAlike ==
  ASSUME NEW turned, NEW config, Alike(turned, config), ConditionOK(config),
         Word(config, "timeframe", Missing) \in Timeframes,
         Word(config, "indicator", Missing) = config.indicator,
         NEW mirror, NEW context, mirror.snapshots = context.snapshots,
         Applies(turned, mirror) = Applies(config, context)
  PROVE  ConditionStatus(turned, mirror) = ConditionStatus(config, context)
<1>1. {"timeframe", "indicator", "operator"} \subseteq DOMAIN config
  <2>1. \A key : key \notin DOMAIN config => Word(config, key, Missing) = Missing
    BY DEF Word, Get
  <2>2. Word(config, "timeframe", Missing) # Missing
    BY WordsAssumption, MissingAssumption
  <2>3. Word(config, "indicator", Missing) \in Indicators
    BY DEF ConditionOK, Indicators
  <2>4. Word(config, "operator", Missing) \in Orderings \cup Equalities \cup Memberships
    BY DEF ConditionOK
  <2>5. Word(config, "indicator", Missing) # Missing /\ Word(config, "operator", Missing) # Missing
    BY <2>3, <2>4, MissingAssumption
  <2> QED  BY <2>1, <2>2, <2>5
<1>2. /\ turned.timeframe = config.timeframe /\ turned.indicator = config.indicator
      /\ turned.operator = config.operator
  BY <1>1 DEF Alike
<1>3. SnapshotKey(turned) = SnapshotKey(config)
  BY <1>2, WordAlike DEF SnapshotKey
<1>4. config.indicator \in NumericIndicators => turned.value = config.value
  <2>1. SUFFICES ASSUME config.indicator \in NumericIndicators
                 PROVE  turned.value = config.value
    OBVIOUS
  <2>2. Get(config, "value") \in Int
    BY <2>1 DEF ConditionOK
  <2>3. "value" \in DOMAIN config
    BY <2>2, MissingAssumption DEF Get
  <2> QED  BY <2>3 DEF Alike
<1>5. \A observed : CompareText(observed, config.operator, turned)
                      = CompareText(observed, config.operator, config)
  <2>1. Get(turned, "words") = Get(config, "words") /\ Get(turned, "word") = Get(config, "word")
    BY GetAlike
  <2>2. /\ "word" \in DOMAIN turned <=> "word" \in DOMAIN config
        /\ "word" \in DOMAIN config => turned.word = config.word
    BY DEF Alike
  <2> QED  BY <2>1, <2>2 DEF CompareText
<1>6. HasSnapshot(turned, mirror) = HasSnapshot(config, context)
  BY <1>3 DEF HasSnapshot
<1> QED  BY <1>2, <1>3, <1>4, <1>5, <1>6 DEF ConditionStatus

LEMMA PatternAlike ==
  ASSUME NEW turned, NEW config, Alike(turned, config), Words(Get(config, "patterns")) # {},
         Word(config, "timeframe", Missing) \in Timeframes, "match_mode" \in DOMAIN config,
         NEW mirror, NEW context, mirror.snapshots = context.snapshots,
         Applies(turned, mirror) = Applies(config, context)
  PROVE  PatternStatus(turned, mirror) = PatternStatus(config, context)
<1>1. "patterns" \in DOMAIN config
  <2>1. "patterns" \notin DOMAIN config => Words(Get(config, "patterns")) = {}
    BY DEF Get, Words, OrElse
  <2> QED  BY <2>1
<1>2. "timeframe" \in DOMAIN config
  <2>1. "timeframe" \notin DOMAIN config => Word(config, "timeframe", Missing) = Missing
    BY DEF Word, Get
  <2> QED  BY <2>1, WordsAssumption, MissingAssumption
<1>3. /\ turned.patterns = config.patterns /\ turned.match_mode = config.match_mode
      /\ turned.timeframe = config.timeframe
  BY <1>1, <1>2 DEF Alike
<1>4. SnapshotKey(turned) = SnapshotKey(config)
  BY <1>3, WordAlike DEF SnapshotKey
<1>5. HasSnapshot(turned, mirror) = HasSnapshot(config, context)
  BY <1>4 DEF HasSnapshot
<1> QED  BY <1>3, <1>4, <1>5 DEF PatternStatus

LEMMA StopLossAlike ==
  ASSUME NEW turned, NEW config, Alike(turned, config), NEW context \in Contexts,
         NEW mirror, mirror = Mirror(context),
         Applies(turned, mirror) = Applies(config, context)
  PROVE  StopLossStatus(turned, mirror) = StopLossStatus(config, context)
<1>1. PICK entry, stop, other, direction :
        /\ entry = context.position.entry /\ stop = context.stop /\ other = mirror.stop
        /\ direction = context.position.direction
  OBVIOUS
<1>2. /\ direction \in {"long", "short"}
      /\ entry \in Int \cup {Missing} /\ stop \in Int \cup {Missing}
  BY <1>1, ContextsAssumption
<1>3. /\ mirror.position.entry = entry /\ mirror.position.direction = Turned(direction)
      /\ other = IF Missing \in {entry, stop} THEN stop ELSE 2 * entry - stop
  BY <1>1, MirrorFacts
<1>4. PICK limit : limit = Get(config, "max_distance_percent") /\ limit = Get(turned, "max_distance_percent")
  BY GetAlike
<1>5. PICK side, opposite :
        /\ side = IF direction = "long" THEN entry - stop ELSE stop - entry
        /\ opposite = IF Turned(direction) = "long" THEN entry - other ELSE other - entry
  OBVIOUS
<1>6. /\ StopLossStatus(config, context) =
           IF ~Applies(config, context) THEN "manual"
           ELSE IF stop = Missing THEN "failed"
           ELSE IF entry = Missing \/ entry <= 0 THEN "unknown"
           ELSE Decided(side > 0 /\ (limit = Missing \/ side * 200 <= limit * entry))
      /\ StopLossStatus(turned, mirror) =
           IF ~Applies(turned, mirror) THEN "manual"
           ELSE IF other = Missing THEN "failed"
           ELSE IF entry = Missing \/ entry <= 0 THEN "unknown"
           ELSE Decided(opposite > 0 /\ (limit = Missing \/ opposite * 200 <= limit * entry))
  BY <1>1, <1>3, <1>4, <1>5 DEF StopLossStatus
<1>7. CASE Missing \in {entry, stop}
  BY <1>3, <1>6, <1>7
<1>8. CASE Missing \notin {entry, stop}
  <2>1. entry \in Int /\ stop \in Int /\ other = 2 * entry - stop
    BY <1>2, <1>3, <1>8
  <2>2. other \in Int /\ other # Missing
    BY <2>1, MissingAssumption
  <2>3. side = opposite
    BY <1>2, <1>5, <2>1 DEF Turned
  <2> QED  BY <1>6, <1>8, <2>2, <2>3
<1> QED  BY <1>7, <1>8

\* Rules of the other types do not look at the direction.
LEMMA OthersAlike ==
  ASSUME NEW turned, NEW rule, turned.type = rule.type, Alike(turned.config, rule.config),
         rule.type \in RuleTypes \ {"indicator_condition", "candlestick_pattern", "stop_loss"},
         NEW context \in Contexts, NEW mirror, mirror = Mirror(context)
  PROVE  Status(turned, mirror) = Status(rule, context)
<1>1. /\ mirror.position.symbol = context.position.symbol
      /\ mirror.position.leverage = context.position.leverage
      /\ mirror.position.day = context.position.day
      /\ mirror.snapshots = context.snapshots /\ mirror.positions = context.positions
  BY MirrorFacts
<1>2. \A key \in {"symbols", "timeframes", "limit"} : Get(turned.config, key) = Get(rule.config, key)
  BY GetAlike
<1>3. CASE rule.type \in {"manual_check", "max_risk_per_trade", "min_risk_reward"}
  BY <1>3, StatusCases
<1>4. CASE rule.type \in {"allowed_symbols", "required_timeframes"}
  <2>1. PICK key : key = IF rule.type = "allowed_symbols" THEN "symbols" ELSE "timeframes"
    OBVIOUS
  <2>2. key \notin DOMAIN rule.config => Words(Get(rule.config, key)) = {}
    BY DEF Get, Words, OrElse
  <2>3. key \in DOMAIN rule.config => turned.config[key] = rule.config[key]
    BY <2>1 DEF Alike
  <2>4. CASE Words(Get(rule.config, key)) = {}
    BY <1>2, <1>4, <2>1, <2>4, StatusCases
  <2>5. CASE Words(Get(rule.config, key)) # {}
    <3>1. CASE rule.type = "allowed_symbols"
      BY <1>1, <1>2, <2>1, <2>2, <2>3, <2>5, <3>1, StatusCases
    <3>2. CASE rule.type = "required_timeframes"
      <4>1. PICK words : words = Words(rule.config.timeframes) /\ words = Words(turned.config.timeframes)
        BY <2>1, <2>2, <2>3, <2>5, <3>2
      <4>2. PICK seen : /\ seen = {k[1] : k \in DOMAIN context.snapshots}
                        /\ seen = {k[1] : k \in DOMAIN mirror.snapshots}
        BY <1>1
      <4>3. /\ Words(Get(rule.config, "timeframes")) # {}
            /\ Words(Get(turned.config, "timeframes")) # {}
        BY <1>2, <2>1, <2>5, <3>2
      <4>4. Status(rule, context) = Decided(words \subseteq seen)
        BY <3>2, <4>1, <4>2, <4>3, StatusCases
      <4>5. Status(turned, mirror) = Decided(words \subseteq seen)
        BY <3>2, <4>1, <4>2, <4>3, StatusCases
      <4> QED  BY <4>4, <4>5
    <3> QED  BY <1>4, <3>1, <3>2
  <2> QED  BY <2>4, <2>5
<1>5. CASE rule.type = "max_trades_per_day"
  <2>1. SameDayCount(mirror) = SameDayCount(context)
    BY <1>1 DEF SameDayCount
  <2> QED  BY <1>2, <1>5, <2>1, StatusCases
<1>6. CASE rule.type = "max_leverage"
  BY <1>1, <1>2, <1>6, StatusCases
<1> QED  BY <1>3, <1>4, <1>5, <1>6 DEF RuleTypes

LEMMA StatusTurned ==
  ASSUME NEW rule, Shaped(rule), Valid(rule), NEW stored, stored = Normalised(rule),
         NEW context \in Contexts
  PROVE  Status(TurnedRule(stored), Mirror(context)) = Status(stored, context)
<1>1. PICK turned, mirror : turned = TurnedRule(stored) /\ mirror = Mirror(context)
  OBVIOUS
<1>2. turned.type = stored.type /\ Alike(turned.config, stored.config)
  BY <1>1, TurnedFacts
<1>3. stored.type = rule.type /\ stored.type \in RuleTypes
  BY NormalShape DEF Shaped
<1>4. Valid(stored)
  BY ValidKept
<1>5. mirror.snapshots = context.snapshots
  BY <1>1, MirrorFacts
<1>6. CASE stored.type \notin {"indicator_condition", "candlestick_pattern", "stop_loss"}
  BY <1>1, <1>2, <1>3, <1>6, OthersAlike
<1>7. CASE stored.type \in {"indicator_condition", "candlestick_pattern", "stop_loss"}
  <2>1. Applies(turned.config, mirror) = Applies(stored.config, context)
    BY <1>1, <1>3, <1>7, AppliesTurned
  <2>2. CASE stored.type = "indicator_condition"
    <3>1. ConditionOK(stored.config) /\ Word(stored.config, "timeframe", Missing) \in Timeframes
      BY <1>4, <2>2 DEF Valid
    <3>2. Word(stored.config, "indicator", Missing) = stored.config.indicator
      <4>1. Word(stored.config, "indicator", Missing) \in Indicators
        BY <3>1 DEF ConditionOK, Indicators
      <4>2. "indicator" \in DOMAIN stored.config
        BY <4>1, MissingAssumption DEF Word, Get
      <4>3. "indicator" \in Texts \ Lists /\ "indicator" \notin DOMAIN Defaults(rule.type)
        BY DefaultFacts DEF Texts, Lists
      <4>4. stored.config["indicator"]
              = Word(rule.config, "indicator", Get(Defaults(rule.type), "indicator"))
        BY <4>2, <4>3, NormalConfig
      <4>5. Get(Defaults(rule.type), "indicator") = Missing
        BY <4>3 DEF Get
      <4>6. Word(stored.config, "indicator", Missing) = Word(rule.config, "indicator", Missing)
        BY RequiredKept
      <4> QED  BY <4>4, <4>5, <4>6
    <3>3. ConditionStatus(turned.config, mirror) = ConditionStatus(stored.config, context)
      BY <1>2, <1>5, <2>1, <3>1, <3>2, ConditionAlike
    <3> QED  BY <1>1, <1>2, <2>2, <3>3, StatusCases
  <2>3. CASE stored.type = "candlestick_pattern"
    <3>1. /\ Words(Get(stored.config, "patterns")) # {}
          /\ Word(stored.config, "timeframe", Missing) \in Timeframes
      BY <1>4, <2>3 DEF Valid
    <3>2. "match_mode" \in DOMAIN stored.config
      BY <1>3, <2>3, DefaultFacts, NormalDomain
    <3>3. PatternStatus(turned.config, mirror) = PatternStatus(stored.config, context)
      BY <1>2, <1>5, <2>1, <3>1, <3>2, PatternAlike
    <3> QED  BY <1>1, <1>2, <2>3, <3>3, StatusCases
  <2>4. CASE stored.type = "stop_loss"
    <3>1. StopLossStatus(turned.config, mirror) = StopLossStatus(stored.config, context)
      BY <1>1, <1>2, <2>1, StopLossAlike
    <3> QED  BY <1>1, <1>2, <2>4, <3>1, StatusCases
  <2> QED  BY <1>7, <2>2, <2>3, <2>4
<1> QED  BY <1>6, <1>7

\* A short position is judged as the long one that mirrors it, by rules whose scope is turned
\* (_direction_applies, _evaluate_stop_loss).
THEOREM DirectionsAlike == Spec => []DirectionsMirror
<1>1. ASSUME IInv, NEW rule \in ActiveRules, NEW context \in Contexts
      PROVE  Status(TurnedRule(rule), Mirror(context)) = Status(rule, context)
  <2>1. PICK row \in Items : row.rule = rule
    BY DEF ActiveRules
  <2>2. PICK sent : Shaped(sent) /\ Valid(sent) /\ rule = Normalised(sent)
    BY <1>1, <2>1, StoredRule
  <2> QED  BY <2>2, StatusTurned
<1>2. IInv => DirectionsMirror
  BY <1>1 DEF DirectionsMirror
<1> QED  BY <1>2, Invariant, PTL
=============================================================================
