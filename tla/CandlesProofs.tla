---------------------------- MODULE CandlesProofs ----------------------------
(***************************************************************************)
(* Proofs about Candles: a snapshot is calculated from the whole of its    *)
(* window, whatever requests overlap and fail; its values can be relied    *)
(* on; and the engine takes no side.  The last two hold of the values      *)
(* calculated from any series of candles, and so the lemmas about          *)
(* Indicators come before the second invariant.                            *)
(***************************************************************************)
EXTENDS Candles, SetLemmas

-----------------------------------------------------------------------------
(* The inductive invariant.                                                *)

Outcomes == Ended \cup {"fetch", "store", "calculate"}
Working == {"fetch", "store", "calculate"}
RequestRecord(fetched) ==
  [position : Positions, order : Orders, left : Seq(Frames) \ {<< >>}, next : Int, end : Int,
   fetched : {fetched}]

\* From one segment of a range to the next, and from the first candle of one to its last.
Stride(frame) == Width[frame] * MaxPerRequest
Span(frame) == Width[frame] * (MaxPerRequest - 1)

\* The candles of the exchange that a range must give, of those before a time.
Due(frame, position, end) ==
  {t \in DOMAIN chart[frame] :
     /\ Start(position, frame) <= t /\ t <= end
     /\ ~Between(Start(position, frame), t, Width[frame])}
DueBefore(frame, position, end, next) == {t \in Due(frame, position, end) : t < next}

\* The last time a snapshot of the position looks at.
Latest(position) == IF position.closed = None THEN position.opened ELSE position.closed
Covered(frame, position) == Due(frame, position, Latest(position)) \subseteq DOMAIN candles[frame]

\* A segment of the range begins here.
AtSegment(frame, position, time) ==
  \E k \in Nat : time = Start(position, frame) + Stride(frame) * k

\* The time frame that is fetched.
Current(r) == Head(r.left)

Fetching(r, at) ==
  LET frame == Current(r)
  IN  /\ r \in RequestRecord(r.fetched)
      /\ Latest(r.position) <= r.end /\ r.end <= clock
      /\ at = "fetch" =>
           /\ AtSegment(frame, r.position, r.next)
           /\ DueBefore(frame, r.position, r.end, r.next) \subseteq DOMAIN r.fetched
      /\ at = "store" => Due(frame, r.position, r.end) \subseteq DOMAIN r.fetched
Accounted(position, order, left) ==
  \A i \in DOMAIN order :
    Covered(order[i], position) \/ \E j \in DOMAIN left : left[j] = order[i]
RequestOK(r, at) ==
  at \in Working =>
    /\ Fetching(r, at)
    /\ Accounted(r.position, r.order, IF at = "calculate" THEN << >> ELSE r.left)

\* The inductive invariant: what each request has fetched of the range it asks for, and which
\* time frames are stored.
IInv ==
  /\ clock \in Moments /\ chart \in Charts
  /\ candles = [frame \in Frames |-> candles[frame]]
  /\ pc \in [Requests -> Outcomes] /\ request = [s \in Requests |-> request[s]]
  /\ \A s \in Requests : RequestOK(request[s], pc[s])
  /\ WindowWhole

-----------------------------------------------------------------------------
(* Candles that do not overlap.                                            *)

LEMMA OneMore ==
  ASSUME NEW n \in Int, NEW w \in Int
  PROVE  (n + 1) * w = n * w + w
OBVIOUS

LEMMA OneLess ==
  ASSUME NEW n \in Int, NEW w \in Int
  PROVE  w * (n - 1) + w = w * n
OBVIOUS

LEMMA Product ==
  ASSUME NEW n \in Nat, NEW w \in Nat
  PROVE  n * w \in Nat
OBVIOUS

LEMMA PositiveProduct ==
  ASSUME NEW n \in Nat \ {0}, NEW w \in Nat \ {0}
  PROVE  n * w \in Nat \ {0}
OBVIOUS

LEMMA ProductGrows ==
  ASSUME NEW n \in Nat \ {0}, NEW k \in Nat
  PROVE  n * k \in Nat /\ k <= n * k
OBVIOUS

LEMMA MoreIsLonger ==
  ASSUME NEW n \in Nat, NEW m \in Nat, NEW w \in Nat, n >= m
  PROVE  n * w >= m * w
OBVIOUS

LEMMA SegmentEnds ==
  ASSUME NEW k \in Int, NEW w \in Int, NEW m \in Int
  PROVE  w * (m * (k + 1) - 1) = w * m * k + w * m - w
OBVIOUS

LEMMA SegmentStarts ==
  ASSUME NEW k \in Int, NEW w \in Int, NEW m \in Int
  PROVE  w * m * (k + 1) = w * m * k + w * m
OBVIOUS

\* A finite set of integers that is not empty has a largest one.
LEMMA LargestInteger ==
  ASSUME NEW T, T \subseteq Int, T # {}, NEW top \in Int, \A t \in T : t <= top
  PROVE  \E t \in T : \A u \in T : u <= t
<1> DEFINE Below == {top - t : t \in T}
<1>1. Below \subseteq Nat /\ Below # {}
  <2>1. ASSUME NEW t \in T PROVE top - t \in Nat
    OBVIOUS
  <2>2. Below # {}
    OBVIOUS
  <2> QED  BY <2>1, <2>2
<1>2. PICK d \in Below : \A e \in Below : d <= e
  BY <1>1, LeastNatural
<1>3. PICK t \in T : d = top - t
  BY <1>2
<1>4. ASSUME NEW u \in T PROVE u <= t
  <2>1. top - t <= top - u
    BY <1>2, <1>3
  <2> QED  BY <2>1
<1> QED  BY <1>4

\* As many times as fit into a stretch, when each keeps its distance to the next.
LEMMA SpacedCount ==
  ASSUME NEW T, IsFiniteSet(T), T \subseteq Int, NEW w \in Nat,
         \A t, u \in T : t < u => t + w <= u,
         NEW a \in Int, NEW b \in Int, a <= b + w, \A t \in T : a <= t /\ t <= b
  PROVE  Cardinality(T) * w <= b + w - a
<1> DEFINE Fits(U) == \A c \in Int : a <= c + w /\ (\A t \in U : t <= c)
                                       => Cardinality(U) * w <= c + w - a
           Good == {U \in SUBSET T : Fits(U)}
<1>1. ASSUME NEW U \in SUBSET T, \A t \in U : U \ {t} \in Good
      PROVE  U \in Good
  <2>1. SUFFICES ASSUME NEW c \in Int, a <= c + w, \A t \in U : t <= c
                 PROVE  Cardinality(U) * w <= c + w - a
    BY <1>1
  <2>2. CASE U = {}
    <3>1. Cardinality(U) = 0
      BY <2>2, FS_EmptySet
    <3> QED  BY <2>1, <3>1
  <2>3. CASE U # {}
    <3>1. U \subseteq Int /\ IsFiniteSet(U)
      BY <1>1, FS_Subset
    <3>2. PICK last \in U : \A u \in U : u <= last
      BY <2>1, <2>3, <3>1, LargestInteger
    <3>3. PICK rest : rest = U \ {last}
      OBVIOUS
    <3>4. IsFiniteSet(rest) /\ Cardinality(rest) = Cardinality(U) - 1 /\ Cardinality(U) \in Nat
          /\ Cardinality(rest) \in Nat
      BY <3>1, <3>2, <3>3, FS_RemoveElement, FS_CardinalityType
    <3>5. rest \in Good
      BY <1>1, <3>2, <3>3
    <3>6. \A t \in rest : t <= last - w
      <4>1. ASSUME NEW t \in rest PROVE t <= last - w
        <5>1. t \in U /\ t # last /\ t \in Int /\ last \in Int /\ t <= last
          BY <3>1, <3>2, <3>3
        <5>2. t + w <= last
          BY <1>1, <3>2, <5>1
        <5> QED  BY <5>1, <5>2
      <4> QED  BY <4>1
    <3>7. last - w \in Int /\ a <= (last - w) + w /\ last <= c /\ last \in Int
      BY <1>1, <2>1, <3>1, <3>2
    <3>8. Cardinality(rest) * w <= (last - w) + w - a
      BY <3>5, <3>6, <3>7
    <3>9. PICK n : n = Cardinality(rest)
      OBVIOUS
    <3>10. n \in Nat /\ Cardinality(U) = n + 1 /\ n * w <= (last - w) + w - a
      BY <3>4, <3>8, <3>9
    <3>11. (n + 1) * w = n * w + w /\ n * w \in Nat
      BY <3>10, OneMore, Product
    <3> QED  BY <3>7, <3>10, <3>11
  <2> QED  BY <2>2, <2>3
<1> HIDE DEF Good
<1>2. SUBSET T \subseteq Good
  BY <1>1, SetsOneByOne
<1>3. T \in Good
  BY <1>2
<1> QED  BY <1>3 DEF Good

\* A segment is short enough for the exchange to give all of it.
LEMMA AllGiven ==
  ASSUME chart \in Charts, NEW frame \in Frames, NEW from \in Int, NEW to \in Int,
         to <= from + Span(frame), to <= clock, clock \in Int,
         NEW t \in DOMAIN chart[frame], from <= t, t <= to
  PROVE  t \in DOMAIN Klines(frame, from, to)
<1>1. PICK w, known, before :
        /\ w = Width[frame]
        /\ known = {u \in DOMAIN chart[frame] : from <= u /\ u <= to /\ u <= clock}
        /\ before = {u \in known : u < t}
  OBVIOUS
<1>2. w \in Nat \ {0} /\ MaxPerRequest \in Nat \ {0}
  BY <1>1, CandlesAssumption DEF Frames
<1>3. /\ DOMAIN chart[frame] \subseteq Int
      /\ \A u, v \in DOMAIN chart[frame] : u < v => u + w <= v
  BY <1>1, ChartsAssumption DEF Frames
<1>4. t \in known /\ t \in Int
  BY <1>1, <1>3
<1>5. before \subseteq Int /\ \A u \in before : from <= u /\ u <= t - w
  <2>1. ASSUME NEW u \in before PROVE u \in Int /\ from <= u /\ u <= t - w
    <3>1. u \in DOMAIN chart[frame] /\ u < t /\ from <= u /\ u \in Int
      BY <1>1, <1>3
    <3>2. u + w <= t
      BY <1>3, <3>1
    <3> QED  BY <1>2, <1>4, <3>1, <3>2
  <2> QED  BY <2>1
<1>6. IsFiniteSet(before)
  <2>1. before \in SUBSET (from .. to)
    BY <1>1, <1>5
  <2>2. IsFiniteSet(from .. to)
    BY FS_Interval
  <2> QED  BY <2>1, <2>2, FS_Subset
<1>7. Cardinality(before) * w <= (t - w) + w - from
  <2>1. \A u, v \in before : u < v => u + w <= v
    BY <1>1, <1>3
  <2>2. t - w \in Int /\ from <= (t - w) + w /\ w \in Nat
    BY <1>2, <1>4
  <2> QED  BY <1>5, <1>6, <2>1, <2>2, SpacedCount
<1>8. Cardinality(before) < MaxPerRequest
  <2>1. PICK n, m : n = Cardinality(before) /\ m = MaxPerRequest - 1
    OBVIOUS
  <2>2. n \in Nat /\ m \in Nat
    BY <1>2, <1>6, <2>1, FS_CardinalityType
  <2>3. n * w <= m * w
    <3>1. n * w <= (t - w) + w - from /\ to <= from + w * m
      BY <1>1, <1>7, <2>1 DEF Span
    <3>2. w * m = m * w /\ n * w \in Int /\ m * w \in Int
      BY <1>2, <2>2
    <3> QED  BY <1>2, <1>4, <3>1, <3>2
  <2>4. ~ (n >= m + 1)
    <3>1. SUFFICES ASSUME n >= m + 1 PROVE FALSE
      OBVIOUS
    <3>2. n * w >= (m + 1) * w
      BY <1>2, <2>2, <3>1, MoreIsLonger
    <3>3. (m + 1) * w = m * w + w /\ m * w \in Nat
      BY <1>2, <2>2, OneMore, Product
    <3> QED  BY <1>2, <2>2, <2>3, <3>2, <3>3
  <2> QED  BY <1>2, <2>1, <2>2, <2>4
<1> QED  BY <1>1, <1>4, <1>8 DEF Klines

-----------------------------------------------------------------------------
(* Segments.                                                               *)

LEMMA Smaller ==
  ASSUME NEW a \in Int, NEW b \in Int
  PROVE  Min({a, b}) = IF a <= b THEN a ELSE b
BY DEF Min

\* Where a segment ends, and the next one starts.
SegmentIs(frame, from, end, segment, next) ==
  /\ segment \in Int /\ next \in Int /\ segment <= end
  /\ segment <= from + Span(frame)
  /\ next <= end => next = from + Stride(frame)
  /\ next > end => segment = end \/ next = from + Stride(frame)
  /\ next = segment + Width[frame]

LEMMA SegmentBounds ==
  ASSUME NEW frame \in Frames, NEW from \in Int, NEW end \in Int,
         NEW segment, segment = SegmentEnd(from, end, Width[frame]),
         NEW next, next = NextStart(segment, Width[frame])
  PROVE  SegmentIs(frame, from, end, segment, next)
<1>1. PICK w, long : w = Width[frame] /\ long = from + w * (MaxPerRequest - 1)
  OBVIOUS
<1>2. w \in Nat \ {0} /\ MaxPerRequest \in Nat \ {0}
  BY <1>1, CandlesAssumption DEF Frames
<1> w * (MaxPerRequest - 1) \in Int /\ long + w = from + w * MaxPerRequest
  <2>1. w * (MaxPerRequest - 1) \in Nat
    BY <1>2, Product
  <2>2. w * (MaxPerRequest - 1) + w = w * MaxPerRequest
    BY <1>2, OneLess
  <2> QED  BY <1>1, <1>2, <2>1, <2>2
<1> long \in Int
  BY <1>1
<1>3. segment = IF end <= long THEN end ELSE long
  BY <1>1, <1>2, Smaller DEF SegmentEnd
<1> QED  BY <1>1, <1>2, <1>3 DEF NextStart, Stride, Span, SegmentIs

\* What is due before the next segment was due before this one, or is in it.
LEMMA DueInSegment ==
  ASSUME chart \in Charts, NEW frame \in Frames, NEW position \in Positions, NEW end \in Int,
         NEW k \in Nat, NEW from \in Int, from = Start(position, frame) + Stride(frame) * k,
         NEW segment, NEW next, SegmentIs(frame, from, end, segment, next),
         NEW t \in DueBefore(frame, position, end, next), ~ (t < from)
  PROVE  t <= segment
<1>1. PICK w, start, stride :
        w = Width[frame] /\ start = Start(position, frame) /\ stride = Stride(frame)
  OBVIOUS
<1>2. w \in Nat \ {0} /\ start \in Int /\ stride \in Nat \ {0} /\ stride = w * MaxPerRequest
  <2>1. w \in Nat \ {0} /\ MaxPerRequest \in Nat \ {0} /\ Warmup \in Nat
    BY <1>1, CandlesAssumption DEF Frames
  <2>2. Warmup * w \in Nat /\ w * MaxPerRequest \in Nat \ {0}
    BY <2>1, Product, PositiveProduct
  <2>3. position.opened \in Int
    BY RequestsAssumption
  <2> QED  BY <1>1, <2>1, <2>2, <2>3 DEF Start, Stride
<1>3. stride * k \in Nat /\ k <= stride * k /\ from \in Int /\ from = start + stride * k
  <2>1. stride * k \in Nat /\ k <= stride * k
    BY <1>2, ProductGrows
  <2> QED  BY <1>1, <1>2, <2>1
<1>4. /\ t \in DOMAIN chart[frame] /\ t < next /\ start <= t /\ t <= end
      /\ ~Between(start, t, w)
  BY <1>1 DEF DueBefore, Due
<1>5. t \in Int
  BY <1>4, ChartsAssumption DEF Frames
<1>6. /\ segment \in Int /\ next \in Int
      /\ next > end => segment = end \/ next = from + stride
      /\ next <= end => next = from + stride
      /\ next = segment + w
  BY <1>1 DEF SegmentIs
<1>7. CASE segment = end
  BY <1>4, <1>7
<1>8. CASE next = from + stride
  <2>1. k \in 0 .. t - start
    BY <1>2, <1>3, <1>5
  <2>2. ~ (start + w * (MaxPerRequest * (k + 1) - 1) < t /\ t < start + w * MaxPerRequest * (k + 1))
    BY <1>4, <2>1 DEF Between
  <2>3. PICK m, u, v :
          m = MaxPerRequest /\ u = w * m * (k + 1) /\ v = w * (m * (k + 1) - 1)
    OBVIOUS
  <2>4. m \in Int /\ w \in Int /\ k \in Int /\ stride = w * m
    BY <1>2, <2>3, CandlesAssumption
  <2>5. u = stride * k + stride
    BY <2>3, <2>4, SegmentStarts
  <2>6. v = stride * k + stride - w
    BY <2>3, <2>4, SegmentEnds
  <2>7. ~ (start + v < t /\ t < start + u)
    BY <2>2, <2>3
  <2>8. PICK z : z = stride * k
    OBVIOUS
  <2>9. z \in Nat /\ u = z + stride /\ v = z + stride - w /\ from = start + z
    BY <1>3, <2>5, <2>6, <2>8
  <2>10. w \in Int /\ stride \in Int /\ start \in Int /\ z \in Int /\ u \in Int /\ v \in Int
         /\ next = segment + w /\ t < next /\ segment \in Int
    BY <1>2, <1>4, <1>6, <2>4, <2>9
  <2>11. segment = from + stride - w
    BY <1>8, <2>10
  <2> QED  BY <1>5, <1>8, <2>7, <2>9, <2>10, <2>11
<1> QED  BY <1>2, <1>3, <1>6, <1>7, <1>8

-----------------------------------------------------------------------------
(* A request keeps what it has while the others go on.                     *)

\* What every step does: time does not run backwards, and candles are not taken away.
GoesOn ==
  /\ clock' \in Moments /\ clock <= clock' /\ chart' = chart
  /\ candles' = [frame \in Frames |-> candles'[frame]]
  /\ \A frame \in Frames : DOMAIN candles[frame] \subseteq DOMAIN candles'[frame]

\* The types of the constants that a request is made of.
LEMMA PositionTypes ==
  ASSUME NEW p \in Positions
  PROVE  /\ Latest(p) \in Int /\ p.opened \in Int /\ p.opened <= Latest(p)
         /\ p.closed # None => p.closed \in Int /\ p.closed = Latest(p)
<1>1. p.opened \in Int /\ (p.closed # None => p.closed \in Int /\ p.opened <= p.closed)
  BY RequestsAssumption
<1> QED  BY <1>1 DEF Latest

LEMMA OrderTypes ==
  ASSUME NEW order \in Orders
  PROVE  order \in Seq(Frames) /\ order # << >> /\ \A i \in DOMAIN order : order[i] \in Frames
BY RequestsAssumption DEF Frames

LEMMA HeadIsFrame ==
  ASSUME NEW left \in Seq(Frames) \ {<< >>}
  PROVE  Head(left) \in Frames
OBVIOUS

LEMMA StartIsInteger ==
  ASSUME NEW p \in Positions, NEW frame \in Frames
  PROVE  Start(p, frame) \in Int
<1>1. Width[frame] \in Nat /\ Warmup \in Nat
  BY CandlesAssumption DEF Frames
<1>2. Warmup * Width[frame] \in Nat
  BY <1>1, Product
<1> QED  BY <1>2, PositionTypes DEF Start

LEMMA CoveredStays ==
  ASSUME GoesOn, NEW frame \in Frames, NEW position, Covered(frame, position)
  PROVE  Covered(frame, position)'
<1>1. Due(frame, position, Latest(position))' = Due(frame, position, Latest(position))
  BY DEF GoesOn, Due
<1> QED  BY <1>1 DEF GoesOn, Covered

LEMMA AccountedStays ==
  ASSUME GoesOn, NEW position, NEW order \in Orders, NEW left, Accounted(position, order, left)
  PROVE  Accounted(position, order, left)'
<1>1. SUFFICES ASSUME NEW i \in DOMAIN order, ~ \E j \in DOMAIN left : left[j] = order[i]
               PROVE  Covered(order[i], position)'
  BY DEF Accounted
<1>2. order[i] \in Frames
  BY OrderTypes
<1>3. Covered(order[i], position)
  BY <1>1 DEF Accounted
<1>4. PICK frame : frame = order[i]
  OBVIOUS
<1>5. Covered(frame, position)'
  BY <1>2, <1>3, <1>4, CoveredStays
<1> QED  BY <1>4, <1>5

LEMMA FetchingStays ==
  ASSUME GoesOn, clock \in Moments, NEW r, NEW at, Fetching(r, at)
  PROVE  Fetching(r, at)'
<1>1. clock \in Int /\ clock' \in Int
  BY RequestsAssumption DEF GoesOn
<1>2. r.end \in Int
  BY DEF Fetching, RequestRecord
<1>3. r.end <= clock'
  <2>1. r.end <= clock /\ clock <= clock'
    BY DEF Fetching, GoesOn
  <2> QED  BY <1>1, <1>2, <2>1
<1>4. /\ Due(Current(r), r.position, r.end)' = Due(Current(r), r.position, r.end)
      /\ DueBefore(Current(r), r.position, r.end, r.next)'
           = DueBefore(Current(r), r.position, r.end, r.next)
  BY DEF GoesOn, Due, DueBefore
<1> QED  BY <1>3, <1>4 DEF Fetching

LEMMA RequestStays ==
  ASSUME GoesOn, clock \in Moments, NEW r, NEW at, RequestOK(r, at)
  PROVE  RequestOK(r, at)'
<1>1. SUFFICES ASSUME at \in Working
               PROVE  /\ Fetching(r, at)'
                      /\ Accounted(r.position, r.order, IF at = "calculate" THEN << >> ELSE r.left)'
  BY DEF RequestOK
<1>2. Fetching(r, at) /\ Accounted(r.position, r.order, IF at = "calculate" THEN << >> ELSE r.left)
  BY <1>1 DEF RequestOK
<1>3. r.order \in Orders
  BY <1>2 DEF Fetching, RequestRecord
<1>4. PICK position, order, left :
        /\ position = r.position /\ order = r.order
        /\ left = IF at = "calculate" THEN << >> ELSE r.left
  OBVIOUS
<1>5. Accounted(position, order, left)'
  BY <1>2, <1>3, <1>4, AccountedStays
<1> QED  BY <1>2, <1>4, <1>5, FetchingStays

LEMMA SnapshotsStay ==
  ASSUME chart' = chart, snapshots' = snapshots, WindowWhole
  PROVE  WindowWhole'
BY DEF WindowWhole, Whole

\* A step of one request.
LEMMA OneMoves ==
  ASSUME IInv, GoesOn, NEW s \in Requests, NEW r, NEW at \in Outcomes,
         request' = [request EXCEPT ![s] = r], pc' = [pc EXCEPT ![s] = at],
         RequestOK(r, at)', WindowWhole'
  PROVE  IInv'
<1>1. pc' \in [Requests -> Outcomes] /\ request' = [q \in Requests |-> request'[q]]
  BY DEF IInv
<1>2. ASSUME NEW q \in Requests PROVE RequestOK(request[q], pc[q])'
  <2>1. CASE q = s
    BY <2>1 DEF IInv
  <2>2. CASE q # s
    <3>1. PICK old, now : old = request[q] /\ now = pc[q]
      OBVIOUS
    <3>2. request'[q] = old /\ pc'[q] = now
      BY <2>2, <3>1 DEF IInv
    <3>3. RequestOK(old, now) /\ clock \in Moments
      BY <3>1 DEF IInv
    <3>4. RequestOK(old, now)'
      BY <3>3, RequestStays
    <3> QED  BY <3>2, <3>4
  <2> QED  BY <2>1, <2>2
<1> QED  BY <1>1, <1>2 DEF IInv, GoesOn

\* A request that ends keeps no account.
LEMMA EndKept ==
  ASSUME IInv, GoesOn, NEW s \in Requests, NEW outcome \in Ended, End(s, outcome), WindowWhole'
  PROVE  IInv'
<1>1. outcome \in Outcomes /\ outcome \notin Working
  BY DEF Ended, Outcomes, Working
<1>2. PICK r : r = NoRequest
  OBVIOUS
<1>3. RequestOK(r, outcome)'
  BY <1>1 DEF RequestOK
<1> QED  BY <1>1, <1>2, <1>3, OneMoves DEF End

-----------------------------------------------------------------------------
(* A time frame is asked for.                                              *)

LEMMA NotYetDue ==
  ASSUME chart \in Charts, NEW frame \in Frames, NEW p \in Positions, NEW end
  PROVE  DueBefore(frame, p, end, Start(p, frame)) = {}
<1>1. SUFFICES ASSUME NEW t \in DueBefore(frame, p, end, Start(p, frame)) PROVE FALSE
  OBVIOUS
<1>2. PICK start : start = Start(p, frame)
  OBVIOUS
<1>3. start \in Int /\ t \in DOMAIN chart[frame] /\ start <= t /\ t < start
  BY <1>1, <1>2, StartIsInteger DEF DueBefore, Due
<1>4. t \in Int
  BY <1>3, ChartsAssumption DEF Frames
<1> QED  BY <1>3, <1>4

LEMMA AskedFetching ==
  ASSUME chart \in Charts, clock \in Moments, NEW p \in Positions, NEW order \in Orders,
         NEW left \in Seq(Frames) \ {<< >>}, Latest(p) <= clock,
         NEW r, r = Asked(p, order, left)
  PROVE  Fetching(r, "fetch") /\ r.position = p /\ r.order = order /\ r.left = left
<1>1. PICK frame, start, end, empty :
        /\ frame = Head(left) /\ start = Start(p, frame) /\ empty = Empty
        /\ end = IF p.closed = None THEN clock ELSE p.closed
  OBVIOUS
<1>2. frame \in Frames /\ start \in Int
  <2>1. frame \in Frames
    BY <1>1, HeadIsFrame
  <2> QED  BY <1>1, <2>1, StartIsInteger
<1>3. end \in Int /\ Latest(p) <= end /\ end <= clock
  <2>1. clock \in Int
    BY RequestsAssumption
  <2>2. CASE p.closed = None
    BY <1>1, <2>1, <2>2
  <2>3. CASE p.closed # None
    <3>1. end \in Int /\ end = Latest(p)
      BY <1>1, <2>3, PositionTypes
    <3> QED  BY <3>1
  <2> QED  BY <2>2, <2>3
<1>4. r = [position |-> p, order |-> order, left |-> left, next |-> start, end |-> end,
           fetched |-> empty]
  BY <1>1 DEF Asked
<1>5. r \in RequestRecord(r.fetched)
  BY <1>2, <1>3, <1>4 DEF RequestRecord
<1>6. AtSegment(frame, p, start)
  <2>1. Width[frame] \in Nat /\ MaxPerRequest \in Nat
    BY <1>2, CandlesAssumption DEF Frames
  <2>2. Stride(frame) \in Nat
    BY <2>1, Product DEF Stride
  <2>3. PICK stride : stride = Stride(frame)
    OBVIOUS
  <2>4. start = start + stride * 0
    BY <1>2, <2>2, <2>3
  <2> QED  BY <1>1, <2>3, <2>4 DEF AtSegment
<1>7. DueBefore(frame, p, end, start) = {}
  BY <1>1, <1>2, NotYetDue
<1> QED  BY <1>1, <1>3, <1>4, <1>5, <1>6, <1>7 DEF Fetching, Current

-----------------------------------------------------------------------------
(* A segment is fetched.                                                   *)

LEMMA OverDomain ==
  ASSUME NEW new, NEW old
  PROVE  DOMAIN Over(new, old) = DOMAIN new \cup DOMAIN old
BY DEF Over

\* The request once a segment has been fetched.
Further(r, fetched, next) == [r EXCEPT !.fetched = fetched, !.next = next]

LEMMA FetchedRecord ==
  ASSUME NEW r, r \in RequestRecord(r.fetched), NEW fetched, NEW next, next \in Int,
         NEW more, more = Further(r, fetched, next)
  PROVE  /\ more \in RequestRecord(more.fetched)
         /\ more.position = r.position /\ more.order = r.order /\ more.left = r.left
         /\ more.end = r.end /\ more.fetched = fetched /\ more.next = next
BY DEF RequestRecord, Further

\* One more segment is one stride further.
LEMMA NextStride ==
  ASSUME NEW start \in Int, NEW stride \in Int, NEW k \in Nat
  PROVE  (start + stride * k) + stride = start + stride * (k + 1)
OBVIOUS

\* What is due before the next segment has been fetched.
LEMMA SegmentFetched ==
  ASSUME chart \in Charts, clock \in Moments, NEW r, Fetching(r, "fetch"),
         NEW frame, frame = Current(r),
         NEW segment, segment = SegmentEnd(r.next, r.end, Width[frame]),
         NEW next, next = NextStart(segment, Width[frame]),
         NEW t \in DueBefore(frame, r.position, r.end, next), t \notin DOMAIN r.fetched
  PROVE  t \in DOMAIN Klines(frame, r.next, segment)
<1>1. PICK p, end, from : p = r.position /\ end = r.end /\ from = r.next
  OBVIOUS
<1>2. /\ p \in Positions /\ end \in Int /\ from \in Int
      /\ end <= clock /\ DueBefore(frame, p, end, from) \subseteq DOMAIN r.fetched
  BY <1>1 DEF Fetching, RequestRecord
<1>3. PICK k \in Nat : from = Start(p, frame) + Stride(frame) * k
  BY <1>1 DEF Fetching, AtSegment
<1>4. frame \in Frames /\ clock \in Int
  <2>1. clock \in Int
    BY RequestsAssumption
  <2>2. r.left \in Seq(Frames) \ {<< >>}
    BY DEF Fetching, RequestRecord
  <2> QED  BY <2>1, <2>2, HeadIsFrame DEF Current
<1>5. SegmentIs(frame, from, end, segment, next)
  <2>1. segment = SegmentEnd(from, end, Width[frame])
    BY <1>1
  <2>2. from \in Int /\ end \in Int /\ frame \in Frames
    BY <1>2, <1>4
  <2> QED  BY <2>1, <2>2, SegmentBounds
<1>6. t \in DueBefore(frame, p, end, next) /\ t \in DOMAIN chart[frame] /\ t \in Due(frame, p, end)
  BY <1>1 DEF DueBefore, Due
<1>7. ~ (t < from)
  BY <1>2, <1>6 DEF DueBefore
<1>8. t <= segment
  BY <1>2, <1>3, <1>4, <1>5, <1>6, <1>7, DueInSegment
<1>9. t \in Int
  BY <1>4, <1>6, ChartsAssumption DEF Frames
<1>10. segment <= clock /\ from <= t /\ segment \in Int /\ segment <= from + Span(frame)
  BY <1>2, <1>4, <1>5, <1>7, <1>9 DEF SegmentIs
<1>11. t \in DOMAIN Klines(frame, from, segment)
  BY <1>2, <1>4, <1>6, <1>8, <1>10, AllGiven
<1> QED  BY <1>1, <1>11

LEMMA SegmentFetching ==
  ASSUME chart \in Charts, clock \in Moments, NEW r, Fetching(r, "fetch"),
         NEW frame, frame = Current(r),
         NEW segment, segment = SegmentEnd(r.next, r.end, Width[frame]),
         NEW next, next = NextStart(segment, Width[frame]),
         NEW fetched, fetched = Over(r.fetched, Klines(frame, r.next, segment)),
         NEW more, more = Further(r, fetched, next)
  PROVE  /\ Fetching(more, IF next <= r.end THEN "fetch" ELSE "store")
         /\ more.position = r.position /\ more.order = r.order /\ more.left = r.left
<1>1. r \in RequestRecord(r.fetched) /\ Latest(r.position) <= r.end /\ r.end <= clock
  BY DEF Fetching
<1>2. r.position \in Positions /\ r.end \in Int /\ r.next \in Int
  BY <1>1 DEF RequestRecord
<1>3. frame \in Frames
  <2>1. r.left \in Seq(Frames) \ {<< >>}
    BY <1>1 DEF RequestRecord
  <2> QED  BY <2>1, HeadIsFrame DEF Current
<1>4. PICK from, end : from = r.next /\ end = r.end
  OBVIOUS
<1>5. SegmentIs(frame, from, end, segment, next)
  <2>1. segment = SegmentEnd(from, end, Width[frame])
    BY <1>4
  <2>2. from \in Int /\ end \in Int
    BY <1>2, <1>4
  <2> QED  BY <1>3, <2>1, <2>2, SegmentBounds
<1>6. /\ more \in RequestRecord(more.fetched)
      /\ more.position = r.position /\ more.order = r.order /\ more.left = r.left
      /\ more.end = r.end /\ more.fetched = fetched /\ more.next = next
  <2>1. next \in Int
    BY <1>5 DEF SegmentIs
  <2> QED  BY <1>1, <2>1, FetchedRecord
<1>7. DueBefore(frame, r.position, r.end, next) \subseteq DOMAIN fetched
  <2>1. DOMAIN fetched = DOMAIN r.fetched \cup DOMAIN Klines(frame, r.next, segment)
    BY OverDomain
  <2>2. ASSUME NEW t \in DueBefore(frame, r.position, r.end, next), t \notin DOMAIN r.fetched
        PROVE  t \in DOMAIN Klines(frame, r.next, segment)
    BY <2>2, SegmentFetched
  <2> QED  BY <2>1, <2>2
<1>10. Current(more) = frame
  BY <1>6 DEF Current
<1>8. CASE next <= r.end
  <2>1. AtSegment(frame, r.position, next)
    <3>1. PICK k \in Nat : r.next = Start(r.position, frame) + Stride(frame) * k
      BY DEF Fetching, AtSegment
    <3>2. PICK start, stride : start = Start(r.position, frame) /\ stride = Stride(frame)
      OBVIOUS
    <3>3. start \in Int /\ stride \in Int
      <4>1. start \in Int
        BY <1>2, <1>3, <3>2, StartIsInteger
      <4>2. Width[frame] \in Nat /\ MaxPerRequest \in Nat
        BY <1>3, CandlesAssumption DEF Frames
      <4>3. stride \in Nat
        BY <3>2, <4>2, Product DEF Stride
      <4> QED  BY <4>1, <4>3
    <3>4. next = (start + stride * k) + stride
      BY <1>4, <1>5, <1>8, <3>1, <3>2 DEF SegmentIs
    <3>5. next = start + stride * (k + 1) /\ k + 1 \in Nat
      BY <3>3, <3>4, NextStride
    <3> QED  BY <3>2, <3>5 DEF AtSegment
  <2>2. Fetching(more, "fetch")
    BY <1>1, <1>6, <1>7, <1>10, <2>1 DEF Fetching
  <2> QED  BY <1>6, <1>8, <2>2
<1>9. CASE ~ (next <= r.end)
  <2>1. Due(frame, r.position, r.end) \subseteq DueBefore(frame, r.position, r.end, next)
    <3>1. SUFFICES ASSUME NEW t \in Due(frame, r.position, r.end) PROVE t < next
      BY DEF DueBefore
    <3>2. t \in DOMAIN chart[frame] /\ t <= end
      BY <1>4 DEF Due
    <3>3. t \in Int
      BY <1>3, <3>2, ChartsAssumption DEF Frames
    <3> QED  BY <1>2, <1>4, <1>5, <1>9, <3>2, <3>3 DEF SegmentIs
  <2>2. Fetching(more, "store")
    BY <1>1, <1>6, <1>7, <1>10, <2>1 DEF Fetching
  <2> QED  BY <1>6, <1>9, <2>2
<1> QED  BY <1>6, <1>8, <1>9

-----------------------------------------------------------------------------
(* The steps.                                                              *)

LEMMA ClockType ==
  ASSUME IInv
  PROVE  clock \in Moments /\ clock \in Int /\ chart \in Charts
BY RequestsAssumption DEF IInv

LEMMA NothingStored ==
  ASSUME IInv, UNCHANGED <<clock, chart, candles>>
  PROVE  GoesOn
BY ClockType DEF IInv, GoesOn

LEMMA BeginKept ==
  ASSUME IInv, NEW s \in Requests, Begin(s)
  PROVE  IInv'
<1>1. PICK p \in Positions, order \in Orders :
        /\ pc[s] = "new" /\ p.opened <= clock
        /\ p.closed # None => p.closed <= clock
        /\ request' = [request EXCEPT ![s] = Asked(p, order, order)]
        /\ pc' = [pc EXCEPT ![s] = "fetch"]
        /\ UNCHANGED <<clock, chart, candles, snapshots>>
  BY DEF Begin
<1>2. PICK r : r = Asked(p, order, order)
  OBVIOUS
<1>3. order \in Seq(Frames) \ {<< >>}
  BY OrderTypes
<1>4. Latest(p) <= clock
  BY <1>1 DEF Latest
<1>5. Fetching(r, "fetch") /\ r.position = p /\ r.order = order /\ r.left = order
  BY <1>2, <1>3, <1>4, ClockType, AskedFetching
<1>6. Accounted(p, order, order)
  BY DEF Accounted
<1>7. RequestOK(r, "fetch")
  BY <1>5, <1>6 DEF RequestOK
<1>8. GoesOn /\ WindowWhole'
  BY <1>1, NothingStored, SnapshotsStay DEF IInv
<1>9. RequestOK(r, "fetch")'
  BY <1>7, <1>8, ClockType, RequestStays
<1>10. request' = [request EXCEPT ![s] = r] /\ "fetch" \in Outcomes
  BY <1>1, <1>2 DEF Outcomes
<1> QED  BY <1>1, <1>8, <1>9, <1>10, OneMoves

LEMMA FetchSegmentKept ==
  ASSUME IInv, NEW s \in Requests, FetchSegment(s)
  PROVE  IInv'
<1>1. pc[s] = "fetch" /\ UNCHANGED <<clock, chart, candles, snapshots>>
  BY DEF FetchSegment
<1>2. GoesOn /\ WindowWhole'
  BY <1>1, NothingStored, SnapshotsStay DEF IInv
<1>3. CASE End(s, "upstream")
  BY <1>2, <1>3, EndKept DEF Ended
<1>4. CASE ~ End(s, "upstream")
  <2>1. PICK r, frame, segment, next, fetched, more, at :
          /\ r = request[s] /\ frame = Current(r)
          /\ segment = SegmentEnd(r.next, r.end, Width[frame])
          /\ next = NextStart(segment, Width[frame])
          /\ fetched = Over(r.fetched, Klines(frame, r.next, segment))
          /\ more = Further(r, fetched, next)
          /\ at = IF next <= r.end THEN "fetch" ELSE "store"
    OBVIOUS
  <2>2. request' = [request EXCEPT ![s] = more] /\ pc' = [pc EXCEPT ![s] = at]
    BY <1>4, <2>1 DEF FetchSegment, Current, Further
  <2>3. RequestOK(r, "fetch")
    BY <1>1, <2>1 DEF IInv
  <2>4. Fetching(r, "fetch") /\ Accounted(r.position, r.order, r.left)
    BY <2>3 DEF RequestOK, Working
  <2>5. /\ Fetching(more, at)
        /\ more.position = r.position /\ more.order = r.order /\ more.left = r.left
    BY <2>1, <2>4, ClockType, SegmentFetching
  <2>6. at \in Outcomes /\ at # "calculate"
    BY <2>1 DEF Outcomes
  <2>7. RequestOK(more, at)
    BY <2>4, <2>5, <2>6 DEF RequestOK
  <2>8. RequestOK(more, at)'
    BY <1>2, <2>7, ClockType, RequestStays
  <2> QED  BY <1>2, <2>2, <2>6, <2>8, OneMoves
<1> QED  BY <1>3, <1>4

\* What is left of a sequence of time frames.
LEMMA LeftOver ==
  ASSUME NEW left \in Seq(Frames) \ {<< >>}, NEW j \in DOMAIN left, left[j] # Head(left)
  PROVE  j - 1 \in DOMAIN Tail(left) /\ Tail(left)[j - 1] = left[j]
OBVIOUS

LEMMA StoreKept ==
  ASSUME IInv, NEW s \in Requests, Store(s)
  PROVE  IInv'
<1>1. PICK r, frame, left : r = request[s] /\ frame = Head(r.left) /\ left = Tail(r.left)
  OBVIOUS
<1>2. /\ pc[s] = "store" /\ UNCHANGED <<clock, chart, snapshots>>
      /\ candles' = [candles EXCEPT ![frame] = Over(@, r.fetched)]
      /\ \/ left = << >> /\ pc' = [pc EXCEPT ![s] = "calculate"] /\ UNCHANGED request
         \/ /\ left # << >> /\ pc' = [pc EXCEPT ![s] = "fetch"]
            /\ request' = [request EXCEPT ![s] = Asked(r.position, r.order, left)]
  BY <1>1 DEF Store
<1>3. RequestOK(r, "store")
  BY <1>1, <1>2 DEF IInv
<1>4. Fetching(r, "store") /\ Accounted(r.position, r.order, r.left)
  BY <1>3 DEF RequestOK, Working
<1>5. r \in RequestRecord(r.fetched)
  BY <1>4 DEF Fetching
<1>6. /\ r.position \in Positions /\ r.order \in Orders /\ r.left \in Seq(Frames) \ {<< >>}
      /\ r.end \in Int
  BY <1>5 DEF RequestRecord
<1>7. frame \in Frames
  BY <1>1, <1>6, HeadIsFrame
<1>8. DOMAIN candles'[frame] = DOMAIN candles[frame] \cup DOMAIN r.fetched
  <2>1. candles'[frame] = Over(candles[frame], r.fetched)
    BY <1>2, <1>7 DEF IInv
  <2> QED  BY <2>1, OverDomain
<1>9. GoesOn
  <2>1. candles' = [f \in Frames |-> candles'[f]]
    BY <1>2 DEF IInv
  <2>2. ASSUME NEW f \in Frames PROVE DOMAIN candles[f] \subseteq DOMAIN candles'[f]
    <3>1. CASE f = frame
      BY <1>8, <3>1
    <3>2. CASE f # frame
      <4>1. candles'[f] = candles[f]
        BY <1>2, <3>2 DEF IInv
      <4> QED  BY <4>1
    <3> QED  BY <3>1, <3>2
  <2> QED  BY <1>2, <2>1, <2>2, ClockType DEF GoesOn
<1>10. WindowWhole'
  BY <1>2, SnapshotsStay DEF IInv
<1>11. Latest(r.position) <= r.end /\ r.end <= clock /\ Latest(r.position) \in Int
  BY <1>4, <1>6, PositionTypes DEF Fetching
<1>12. Covered(frame, r.position)'
  <2>1. Due(frame, r.position, r.end) \subseteq DOMAIN r.fetched
    BY <1>1, <1>4 DEF Fetching, Current
  <2>2. Due(frame, r.position, Latest(r.position)) \subseteq Due(frame, r.position, r.end)
    <3>1. SUFFICES ASSUME NEW t \in Due(frame, r.position, Latest(r.position)) PROVE t <= r.end
      BY DEF Due
    <3>2. t \in DOMAIN chart[frame] /\ t <= Latest(r.position)
      BY DEF Due
    <3>3. t \in Int
      BY <1>7, <3>2, ClockType, ChartsAssumption DEF Frames
    <3> QED  BY <1>6, <1>11, <3>2, <3>3
  <2>3. Due(frame, r.position, Latest(r.position))' = Due(frame, r.position, Latest(r.position))
    BY <1>2 DEF Due
  <2> QED  BY <1>8, <2>1, <2>2, <2>3 DEF Covered
<1>13. Accounted(r.position, r.order, left)'
  <2>1. SUFFICES ASSUME NEW i \in DOMAIN r.order, ~ Covered(r.order[i], r.position)'
                 PROVE  \E j \in DOMAIN left : left[j] = r.order[i]
    BY DEF Accounted
  <2>2. PICK other : other = r.order[i]
    OBVIOUS
  <2>3. other # frame
    BY <1>12, <2>1, <2>2
  <2>4. other \in Frames
    BY <1>6, <2>2, OrderTypes
  <2>5. ~ Covered(other, r.position)
    <3>1. PICK p : p = r.position
      OBVIOUS
    <3>2. Covered(other, p) => Covered(other, p)'
      BY <1>9, <2>4, CoveredStays
    <3> QED  BY <2>1, <2>2, <3>1, <3>2
  <2>6. PICK j \in DOMAIN r.left : r.left[j] = other
    BY <1>4, <2>2, <2>5 DEF Accounted
  <2>7. j - 1 \in DOMAIN left /\ left[j - 1] = other
    BY <1>1, <1>6, <2>3, <2>6, LeftOver
  <2> QED  BY <2>2, <2>7
<1>14. CASE left = << >>
  <2>1. Fetching(r, "calculate")
    BY <1>4 DEF Fetching
  <2>2. Fetching(r, "calculate")'
    BY <1>9, <2>1, ClockType, FetchingStays
  <2>3. RequestOK(r, "calculate")'
    BY <1>13, <1>14, <2>2 DEF RequestOK
  <2>4. request' = [request EXCEPT ![s] = r] /\ pc' = [pc EXCEPT ![s] = "calculate"]
    BY <1>1, <1>2, <1>14 DEF IInv
  <2>5. "calculate" \in Outcomes
    BY DEF Outcomes
  <2> QED  BY <1>9, <1>10, <2>3, <2>4, <2>5, OneMoves
<1>15. CASE left # << >>
  <2>1. PICK p, order, again : p = r.position /\ order = r.order /\ again = Asked(p, order, left)
    OBVIOUS
  <2>2. left \in Seq(Frames) \ {<< >>}
    BY <1>1, <1>6, <1>15
  <2>3. p \in Positions /\ order \in Orders /\ Latest(p) <= clock
    BY <1>6, <1>11, <2>1, ClockType
  <2>4. Fetching(again, "fetch") /\ again.position = p /\ again.order = order /\ again.left = left
    BY <2>1, <2>2, <2>3, ClockType, AskedFetching
  <2>5. Fetching(again, "fetch")'
    BY <1>9, <2>4, ClockType, FetchingStays
  <2>6. RequestOK(again, "fetch")'
    BY <1>13, <2>1, <2>4, <2>5 DEF RequestOK
  <2>7. request' = [request EXCEPT ![s] = again] /\ pc' = [pc EXCEPT ![s] = "fetch"]
    BY <1>2, <1>15, <2>1
  <2>8. "fetch" \in Outcomes
    BY DEF Outcomes
  <2> QED  BY <1>9, <1>10, <2>6, <2>7, <2>8, OneMoves
<1> QED  BY <1>14, <1>15

\* The anchors of a position.
LEMMA AnchorTimes ==
  ASSUME NEW p \in Positions, NEW anchor \in DOMAIN Anchors(p)
  PROVE  /\ Anchors(p)[anchor] \in Int /\ Anchors(p)[anchor] <= Latest(p)
         /\ Anchors(p)[anchor] = IF anchor = "entry" THEN p.opened ELSE p.closed
<1>1. Anchors(p)[anchor] = IF anchor = "entry" THEN p.opened ELSE p.closed
  BY DEF Anchors
<1>2. anchor = "entry" \/ p.closed # None
  BY DEF Anchors
<1> QED  BY <1>1, <1>2, PositionTypes

LEMMA CoveredIsWhole ==
  ASSUME chart \in Charts, NEW p \in Positions, NEW frame \in Frames, Covered(frame, p),
         NEW anchor \in DOMAIN Anchors(p),
         NEW key, key = [position |-> p, frame |-> frame, anchor |-> anchor]
  PROVE  Whole(key, DOMAIN UpTo(frame, Anchors(p)[anchor]))
<1>1. PICK at : at = Anchors(p)[anchor]
  OBVIOUS
<1>2. at \in Int /\ at <= Latest(p) /\ at = IF anchor = "entry" THEN p.opened ELSE p.closed
  BY <1>1, AnchorTimes
<1>3. DOMAIN UpTo(frame, at) = {t \in DOMAIN candles[frame] : t <= at}
  BY DEF UpTo
<1>4. ASSUME NEW t \in DOMAIN chart[frame], Start(p, frame) <= t, t <= at,
             ~ Between(Start(p, frame), t, Width[frame])
      PROVE  t \in DOMAIN UpTo(frame, at)
  <2>1. t \in Int /\ Latest(p) \in Int
    BY ChartsAssumption, PositionTypes DEF Frames
  <2>2. t <= Latest(p)
    BY <1>2, <1>4, <2>1
  <2>3. t \in Due(frame, p, Latest(p))
    BY <1>4, <2>2 DEF Due
  <2>4. t \in DOMAIN candles[frame]
    BY <2>3 DEF Covered
  <2> QED  BY <1>3, <1>4, <2>4
<1>5. key.position = p /\ key.frame = frame /\ key.anchor = anchor
  OBVIOUS
<1>6. \A t \in DOMAIN UpTo(frame, at) : t <= at
  BY <1>3
<1> QED  BY <1>1, <1>2, <1>4, <1>5, <1>6 DEF Whole

\* The snapshots a request asks for, those it can calculate, and what is written.
AskedKeys(r) ==
  {[position |-> r.position, frame |-> r.order[i], anchor |-> anchor] :
     i \in DOMAIN r.order, anchor \in DOMAIN Anchors(r.position)}
FoundKeys(r) ==
  {key \in AskedKeys(r) : DOMAIN UpTo(key.frame, Anchors(r.position)[key.anchor]) # {}}
Written(position, found) ==
  [key \in found |-> Snapshot(UpTo(key.frame, Anchors(position)[key.anchor]))]

LEMMA CalculateKept ==
  ASSUME IInv, NEW s \in Requests, Calculate(s)
  PROVE  IInv'
<1>1. PICK r, found : r = request[s] /\ found = FoundKeys(r)
  OBVIOUS
<1>2. PICK new : new = Written(r.position, found)
  OBVIOUS
<1>3. /\ pc[s] = "calculate" /\ End(s, "ok") /\ UNCHANGED <<clock, chart, candles>>
      /\ snapshots' = Over(new, snapshots)
  BY <1>1, <1>2 DEF Calculate, Written, FoundKeys, AskedKeys
<1>4. Fetching(r, "calculate") /\ Accounted(r.position, r.order, << >>)
  <2>1. RequestOK(r, "calculate")
    BY <1>1, <1>3 DEF IInv
  <2> QED  BY <2>1 DEF RequestOK, Working
<1>5. r.position \in Positions /\ r.order \in Orders
  BY <1>4 DEF Fetching, RequestRecord
<1>6. \A i \in DOMAIN r.order : r.order[i] \in Frames /\ Covered(r.order[i], r.position)
  <2>1. DOMAIN << >> = {}
    OBVIOUS
  <2> QED  BY <1>4, <1>5, <2>1, OrderTypes DEF Accounted
<1>7. ASSUME NEW key \in found
      PROVE  Whole(key, DOMAIN new[key].used)
  <2>1. PICK i \in DOMAIN r.order, anchor \in DOMAIN Anchors(r.position) :
          key = [position |-> r.position, frame |-> r.order[i], anchor |-> anchor]
    BY <1>1 DEF FoundKeys, AskedKeys
  <2>2. PICK p, frame : p = r.position /\ frame = r.order[i]
    OBVIOUS
  <2>3. /\ p \in Positions /\ frame \in Frames /\ Covered(frame, p)
        /\ anchor \in DOMAIN Anchors(p)
        /\ key = [position |-> p, frame |-> frame, anchor |-> anchor]
    BY <1>5, <1>6, <2>1, <2>2
  <2>4. Whole(key, DOMAIN UpTo(frame, Anchors(p)[anchor]))
    BY <2>3, ClockType, CoveredIsWhole
  <2>5. new[key].used = UpTo(frame, Anchors(p)[anchor])
    BY <1>2, <2>2, <2>3 DEF Snapshot, Written
  <2> QED  BY <2>4, <2>5
<1>8. ASSUME NEW key \in DOMAIN snapshots'
      PROVE  Whole(key, DOMAIN snapshots'[key].used)
  <2>1. CASE key \in found
    <3>1. snapshots'[key] = new[key]
      BY <1>2, <1>3, <2>1 DEF Over, Written
    <3> QED  BY <1>7, <2>1, <3>1
  <2>2. CASE key \notin found
    <3>1. key \in DOMAIN snapshots /\ snapshots'[key] = snapshots[key]
      BY <1>2, <1>3, <2>2 DEF Over, Written
    <3> QED  BY <3>1 DEF IInv, WindowWhole
  <2> QED  BY <2>1, <2>2
<1>9. WindowWhole'
  <2>1. SUFFICES ASSUME NEW key \in DOMAIN snapshots'
                 PROVE  Whole(key, DOMAIN snapshots[key].used)'
    BY DEF WindowWhole
  <2>2. PICK used : used = DOMAIN snapshots'[key].used
    OBVIOUS
  <2>3. Whole(key, used)
    BY <1>8, <2>2
  <2>4. Whole(key, used)'
    BY <1>3, <2>3 DEF Whole
  <2> QED  BY <2>2, <2>4
<1>10. GoesOn
  BY <1>3, NothingStored
<1> QED  BY <1>3, <1>9, <1>10, EndKept DEF Ended

LEMMA LoseKept ==
  ASSUME IInv, NEW s \in Requests, Lose(s)
  PROVE  IInv'
<1>1. End(s, "lost") /\ UNCHANGED <<clock, chart, candles, snapshots>>
  BY DEF Lose
<1>2. GoesOn /\ WindowWhole'
  BY <1>1, NothingStored, SnapshotsStay DEF IInv
<1> QED  BY <1>1, <1>2, EndKept DEF Ended

\* The least moment of a set of them.
LEMMA LeastMoment ==
  ASSUME NEW later, later \subseteq Moments, later # {}
  PROVE  Min(later) \in later /\ \A u \in later : Min(later) <= u
<1>1. PICK least \in later : \A u \in later : least <= u
  BY RequestsAssumption, LeastNatural
<1> QED  BY <1>1 DEF Min

\* A step that changes nothing but the clock.
LEMMA TimePasses ==
  ASSUME IInv, GoesOn, UNCHANGED <<snapshots, request, pc>>
  PROVE  IInv'
<1>1. WindowWhole'
  BY SnapshotsStay DEF IInv, GoesOn
<1>2. ASSUME NEW s \in Requests PROVE RequestOK(request[s], pc[s])'
  <2>1. PICK r, at : r = request[s] /\ at = pc[s]
    OBVIOUS
  <2>2. RequestOK(r, at) /\ request'[s] = r /\ pc'[s] = at
    BY <2>1 DEF IInv
  <2>3. RequestOK(r, at)'
    BY <2>2, ClockType, RequestStays
  <2> QED  BY <2>2, <2>3
<1> QED  BY <1>1, <1>2 DEF IInv, GoesOn

LEMMA TickKept ==
  ASSUME IInv, Tick
  PROVE  IInv'
<1>1. PICK later : later = {u \in Moments : u > clock}
  OBVIOUS
<1>2. later # {} /\ clock' = Min(later) /\ UNCHANGED <<chart, candles, snapshots, request, pc>>
  BY <1>1 DEF Tick
<1>3. clock' \in later
  BY <1>1, <1>2, LeastMoment
<1>4. clock' \in Moments /\ clock <= clock'
  <2>1. clock' \in Moments /\ clock' > clock
    BY <1>1, <1>3
  <2>2. clock' \in Int
    BY <2>1, RequestsAssumption
  <2> QED  BY <2>1, <2>2, ClockType
<1>5. GoesOn
  BY <1>2, <1>4 DEF IInv, GoesOn
<1> QED  BY <1>2, <1>5, TimePasses

LEMMA Initially ==
  ASSUME Init
  PROVE  IInv
<1>1. clock \in Moments
  <2>1. clock = Min(Moments) /\ Moments # {}
    BY RequestsAssumption DEF Init
  <2> QED  BY <2>1, LeastMoment
<1>2. WindowWhole
  <2>1. DOMAIN snapshots = {}
    BY DEF Init, Empty
  <2> QED  BY <2>1 DEF WindowWhole
<1>3. ASSUME NEW s \in Requests PROVE RequestOK(request[s], pc[s])
  BY DEF Init, RequestOK, Working
<1>4. pc \in [Requests -> Outcomes] /\ request = [s \in Requests |-> request[s]]
  BY DEF Init, Outcomes, Ended
<1> QED  BY <1>1, <1>2, <1>3, <1>4 DEF Init, IInv

LEMMA InductiveStep ==
  ASSUME IInv, [Next]_vars
  PROVE  IInv'
<1>1. CASE Tick
  BY <1>1, TickKept
<1>2. ASSUME NEW s \in Requests, Begin(s) PROVE IInv'
  BY <1>2, BeginKept
<1>3. ASSUME NEW s \in Requests, FetchSegment(s) PROVE IInv'
  BY <1>3, FetchSegmentKept
<1>4. ASSUME NEW s \in Requests, Store(s) PROVE IInv'
  BY <1>4, StoreKept
<1>5. ASSUME NEW s \in Requests, Calculate(s) PROVE IInv'
  BY <1>5, CalculateKept
<1>6. ASSUME NEW s \in Requests, Lose(s) PROVE IInv'
  BY <1>6, LoseKept
<1>7. CASE UNCHANGED vars
  <2>1. UNCHANGED <<clock, chart, candles, snapshots, request, pc>>
    BY <1>7 DEF vars
  <2> QED  BY <2>1, NothingStored, TimePasses
<1> QED  BY <1>1, <1>2, <1>3, <1>4, <1>5, <1>6, <1>7 DEF Next

\* Whatever requests overlap, fail or are lost, and however long MEXC takes: a snapshot is
\* calculated from every candle of its window, but for those that begin between two segments
\* (ensure_candles_for_position, fetch_and_store_candles, _load_candles_for_snapshot).
THEOREM WindowsAreWhole == Spec => []WindowWhole
<1>1. Init => IInv
  BY Initially
<1>2. IInv /\ [Next]_vars => IInv'
  BY InductiveStep
<1>3. IInv => WindowWhole
  BY DEF IInv
<1> QED  BY <1>1, <1>2, <1>3, PTL DEF Spec

-----------------------------------------------------------------------------
(* Quotients: a common divisor is taken out of both numbers.               *)

\* The greatest common divisor, by its equation.
LEMMA GcdUnfolds ==
  Gcd = [p \in Nat \X Nat |-> IF p[2] = 0 THEN p[1] ELSE Gcd[<<p[2], p[1] % p[2]>>]]
<1> DEFINE D == Nat \X Nat
           rank == [x \in D |-> x[2]]
           B == {x \in D : x[2] = 0}
           p == [x \in D |-> <<x[2], x[1] % x[2]>>]
           c == [x \in D |-> x[1]]
           step == [z \in D \X Nat |-> z[2]]
<1>1. Descends(D, Nat, rank, B, p, c, step)
  <2>1. rank \in [D -> Nat] /\ \A x \in B : c[x] \in Nat
    OBVIOUS
  <2>2. ASSUME NEW x \in D \ B PROVE p[x] \in D /\ rank[p[x]] < rank[x]
    <3>1. PICK m \in Nat, n \in Nat : x = <<m, n>> /\ n # 0
      OBVIOUS
    <3>2. m % n \in Nat /\ m % n < n
      BY <3>1
    <3>3. p[x] = <<n, m % n>> /\ rank[x] = n
      BY <3>1
    <3> QED  BY <3>2, <3>3
  <2>3. \A x \in D \ B, v \in Nat : step[<<x, v>>] \in Nat
    OBVIOUS
  <2> HIDE DEF D, rank, B, p, c, step
  <2> QED  BY <2>1, <2>2, <2>3 DEF Descends
<1>2. PICK f : Follows(f, D, B, p, c, step)
  <2> HIDE DEF D, rank, B, p, c, step
  <2> QED  BY <1>1, FollowerExists
<1>3. f \in [D -> Nat]
  <2> HIDE DEF D, rank, B, p, c, step
  <2> QED  BY <1>1, <1>2, FollowerType
<1>4. f = [x \in D |-> IF x \in B THEN c[x] ELSE step[<<x, f[p[x]]>>]]
  <2> HIDE DEF D, rank, B, p, c, step
  <2> QED  BY <1>2 DEF Follows
<1>5. ASSUME NEW x \in D
      PROVE  f[x] = IF x[2] = 0 THEN x[1] ELSE f[<<x[2], x[1] % x[2]>>]
  <2>1. CASE x \in B
    BY <1>4, <2>1
  <2>2. CASE x \notin B
    <3>1. p[x] \in D /\ p[x] = <<x[2], x[1] % x[2]>>
      <4> HIDE DEF step, rank, c
      <4> QED  BY <1>1, <2>2 DEF Descends
    <3>2. f[x] = step[<<x, f[p[x]]>>]
      <4> HIDE DEF D, rank, B, p, c, step
      <4> QED  BY <1>4, <2>2
    <3>3. f[p[x]] \in Nat
      BY <1>3, <3>1
    <3>4. f[x] = f[p[x]]
      <4> HIDE DEF D, rank, B, p, c
      <4> QED  BY <3>2, <3>3
    <3> QED  BY <2>2, <3>1, <3>4
  <2> QED  BY <2>1, <2>2
<1>6. f = [x \in D |-> IF x[2] = 0 THEN x[1] ELSE f[<<x[2], x[1] % x[2]>>]]
  <2>1. f = [x \in D |-> f[x]]
    BY <1>3
  <2> HIDE DEF D, rank, B, p, c, step
  <2> QED  BY <1>5, <2>1
<1>7. \E g : g = [x \in Nat \X Nat |-> IF x[2] = 0 THEN x[1] ELSE g[<<x[2], x[1] % x[2]>>]]
  BY <1>6
<1> DEFINE it == CHOOSE g :
                   g = [x \in Nat \X Nat |-> IF x[2] = 0 THEN x[1] ELSE g[<<x[2], x[1] % x[2]>>]]
<1>8. it = [x \in Nat \X Nat |-> IF x[2] = 0 THEN x[1] ELSE it[<<x[2], x[1] % x[2]>>]]
  BY <1>7
<1>9. Gcd = it
  BY DEF Gcd
<1> HIDE DEF it
<1> QED  BY <1>8, <1>9

\* A number is its quotient times the divisor, and its remainder.
LEMMA Division ==
  ASSUME NEW a \in Nat, NEW b \in Nat \ {0}
  PROVE  /\ a % b \in Nat /\ a % b < b /\ a \div b \in Nat
         /\ a = b * (a \div b) + (a % b)
OBVIOUS

\* A multiple of a number divides without a remainder.
LEMMA Multiple ==
  ASSUME NEW g \in Nat, NEW q \in Nat, NEW j \in Nat, NEW k \in Nat
  PROVE  g * j * q + g * k = g * (j * q + k)  /\ j * q + k \in Nat
OBVIOUS

IsMultiple(n, g) == \E k \in Nat : n = g * k
\* The greatest common divisor divides both numbers.
LEMMA GcdDivides ==
  ASSUME NEW a \in Nat, NEW b \in Nat
  PROVE  /\ Gcd[<<a, b>>] \in Nat
         /\ a # 0 \/ b # 0 => Gcd[<<a, b>>] # 0
         /\ IsMultiple(a, Gcd[<<a, b>>]) /\ IsMultiple(b, Gcd[<<a, b>>])
<1> DEFINE D == Nat \X Nat
           rank == [x \in D |-> x[2]]
           Fine(g, m, n) == /\ g \in Nat /\ (m # 0 \/ n # 0 => g # 0)
                            /\ IsMultiple(m, g) /\ IsMultiple(n, g)
           Good == {x \in D : Fine(Gcd[x], x[1], x[2])}
<1>1. rank \in [D -> Nat]
  OBVIOUS
<1>2. ASSUME NEW x \in D, \A y \in D : rank[y] < rank[x] => y \in Good PROVE x \in Good
  <2>1. PICK m \in Nat, n \in Nat : x = <<m, n>>
    OBVIOUS
  <2>2. Gcd[x] = IF n = 0 THEN m ELSE Gcd[<<n, m % n>>]
    BY <2>1, GcdUnfolds
  <2>3. CASE n = 0
    <3>1. Gcd[x] = m
      BY <2>2, <2>3
    <3>2. m = m * 1 /\ n = m * 0
      BY <2>3
    <3>3. IsMultiple(m, m) /\ IsMultiple(n, m)
      BY <3>2 DEF IsMultiple
    <3>4. Fine(m, m, n)
      BY <2>3, <3>3
    <3> QED  BY <2>1, <3>1, <3>4
  <2>4. CASE n # 0
    <3>1. /\ m % n \in Nat /\ m % n < n /\ m \div n \in Nat
          /\ m = n * (m \div n) + (m % n)
      BY <2>4, Division
    <3>2. PICK r \in Nat, q \in Nat : r = m % n /\ q = m \div n
      BY <3>1
    <3>3. PICK y : y = <<n, r>>
      OBVIOUS
    <3>4. y \in D /\ rank[y] = r /\ rank[x] = n /\ Gcd[x] = Gcd[y]
      BY <2>1, <2>2, <2>4, <3>2, <3>3
    <3>5. r < n /\ m = n * q + r
      BY <3>1, <3>2
    <3>6. y \in Good
      BY <1>2, <3>4, <3>5
    <3>7. PICK g : g = Gcd[y]
      OBVIOUS
    <3>8. Fine(g, n, r)
      BY <3>3, <3>6, <3>7
    <3>9. PICK j \in Nat, k \in Nat : n = g * j /\ r = g * k
      BY <3>8 DEF IsMultiple
    <3>10. m = g * (j * q + k) /\ j * q + k \in Nat
      BY <3>5, <3>8, <3>9, Multiple
    <3>11. IsMultiple(m, g)
      BY <3>10 DEF IsMultiple
    <3>12. Fine(g, m, n)
      BY <2>4, <3>8, <3>11
    <3> QED  BY <2>1, <3>4, <3>7, <3>12
  <2> QED  BY <2>3, <2>4
<1> HIDE DEF Good
<1>3. D \subseteq Good
  <2> HIDE DEF rank, D
  <2> QED  BY <1>1, <1>2, RanksOneByOne
<1>4. <<a, b>> \in Good
  BY <1>3
<1> QED  BY <1>4 DEF Good

\* A multiple of a number is divided exactly.
LEMMA ExactDivision ==
  ASSUME NEW g \in Nat \ {0}, NEW k \in Int
  PROVE  (g * k) \div g = k
OBVIOUS

\* A factor of a positive number is positive.
LEMMA PositiveFactor ==
  ASSUME NEW g \in Nat, NEW k \in Nat, g * k # 0
  PROVE  k # 0
<1>1. SUFFICES ASSUME k = 0 PROVE FALSE
  OBVIOUS
<1>2. g * k = 0
  BY <1>1
<1> QED  BY <1>2

\* Products may be taken in another order.
LEMMA Reordered ==
  ASSUME NEW g \in Int, NEW j \in Int, NEW k \in Int
  PROVE  j * (g * k) = (g * j) * k /\ g * (-j) = -(g * j)
OBVIOUS

\* The absolute value of an integer is a natural number.
LEMMA AbsIs ==
  ASSUME NEW n \in Int
  PROVE  Abs(n) \in Nat /\ Abs(n) = Abs(-n) /\ (n = Abs(n) \/ n = -Abs(n))
BY DEF Abs, Larger

\* What a quotient is made of: a common divisor g, taken out of both numbers.
Reduced(n, d, g, j, k) ==
  /\ n = g * j /\ d = g * k
  /\ Q(n, d) = [n |-> j, d |-> k] /\ Q(-n, d) = [n |-> -j, d |-> k]
LEMMA LowestTerms ==
  ASSUME NEW n \in Int, NEW d \in Nat \ {0}
  PROVE  \E g \in Nat \ {0}, j \in Int, k \in Nat \ {0} : Reduced(n, d, g, j, k)
<1>1. PICK m \in Nat : m = Abs(n) /\ m = Abs(-n) /\ (n = m \/ n = -m)
  BY AbsIs
<1> DEFINE g == Gcd[<<m, d>>]
<1>2. g \in Nat /\ g # 0 /\ IsMultiple(m, g) /\ IsMultiple(d, g)
  BY GcdDivides
<1>3. PICK i \in Nat, k \in Nat : m = g * i /\ d = g * k
  BY <1>2 DEF IsMultiple
<1>4. k # 0
  BY <1>2, <1>3, PositiveFactor
<1>5. PICK j \in Int : n = g * j /\ -n = g * (-j)
  <2>1. CASE n = m
    <3>1. g * (-i) = -(g * i)
      BY <1>2, Reordered
    <3> QED  BY <1>3, <2>1, <3>1
  <2>2. CASE n = -m
    <3>1. g * (-i) = -(g * i) /\ -i \in Int /\ -(-i) = i
      BY <1>2, Reordered
    <3>2. n = g * (-i) /\ -n = g * i
      BY <1>1, <1>3, <2>2, <3>1
    <3> QED  BY <3>1, <3>2
  <2> QED  BY <1>1, <2>1, <2>2
<1>6. n \div g = j /\ (-n) \div g = -j /\ d \div g = k
  <2>1. (g * j) \div g = j /\ (g * (-j)) \div g = -j /\ (g * k) \div g = k
    BY <1>2, ExactDivision
  <2> QED  BY <1>3, <1>5, <2>1
<1>7. Q(n, d) = [n |-> n \div g, d |-> d \div g] /\ Q(-n, d) = [n |-> (-n) \div g, d |-> d \div g]
  BY <1>1 DEF Q
<1>8. Q(n, d) = [n |-> j, d |-> k] /\ Q(-n, d) = [n |-> -j, d |-> k]
  BY <1>6, <1>7
<1>9. Reduced(n, d, g, j, k) /\ g \in Nat \ {0} /\ k \in Nat \ {0}
  BY <1>2, <1>3, <1>4, <1>5, <1>8 DEF Reduced
<1> QED  BY <1>9

\* A quotient is exact.
LEMMA QuotientIs ==
  ASSUME NEW n \in Int, NEW d \in Nat \ {0}, NEW q, q = Q(n, d)
  PROVE  q \in Quotients /\ q.n * d = n * q.d
<1>0. PICK g \in Nat \ {0}, j \in Int, k \in Nat \ {0} : Reduced(n, d, g, j, k)
  BY LowestTerms
<1>1. n = g * j /\ d = g * k /\ q = [n |-> j, d |-> k]
  BY <1>0 DEF Reduced
<1>2. j * (g * k) = (g * j) * k
  BY Reordered
<1> QED  BY <1>1, <1>2 DEF Quotients

Negative(q) == [n |-> -q.n, d |-> q.d]
\* The quotient of the opposite is the opposite quotient.
LEMMA QuotientNegated ==
  ASSUME NEW n \in Int, NEW d \in Nat \ {0}
  PROVE  Q(-n, d) = Negative(Q(n, d))
<1>0. PICK g \in Nat \ {0}, j \in Int, k \in Nat \ {0} : Reduced(n, d, g, j, k)
  BY LowestTerms
<1>1. Q(n, d) = [n |-> j, d |-> k] /\ Q(-n, d) = [n |-> -j, d |-> k]
  BY <1>0 DEF Reduced
<1> QED  BY <1>1 DEF Negative

\* The product of positive numbers is positive.
LEMMA ProductType ==
  ASSUME NEW a \in Nat \ {0}, NEW b \in Nat \ {0}
  PROVE  a * b \in Nat \ {0}
OBVIOUS

\* The two numbers of a quotient.
LEMMA PartsOf ==
  ASSUME NEW q \in Quotients
  PROVE  q.n \in Int /\ q.d \in Nat \ {0} /\ q.d \in Int
BY DEF Quotients

\* Sums, differences and products of quotients are quotients.
LEMMA ArithmeticType ==
  ASSUME NEW a \in Quotients, NEW b \in Quotients
  PROVE  Plus(a, b) \in Quotients /\ Minus(a, b) \in Quotients /\ Times(a, b) \in Quotients
<1>1. /\ a.n \in Int /\ a.d \in Int /\ b.n \in Int /\ b.d \in Int
      /\ a.d \in Nat \ {0} /\ b.d \in Nat \ {0}
  BY PartsOf
<1>2. a.d * b.d \in Nat \ {0}
  BY <1>1, ProductType
<1>3. a.n * b.d + b.n * a.d \in Int /\ a.n * b.d - b.n * a.d \in Int /\ a.n * b.n \in Int
  BY <1>1
<1> QED  BY <1>2, <1>3, QuotientIs DEF Plus, Minus, Times

\* The opposite of a quotient is a quotient.
LEMMA NegativeType ==
  ASSUME NEW a \in Quotients
  PROVE  Negative(a) \in Quotients /\ Negative(a).n = -a.n /\ Negative(a).d = a.d
BY DEF Quotients, Negative

\* The sign of a product turns with one factor.
LEMMA SignsOfProducts ==
  ASSUME NEW a \in Int, NEW b \in Int, NEW c \in Int, NEW d \in Int
  PROVE  /\ (-a) * d + (-c) * b = -(a * d + c * b)
         /\ (-a) * d - (-c) * b = -(a * d - c * b)
         /\ (-a) * c = -(a * c)
         /\ a * d + c * b \in Int /\ a * d - c * b \in Int /\ a * c \in Int
OBVIOUS

\* Arithmetic turns with its arguments.
LEMMA ArithmeticNegated ==
  ASSUME NEW a \in Quotients, NEW b \in Quotients
  PROVE  /\ Plus(Negative(a), Negative(b)) = Negative(Plus(a, b))
         /\ Minus(Negative(a), Negative(b)) = Negative(Minus(a, b))
         /\ Times(Negative(a), b) = Negative(Times(a, b))
<1>1. PICK an \in Int, ad \in Int, bn \in Int, bd \in Int :
        an = a.n /\ ad = a.d /\ bn = b.n /\ bd = b.d
  BY PartsOf
<1>2. ad * bd \in Nat \ {0}
  BY <1>1, PartsOf, ProductType
<1>3. /\ (-an) * bd + (-bn) * ad = -(an * bd + bn * ad)
      /\ (-an) * bd - (-bn) * ad = -(an * bd - bn * ad)
      /\ (-an) * bn = -(an * bn)
      /\ an * bd + bn * ad \in Int /\ an * bd - bn * ad \in Int /\ an * bn \in Int
  BY SignsOfProducts
<1>4. /\ Negative(a).n = -an /\ Negative(a).d = ad
      /\ Negative(b).n = -bn /\ Negative(b).d = bd
  BY <1>1, NegativeType
<1>5. Plus(Negative(a), Negative(b)) = Negative(Plus(a, b))
  <2>1. Plus(Negative(a), Negative(b)) = Q(-(an * bd + bn * ad), ad * bd)
    BY <1>3, <1>4 DEF Plus
  <2>2. Plus(a, b) = Q(an * bd + bn * ad, ad * bd)
    BY <1>1 DEF Plus
  <2> QED  BY <1>2, <1>3, <2>1, <2>2, QuotientNegated
<1>6. Minus(Negative(a), Negative(b)) = Negative(Minus(a, b))
  <2>1. Minus(Negative(a), Negative(b)) = Q(-(an * bd - bn * ad), ad * bd)
    BY <1>3, <1>4 DEF Minus
  <2>2. Minus(a, b) = Q(an * bd - bn * ad, ad * bd)
    BY <1>1 DEF Minus
  <2> QED  BY <1>2, <1>3, <2>1, <2>2, QuotientNegated
<1>7. Times(Negative(a), b) = Negative(Times(a, b))
  <2>1. Times(Negative(a), b) = Q(-(an * bn), ad * bd)
    BY <1>1, <1>3, <1>4 DEF Times
  <2>2. Times(a, b) = Q(an * bn, ad * bd)
    BY <1>1 DEF Times
  <2> QED  BY <1>2, <1>3, <2>1, <2>2, QuotientNegated
<1> QED  BY <1>5, <1>6, <1>7

\* Zero is a quotient.
LEMMA ZeroIs == Zero \in Quotients /\ Zero.n = 0
<1>0. PICK zero \in Int, one \in Nat \ {0} : zero = 0 /\ one = 1
  OBVIOUS
<1> PICK g \in Nat \ {0}, j \in Int, k \in Nat \ {0} : Reduced(zero, one, g, j, k)
  BY LowestTerms
<1>1. 0 = g * j /\ 1 = g * k /\ Zero = [n |-> j, d |-> k]
  BY <1>0 DEF Reduced, Zero
<1>2. j = 0
  <2>1. PICK i \in Int : i = 0 /\ (g * j) \div g = j /\ (g * i) \div g = i
    BY ExactDivision
  <2>2. g * i = 0
    BY <2>1
  <2> QED  BY <1>1, <2>1, <2>2
<1> QED  BY <1>1, <1>2 DEF Quotients

-----------------------------------------------------------------------------
(* The order of quotients, and what lies within 0 and m.                   *)

AtMost(a, b) == a.n * b.d <= b.n * a.d

\* Of two quotients one is at most the other, and then it is not above it.
LEMMA NotLess ==
  ASSUME NEW a \in Quotients, NEW b \in Quotients
  PROVE  /\ ~Less(b, a) <=> AtMost(a, b)
         /\ AtMost(a, b) \/ AtMost(b, a)
<1>1. a.n * b.d \in Int /\ b.n * a.d \in Int
  BY PartsOf
<1> QED  BY <1>1 DEF Less, AtMost

\* An order survives a positive factor.
LEMMA MultiplyBoth ==
  ASSUME NEW a \in Int, NEW b \in Int, NEW c \in Nat, a <= b
  PROVE  a * c <= b * c
OBVIOUS

\* A positive factor may be taken out of an order.
LEMMA DivideBoth ==
  ASSUME NEW a \in Int, NEW b \in Int, NEW c \in Nat \ {0}, a * c <= b * c
  PROVE  a <= b
OBVIOUS

\* Fractions are compared by multiplying across.
LEMMA Across ==
  ASSUME NEW an \in Int, NEW ad \in Nat \ {0}, NEW bn \in Int, NEW bd \in Nat \ {0},
         NEW cn \in Int, NEW cd \in Nat \ {0}, an * bd <= bn * ad, bn * cd <= cn * bd
  PROVE  an * cd <= cn * ad
<1>1. (an * bd) * cd <= (bn * ad) * cd
  <2>1. an * bd \in Int /\ bn * ad \in Int /\ cd \in Nat
    OBVIOUS
  <2> QED  BY <2>1, MultiplyBoth
<1>2. (bn * cd) * ad <= (cn * bd) * ad
  <2>1. bn * cd \in Int /\ cn * bd \in Int /\ ad \in Nat
    OBVIOUS
  <2> QED  BY <2>1, MultiplyBoth
<1>3. /\ (an * bd) * cd = (an * cd) * bd /\ (bn * ad) * cd = (bn * cd) * ad
      /\ (cn * bd) * ad = (cn * ad) * bd
  OBVIOUS
<1>4. an * cd \in Int /\ cn * ad \in Int /\ (an * cd) * bd \in Int /\ (cn * ad) * bd \in Int
      /\ (bn * cd) * ad \in Int
  OBVIOUS
<1>5. (an * cd) * bd <= (cn * ad) * bd
  BY <1>1, <1>2, <1>3, <1>4
<1> QED  BY <1>4, <1>5, DivideBoth

\* The order of quotients is transitive.
LEMMA AtMostTransitive ==
  ASSUME NEW a \in Quotients, NEW b \in Quotients, NEW c \in Quotients,
         AtMost(a, b), AtMost(b, c)
  PROVE  AtMost(a, c)
<1>1. PICK an \in Int, ad \in Nat \ {0}, bn \in Int, bd \in Nat \ {0},
           cn \in Int, cd \in Nat \ {0} :
        an = a.n /\ ad = a.d /\ bn = b.n /\ bd = b.d /\ cn = c.n /\ cd = c.d
  BY PartsOf
<1>2. an * bd <= bn * ad /\ bn * cd <= cn * bd
  BY <1>1 DEF AtMost
<1>3. an * cd <= cn * ad
  BY <1>2, Across
<1> QED  BY <1>1, <1>3 DEF AtMost

\* A window of quotients has a lowest and a highest one.
LEMMA Extremes ==
  ASSUME NEW S, IsFiniteSet(S), S # {}, S \subseteq Quotients
  PROVE  /\ \E a \in S : \A b \in S : AtMost(a, b)
         /\ \E a \in S : \A b \in S : AtMost(b, a)
<1> DEFINE Has(T) == /\ \E a \in T : \A b \in T : AtMost(a, b)
                     /\ \E a \in T : \A b \in T : AtMost(b, a)
           Good == {T \in SUBSET S : T # {} => Has(T)}
<1>1. ASSUME NEW T \in SUBSET S, \A x \in T : T \ {x} \in Good PROVE T \in Good
  <2>1. SUFFICES ASSUME T # {} PROVE Has(T)
    OBVIOUS
  <2>2. PICK x \in T : TRUE
    BY <2>1
  <2>3. x \in Quotients /\ AtMost(x, x)
    BY NotLess
  <2>4. CASE T \ {x} = {}
    <3>1. T = {x}
      BY <2>4
    <3> QED  BY <2>3, <3>1
  <2>5. CASE T \ {x} # {}
    <3>1. Has(T \ {x})
      BY <1>1, <2>5
    <3>2. PICK low \in T \ {x} : \A b \in T \ {x} : AtMost(low, b)
      BY <3>1
    <3>3. PICK high \in T \ {x} : \A b \in T \ {x} : AtMost(b, high)
      BY <3>1
    <3>4. low \in Quotients /\ high \in Quotients /\ T \subseteq Quotients
      BY <3>2, <3>3
    <3>5. \E a \in T : \A b \in T : AtMost(a, b)
      <4>1. CASE AtMost(low, x)
        BY <3>2, <4>1
      <4>2. CASE AtMost(x, low)
        <5>1. \A b \in T \ {x} : AtMost(x, b)
          BY <2>3, <3>2, <3>4, <4>2, AtMostTransitive
        <5> QED  BY <2>3, <5>1
      <4> QED  BY <2>3, <3>4, <4>1, <4>2, NotLess
    <3>6. \E a \in T : \A b \in T : AtMost(b, a)
      <4>1. CASE AtMost(x, high)
        BY <3>3, <4>1
      <4>2. CASE AtMost(high, x)
        <5>1. \A b \in T \ {x} : AtMost(b, x)
          BY <2>3, <3>3, <3>4, <4>2, AtMostTransitive
        <5> QED  BY <2>3, <5>1
      <4> QED  BY <2>3, <3>4, <4>1, <4>2, NotLess
    <3> QED  BY <3>5, <3>6
  <2> QED  BY <2>4, <2>5
<1> HIDE DEF Good
<1>2. SUBSET S \subseteq Good
  BY <1>1, SetsOneByOne
<1>3. S \in Good
  BY <1>2
<1> QED  BY <1>3 DEF Good

\* The lowest of a window is in it, and no other is lower.
LEMMA LowestIs ==
  ASSUME NEW S, IsFiniteSet(S), S # {}, S \subseteq Quotients
  PROVE  /\ Lowest(S) \in S /\ \A b \in S : AtMost(Lowest(S), b)
         /\ Highest(S) \in S /\ \A b \in S : AtMost(b, Highest(S))
<1>1. \A a, b \in S : (~Less(b, a) <=> AtMost(a, b)) /\ (~Less(a, b) <=> AtMost(b, a))
  BY NotLess
<1>2. \E a \in S : \A b \in S : ~Less(b, a)
  BY <1>1, Extremes
<1>3. \E a \in S : \A b \in S : ~Less(a, b)
  BY <1>1, Extremes
<1>4. Lowest(S) \in S /\ \A b \in S : ~Less(b, Lowest(S))
  BY <1>2 DEF Lowest
<1>5. Highest(S) \in S /\ \A b \in S : ~Less(Highest(S), b)
  BY <1>3 DEF Highest
<1> QED  BY <1>1, <1>4, <1>5

\* From zero to m.
Within(q, m) == q \in Quotients /\ 0 <= q.n /\ q.n <= m * q.d

\* A fraction within 0 and m is a quotient within 0 and m.
LEMMA QuotientWithin ==
  ASSUME NEW n \in Int, NEW d \in Nat \ {0}, NEW m \in Nat, 0 <= n, n <= m * d
  PROVE  Within(Q(n, d), m)
<1>1. PICK q \in Quotients : q = Q(n, d) /\ q.n * d = n * q.d
  BY QuotientIs
<1>2. PICK qn \in Int, qd \in Nat \ {0}, zero \in Int, one \in Nat \ {0} :
        qn = q.n /\ qd = q.d /\ zero = 0 /\ one = 1
  BY PartsOf
<1>3. qn * d = n * qd
  BY <1>1, <1>2
<1>4. zero * d <= n * one /\ n * qd <= qn * d /\ n * one <= m * d /\ qn * d <= n * qd
      /\ m \in Int
  <2>1. n * qd \in Int /\ qn * d \in Int
    BY <1>2
  <2> QED  BY <1>2, <1>3, <2>1
<1>5. zero * qd <= qn * one
  BY <1>4, Across
<1>6. qn * one <= m * qd
  BY <1>4, Across
<1>7. 0 <= qn /\ qn <= m * qd
  BY <1>2, <1>5, <1>6
<1> QED  BY <1>1, <1>2, <1>7 DEF Within

\* A fraction within m and one within k add to one within m + k.
LEMMA SumOfFractions ==
  ASSUME NEW an \in Int, NEW ad \in Nat \ {0}, NEW bn \in Int, NEW bd \in Nat \ {0},
         NEW m \in Nat, NEW k \in Nat, 0 <= an, an <= m * ad, 0 <= bn, bn <= k * bd
  PROVE  0 <= an * bd + bn * ad /\ an * bd + bn * ad <= (m + k) * (ad * bd)
<1>1. an * bd <= (m * ad) * bd /\ 0 * bd <= an * bd
  <2>1. m * ad \in Int /\ bd \in Nat /\ 0 \in Int
    OBVIOUS
  <2> QED  BY <2>1, MultiplyBoth
<1>2. bn * ad <= (k * bd) * ad /\ 0 * ad <= bn * ad
  <2>1. k * bd \in Int /\ ad \in Nat /\ 0 \in Int
    OBVIOUS
  <2> QED  BY <2>1, MultiplyBoth
<1>3. (m * ad) * bd + (k * bd) * ad = (m + k) * (ad * bd)
  OBVIOUS
<1>4. /\ an * bd \in Int /\ bn * ad \in Int /\ (m * ad) * bd \in Int /\ (k * bd) * ad \in Int
      /\ 0 * bd = 0 /\ 0 * ad = 0
  OBVIOUS
<1> QED  BY <1>1, <1>2, <1>3, <1>4

\* A quotient within m and one within k add to one within m + k.
LEMMA PlusWithin ==
  ASSUME NEW a, NEW b, NEW m \in Nat, NEW k \in Nat, Within(a, m), Within(b, k)
  PROVE  Within(Plus(a, b), m + k)
<1>1. a \in Quotients /\ b \in Quotients
  BY DEF Within
<1>2. PICK an \in Int, ad \in Nat \ {0}, bn \in Int, bd \in Nat \ {0} :
        an = a.n /\ ad = a.d /\ bn = b.n /\ bd = b.d
  BY <1>1, PartsOf
<1>3. 0 <= an /\ an <= m * ad /\ 0 <= bn /\ bn <= k * bd
  BY <1>2 DEF Within
<1>4. 0 <= an * bd + bn * ad /\ an * bd + bn * ad <= (m + k) * (ad * bd)
  BY <1>3, SumOfFractions
<1>5. an * bd + bn * ad \in Int /\ ad * bd \in Nat \ {0} /\ m + k \in Nat
  BY ProductType
<1>6. Plus(a, b) = Q(an * bd + bn * ad, ad * bd)
  BY <1>2 DEF Plus
<1> QED  BY <1>4, <1>5, <1>6, QuotientWithin

\* The k-th part of a fraction within m times k is within m.
LEMMA ProductOfFractions ==
  ASSUME NEW an \in Int, NEW ad \in Nat \ {0}, NEW bn \in Int, NEW bd \in Nat \ {0},
         NEW m \in Nat, NEW k \in Nat \ {0}, 0 <= an, an <= (m * k) * ad, bn * k = bd, 0 <= bn
  PROVE  0 <= an * bn /\ an * bn <= m * (ad * bd)
<1>1. an * bn <= ((m * k) * ad) * bn /\ 0 * bn <= an * bn
  <2>1. (m * k) * ad \in Int /\ bn \in Nat /\ 0 \in Int
    OBVIOUS
  <2> QED  BY <2>1, MultiplyBoth
<1>2. ((m * k) * ad) * bn = m * (ad * (bn * k))
  OBVIOUS
<1>3. 0 * bn = 0 /\ an * bn \in Int
  OBVIOUS
<1> QED  BY <1>1, <1>2, <1>3

\* The k-th part of what is within m times k is within m.
LEMMA PartWithin ==
  ASSUME NEW a, NEW m \in Nat, NEW k \in Nat \ {0}, Within(a, m * k)
  PROVE  Within(Times(a, Q(1, k)), m)
<1>1. PICK b \in Quotients : b = Q(1, k) /\ b.n * k = 1 * b.d
  BY QuotientIs
<1>2. a \in Quotients
  BY DEF Within
<1>3. PICK an \in Int, ad \in Nat \ {0}, bn \in Int, bd \in Nat \ {0} :
        an = a.n /\ ad = a.d /\ bn = b.n /\ bd = b.d
  BY <1>2, PartsOf
<1>4. bn * k = bd
  BY <1>1, <1>3
<1>5. 0 <= bn
  <2>1. k \in Nat \ {0} /\ 0 * k <= bn * k
    BY <1>4
  <2> QED  BY <2>1, DivideBoth
<1>6. 0 <= an /\ an <= (m * k) * ad
  BY <1>3 DEF Within
<1>7. 0 <= an * bn /\ an * bn <= m * (ad * bd)
  BY <1>4, <1>5, <1>6, ProductOfFractions
<1>8. an * bn \in Int /\ ad * bd \in Nat \ {0}
  BY ProductType
<1>9. Times(a, Q(1, k)) = Q(an * bn, ad * bd)
  BY <1>1, <1>3 DEF Times
<1> QED  BY <1>7, <1>8, <1>9, QuotientWithin

\* A quotient within 0 and 100 is a percentage.
LEMMA WithinPercent ==
  ASSUME NEW q, Within(q, 100)
  PROVE  ~Less(q, Zero) /\ ~Less(Q(100, 1), q)
<1>1. PICK h \in Quotients : h = Q(100, 1) /\ h.n * 1 = 100 * h.d
  BY QuotientIs
<1>2. q \in Quotients
  BY DEF Within
<1>3. PICK qn \in Int, qd \in Nat \ {0}, hn \in Int, hd \in Nat \ {0}, zd \in Nat \ {0} :
        qn = q.n /\ qd = q.d /\ hn = h.n /\ hd = h.d /\ zd = Zero.d
  BY <1>2, PartsOf, ZeroIs
<1>4. hn = 100 * hd /\ 0 <= qn /\ qn <= 100 * qd
  BY <1>1, <1>3 DEF Within
<1>5. ~ (qn * zd < 0 * qd)
  <2>1. 0 * zd <= qn * zd
    BY <1>4, MultiplyBoth
  <2>2. 0 * zd = 0 /\ 0 * qd = 0 /\ qn * zd \in Int
    OBVIOUS
  <2> QED  BY <2>1, <2>2
<1>6. ~ (hn * qd < qn * hd)
  <2>1. qn * hd <= (100 * qd) * hd
    <3>1. 100 * qd \in Int /\ hd \in Nat
      OBVIOUS
    <3> QED  BY <1>4, <3>1, MultiplyBoth
  <2>2. (100 * qd) * hd = (100 * hd) * qd /\ qn * hd \in Int /\ hn * qd \in Int
    OBVIOUS
  <2> QED  BY <1>4, <2>1, <2>2
<1>7. ~Less(q, Zero)
  BY <1>3, <1>5, ZeroIs DEF Less
<1>8. ~Less(Q(100, 1), q)
  BY <1>1, <1>3, <1>6 DEF Less
<1> QED  BY <1>7, <1>8

-----------------------------------------------------------------------------
(* Totals, averages and the stochastic RSI.                                *)

\* A recursive series, by its equation.
IsTotal(t, values, from, to) ==
  /\ t \in [from .. to -> Quotients]
  /\ t = [i \in from .. to |-> IF i = from THEN Zero ELSE Plus(t[i - 1], values[i])]

\* The totals of a series, by their equation.
LEMMA TotalsUnfold ==
  ASSUME NEW from \in Int, NEW to \in Int, NEW values,
         \A i \in from + 1 .. to : values[i] \in Quotients
  PROVE  IsTotal(Totals(values, from, to), values, from, to)
<1> DEFINE step == [z \in (from + 1 .. to) \X Quotients |-> Plus(z[2], values[z[1]])]
           Is(t) == t = [i \in from .. to |-> IF i = from THEN Zero ELSE Plus(t[i - 1], values[i])]
           it == CHOOSE t : Is(t)
<1>1. \A i \in from + 1 .. to, v \in Quotients :
        step[<<i, v>>] = Plus(v, values[i]) /\ step[<<i, v>>] \in Quotients
  BY ArithmeticType
<1>2. PICK f : Steps(f, from, to, Quotients, Zero, step)
  <2> HIDE DEF step
  <2> QED  BY <1>1, ZeroIs, IntervalFunction
<1>3. ASSUME NEW i \in from .. to
      PROVE  f[i] = IF i = from THEN Zero ELSE Plus(f[i - 1], values[i])
  <2> HIDE DEF step
  <2>1. i # from => i \in from + 1 .. to /\ f[i - 1] \in Quotients
    BY <1>2 DEF Steps
  <2> QED  BY <1>1, <1>2, <2>1 DEF Steps
<1>4. Is(f)
  BY <1>2, <1>3 DEF Steps
<1>5. Is(it)
  <2> HIDE DEF Is
  <2> QED  BY <1>4
<1>6. Totals(values, from, to) = it
  BY DEF Totals
<1> HIDE DEF it
<1>7. it \in [from .. to -> Quotients]
  <2> DEFINE Good == {i \in from .. to : it[i] \in Quotients}
  <2>1. ASSUME NEW i \in from + 1 .. to, i - 1 \in Good PROVE i \in Good
    <3>1. it[i] = Plus(it[i - 1], values[i]) /\ i \in from .. to
      BY <1>5
    <3> QED  BY <2>1, <3>1, ArithmeticType
  <2>2. from <= to => from \in Good
    BY <1>5, ZeroIs
  <2> HIDE DEF Good
  <2>3. from <= to => from .. to \subseteq Good
    BY <2>1, <2>2, IntervalOneByOne
  <2>4. \A i \in from .. to : it[i] \in Quotients
    BY <2>3 DEF Good
  <2> QED  BY <1>5, <2>4
<1> QED  BY <1>5, <1>6, <1>7 DEF IsTotal

\* None up to a place, then within m.
Filled(s, n, start, m) ==
  /\ s = [i \in 1 .. n |-> s[i]]
  /\ \A i \in 1 .. n : /\ i < start => s[i] = None
                       /\ i >= start => Within(s[i], m)

\* What is within 0 and m is a value.
LEMMA WithinIsSome ==
  ASSUME NEW q, NEW m, Within(q, m)
  PROVE  q # None
BY NoneAssumption DEF Within

\* The total of k values within m is within k times m.
LEMMA TotalWithin ==
  ASSUME NEW from \in Int, NEW to \in Int, from <= to, NEW values, NEW m \in Nat,
         \A i \in from + 1 .. to : Within(values[i], m)
  PROVE  Within(Totals(values, from, to)[to], m * (to - from))
<1>1. \A i \in from + 1 .. to : values[i] \in Quotients
  BY DEF Within
<1>2. PICK t : t = Totals(values, from, to) /\ IsTotal(t, values, from, to)
  BY <1>1, TotalsUnfold
<1> DEFINE Good == {i \in from .. to : Within(t[i], m * (i - from))}
<1>3. from \in Good
  <2>1. t[from] = Zero
    BY <1>2 DEF IsTotal
  <2>2. m * (from - from) = 0 /\ 0 * Zero.d = 0
    BY ZeroIs, PartsOf
  <2>3. Within(Zero, 0)
    BY <2>2, ZeroIs DEF Within
  <2> QED  BY <2>1, <2>2, <2>3
<1>4. ASSUME NEW i \in from + 1 .. to, i - 1 \in Good PROVE i \in Good
  <2>1. t[i] = Plus(t[i - 1], values[i])
    BY <1>2 DEF IsTotal
  <2>2. PICK k \in Nat : k = i - 1 - from /\ k + 1 = i - from
    OBVIOUS
  <2>3. Within(t[i - 1], m * k)
    BY <1>4, <2>2
  <2>4. m * k \in Nat /\ m * k + m = m * (k + 1)
    OBVIOUS
  <2>5. Within(values[i], m)
    OBVIOUS
  <2>6. Within(Plus(t[i - 1], values[i]), m * k + m)
    <3> PICK p \in Nat : p = m * k
      BY <2>4
    <3> QED  BY <2>3, <2>5, PlusWithin
  <2> QED  BY <2>1, <2>2, <2>4, <2>6
<1> HIDE DEF Good
<1>5. from .. to \subseteq Good
  BY <1>3, <1>4, IntervalOneByOne
<1>6. to \in Good
  BY <1>5
<1> QED  BY <1>2, <1>6 DEF Good

\* The average of a series begins with the first window that has a value in every place.
LEMMA AverageFilled ==
  ASSUME NEW s, NEW n \in Nat, NEW start \in Nat \ {0}, NEW length \in Nat \ {0}, NEW m \in Nat,
         Filled(s, n, start, m)
  PROVE  Filled(Average(s, length), n, start + length - 1, m)
<1> DEFINE a == Average(s, length)
           Gap(i) == i < length \/ \E j \in i - length + 1 .. i : s[j] = None
<1>1. DOMAIN s = 1 .. n
  BY DEF Filled
<1>2. a = [i \in 1 .. n |-> IF Gap(i) THEN None
                            ELSE Times(Totals(s, i - length, i)[i], Q(1, length))]
  BY <1>1 DEF Average
<1>3. ASSUME NEW i \in 1 .. n, i < start + length - 1 PROVE a[i] = None
  <2>1. CASE i < length
    BY <1>2, <2>1
  <2>2. CASE i >= length
    <3>1. PICK j : j = i - length + 1
      OBVIOUS
    <3>2. j \in 1 .. n /\ j < start /\ j \in i - length + 1 .. i
      BY <1>3, <2>2, <3>1
    <3>3. s[j] = None
      BY <3>2 DEF Filled
    <3> QED  BY <1>2, <3>2, <3>3
  <2> QED  BY <2>1, <2>2
<1>4. ASSUME NEW i \in 1 .. n, i >= start + length - 1 PROVE Within(a[i], m)
  <2>1. ASSUME NEW j \in i - length + 1 .. i PROVE Within(s[j], m)
    <3>1. j \in 1 .. n /\ j >= start
      BY <1>4
    <3> QED  BY <3>1 DEF Filled
  <2>2. ~Gap(i)
    BY <1>4, <2>1, WithinIsSome
  <2>3. a[i] = Times(Totals(s, i - length, i)[i], Q(1, length))
    BY <1>2, <2>2
  <2>4. PICK from \in Int : from = i - length
    OBVIOUS
  <2>5. from <= i /\ i - from = length /\ \A j \in from + 1 .. i : Within(s[j], m)
    BY <2>1, <2>4
  <2>6. Within(Totals(s, from, i)[i], m * length)
    <3>1. i \in Int
      OBVIOUS
    <3>2. Within(Totals(s, from, i)[i], m * (i - from))
      BY <2>5, <3>1, TotalWithin
    <3> QED  BY <2>5, <3>2
  <2>7. Within(Times(Totals(s, from, i)[i], Q(1, length)), m)
    BY <2>6, PartWithin
  <2> QED  BY <2>3, <2>4, <2>7
<1>5. a = [i \in 1 .. n |-> a[i]]
  BY <1>2
<1> HIDE DEF a
<1>6. Filled(a, n, start + length - 1, m)
  BY <1>3, <1>4, <1>5 DEF Filled
<1> QED  BY <1>6 DEF a

\* A quotient has the sign of the numerator it was made of.
LEMMA SignKept ==
  ASSUME NEW n \in Int, NEW d \in Nat \ {0}, NEW qn \in Int, NEW qd \in Nat \ {0},
         qn * d = n * qd, 0 <= n
  PROVE  0 <= qn
<1>1. 0 * qd <= n * qd
  BY MultiplyBoth
<1>2. 0 * qd = 0 * d /\ 0 \in Int
  OBVIOUS
<1>3. 0 * d <= qn * d
  BY <1>1, <1>2
<1> QED  BY <1>3, DivideBoth

\* Two differences over a common denominator.
LEMMA Differences ==
  ASSUME NEW ln \in Int, NEW ld \in Int, NEW xn \in Int, NEW xd \in Int,
         NEW hn \in Int, NEW hd \in Int
  PROVE  /\ (xn * ld - ln * xd) * (hd * ld) = (xn * hd) * (ld * ld) - (ln * xd) * (hd * ld)
         /\ (hn * ld - ln * hd) * (xd * ld) = (hn * xd) * (ld * ld) - (ln * xd) * (hd * ld)
OBVIOUS

\* What is above the lowest is no more than the highest is.
LEMMA AboveLowest ==
  ASSUME NEW low \in Quotients, NEW x \in Quotients, NEW high \in Quotients,
         AtMost(low, x), AtMost(x, high)
  PROVE  /\ Minus(x, low) \in Quotients /\ Minus(high, low) \in Quotients
         /\ 0 <= Minus(x, low).n /\ AtMost(Minus(x, low), Minus(high, low))
<1>1. PICK ln \in Int, ld \in Nat \ {0}, xn \in Int, xd \in Nat \ {0},
           hn \in Int, hd \in Nat \ {0} :
        /\ ln = low.n /\ ld = low.d /\ xn = x.n /\ xd = x.d /\ hn = high.n /\ hd = high.d
  BY PartsOf
<1>2. ln * xd <= xn * ld /\ xn * hd <= hn * xd
  BY <1>1 DEF AtMost
<1>3. PICK n1 \in Int, d1 \in Nat \ {0}, n2 \in Int, d2 \in Nat \ {0} :
        /\ n1 = xn * ld - ln * xd /\ d1 = xd * ld
        /\ n2 = hn * ld - ln * hd /\ d2 = hd * ld
  BY ProductType
<1>4. Minus(x, low) = Q(n1, d1) /\ Minus(high, low) = Q(n2, d2)
  BY <1>1, <1>3 DEF Minus
<1>5. PICK a \in Quotients : a = Minus(x, low) /\ a.n * d1 = n1 * a.d
  BY <1>4, QuotientIs
<1>6. PICK s \in Quotients : s = Minus(high, low) /\ s.n * d2 = n2 * s.d
  BY <1>4, QuotientIs
<1>7. PICK an \in Int, ad \in Nat \ {0}, sn \in Int, sd \in Nat \ {0} :
        an = a.n /\ ad = a.d /\ sn = s.n /\ sd = s.d
  BY PartsOf
<1>8. an * d1 = n1 * ad /\ sn * d2 = n2 * sd
  BY <1>5, <1>6, <1>7
<1>9. 0 <= n1
  <2>1. ln * xd \in Int /\ xn * ld \in Int
    OBVIOUS
  <2> QED  BY <1>2, <1>3, <2>1
<1>10. 0 <= an
  BY <1>8, <1>9, SignKept
<1>11. n1 * d2 <= n2 * d1
  <2>1. (xn * hd) * (ld * ld) <= (hn * xd) * (ld * ld)
    <3>1. ld * ld \in Nat /\ xn * hd \in Int /\ hn * xd \in Int
      OBVIOUS
    <3> QED  BY <1>2, <3>1, MultiplyBoth
  <2>2. /\ n1 * d2 = (xn * hd) * (ld * ld) - (ln * xd) * (hd * ld)
        /\ n2 * d1 = (hn * xd) * (ld * ld) - (ln * xd) * (hd * ld)
    BY <1>3, Differences
  <2>3. /\ (xn * hd) * (ld * ld) \in Int /\ (hn * xd) * (ld * ld) \in Int
        /\ (ln * xd) * (hd * ld) \in Int
    OBVIOUS
  <2> QED  BY <2>1, <2>2, <2>3
<1>12. an * d2 <= n2 * ad
  <2>1. an * d1 <= n1 * ad
    <3>1. an * d1 \in Int
      OBVIOUS
    <3> QED  BY <1>8, <3>1
  <2> QED  BY <1>11, <2>1, Across
<1>13. an * sd <= sn * ad
  <2>1. n2 * sd <= sn * d2
    <3>1. sn * d2 \in Int
      OBVIOUS
    <3> QED  BY <1>8, <3>1
  <2> QED  BY <1>12, <2>1, Across
<1>14. AtMost(a, s)
  BY <1>7, <1>13 DEF AtMost
<1> QED  BY <1>5, <1>6, <1>7, <1>10, <1>14

\* A hundred times a fraction over one at least as large is within 0 and 100.
LEMMA HundredTimes ==
  ASSUME NEW an \in Int, NEW ad \in Nat \ {0}, NEW sn \in Nat \ {0}, NEW sd \in Nat \ {0},
         0 <= an, an * sd <= sn * ad
  PROVE  /\ 100 * an * sd \in Int /\ ad * sn \in Nat \ {0}
         /\ 0 <= 100 * an * sd /\ 100 * an * sd <= 100 * (ad * sn)
<1>1. 0 * sd <= an * sd
  BY MultiplyBoth
<1>2. PICK p \in Int : p = an * sd
  OBVIOUS
<1>3. PICK r \in Nat \ {0} : r = ad * sn /\ r = sn * ad
  BY ProductType
<1>4. 100 * an * sd = 100 * p /\ 0 * sd = 0
  BY <1>2
<1> QED  BY <1>1, <1>2, <1>3, <1>4

\* The place of a value between the lowest and the highest of its window is within 0 and 100.
LEMMA StochasticWithin ==
  ASSUME NEW window, IsFiniteSet(window), window \subseteq Quotients, NEW value \in window
  PROVE  Within(Stochastic(value, window), 100)
<1>1. PICK low, high :
        /\ low = Lowest(window) /\ high = Highest(window)
        /\ low \in window /\ high \in window /\ AtMost(low, value) /\ AtMost(value, high)
        /\ AtMost(low, high)
  BY LowestIs
<1>2. low \in Quotients /\ high \in Quotients /\ value \in Quotients
  BY <1>1
<1>3. PICK above, span : above = Minus(value, low) /\ span = Minus(high, low)
  OBVIOUS
<1>4. above \in Quotients /\ span \in Quotients /\ 0 <= above.n /\ AtMost(above, span)
  BY <1>1, <1>2, <1>3, AboveLowest
<1>5. 0 <= span.n
  BY <1>1, <1>2, <1>3, <1>4, AboveLowest, NotLess
<1>6. Stochastic(value, window) =
        IF span.n = 0 THEN Zero ELSE Q(100 * above.n * span.d, above.d * span.n)
  BY <1>1, <1>3 DEF Stochastic
<1>7. CASE span.n = 0
  <2>1. PICK zd \in Nat \ {0} : zd = Zero.d
    BY ZeroIs, PartsOf
  <2>2. 0 <= 100 * zd
    OBVIOUS
  <2>3. Within(Zero, 100)
    BY <2>1, <2>2, ZeroIs DEF Within
  <2> QED  BY <1>6, <1>7, <2>3
<1>8. CASE span.n # 0
  <2>1. PICK an \in Int, ad \in Nat \ {0}, sn \in Int, sd \in Nat \ {0} :
          an = above.n /\ ad = above.d /\ sn = span.n /\ sd = span.d
    BY <1>4, PartsOf
  <2>2. sn \in Nat \ {0} /\ 0 <= an /\ an * sd <= sn * ad
    BY <1>4, <1>5, <1>8, <2>1 DEF AtMost
  <2>3. /\ 100 * an * sd \in Int /\ ad * sn \in Nat \ {0}
        /\ 0 <= 100 * an * sd /\ 100 * an * sd <= 100 * (ad * sn)
    BY <2>2, HundredTimes
  <2>4. Within(Q(100 * an * sd, ad * sn), 100)
    BY <2>3, QuotientWithin
  <2> QED  BY <1>6, <1>8, <2>1, <2>4
<1> QED  BY <1>7, <1>8

\* A window has a positive length.
LEMMA LengthOf ==
  ASSUME NEW key \in {"rsi", "stoch", "k", "d", "fast", "slow", "signal", "trend", "atr", "volume"}
  PROVE  Lengths[key] \in Nat \ {0}
BY LengthsAssumption

\* The windows of the engine.
LEMMA LengthsAre ==
  /\ Lengths.rsi \in Nat \ {0} /\ Lengths.stoch \in Nat \ {0}
  /\ Lengths.k \in Nat \ {0} /\ Lengths.d \in Nat \ {0}
  /\ Lengths.fast \in Nat \ {0} /\ Lengths.slow \in Nat \ {0} /\ Lengths.fast <= Lengths.slow
  /\ Lengths.signal \in Nat \ {0} /\ Lengths.trend \in Nat \ {0}
  /\ Lengths.atr \in Nat \ {0} /\ Lengths.volume \in Nat \ {0}
BY LengthsAssumption

Series(s, n, V) == s = [i \in 1 .. n |-> s[i]] /\ \A i \in 1 .. n : s[i] \in V

\* The larger of two integers.
LEMMA LargerIs ==
  ASSUME NEW a \in Int, NEW b \in Int
  PROVE  /\ Larger(a, b) \in Int /\ a <= Larger(a, b) /\ b <= Larger(a, b)
         /\ Larger(a, b) = a \/ Larger(a, b) = b
BY DEF Larger

\* A share of a positive total is within 0 and 100.
LEMMA ShareOfTotal ==
  ASSUME NEW gain \in Nat, NEW loss \in Nat, gain + loss # 0
  PROVE  Within(Q(100 * gain, gain + loss), 100)
<1>1. 100 * gain \in Int /\ gain + loss \in Nat \ {0} /\ 0 <= 100 * gain
      /\ 100 * gain <= 100 * (gain + loss) /\ 100 \in Nat
  OBVIOUS
<1> QED  BY <1>1, QuotientWithin

\* Zero is within 0 and 100.
LEMMA ZeroWithin == Within(Zero, 100)
<1>1. PICK zd \in Nat \ {0} : zd = Zero.d
  BY ZeroIs, PartsOf
<1>2. 0 <= 100 * zd
  OBVIOUS
<1> QED  BY <1>1, <1>2, ZeroIs DEF Within

\* The sum over a window of a series of natural numbers.
LEMMA WindowSum ==
  ASSUME NEW f, NEW a \in Int, NEW b \in Int, \A i \in a .. b : f[i] \in Nat
  PROVE  SumOf(a, b, f) \in Nat
<1>1. IsFiniteSet(a .. b)
  BY FS_Interval
<1> QED  BY <1>1, SumNatural DEF SumOf

\* The RSI is there from the first candle after its window on, and within 0 and 100.
LEMMA RsiFilled ==
  ASSUME NEW closes, NEW n \in Nat, Series(closes, n, Int)
  PROVE  Filled([i \in 1 .. n |-> Rsi(closes, i)], n, Lengths.rsi + 1, 100)
<1>1. Lengths.rsi \in Nat \ {0}
  BY LengthsAre
<1>2. ASSUME NEW i \in 1 .. n, i < Lengths.rsi + 1 PROVE Rsi(closes, i) = None
  BY <1>2 DEF Rsi
<1>3. ASSUME NEW i \in 1 .. n, i >= Lengths.rsi + 1 PROVE Within(Rsi(closes, i), 100)
  <2>1. PICK gains, losses :
          /\ gains = [j \in 2 .. i |-> Larger(closes[j] - closes[j - 1], 0)]
          /\ losses = [j \in 2 .. i |-> Larger(closes[j - 1] - closes[j], 0)]
    OBVIOUS
  <2>2. PICK a \in Int : a = i - Lengths.rsi + 1
    BY <1>1
  <2>3. ASSUME NEW j \in a .. i PROVE gains[j] \in Nat /\ losses[j] \in Nat
    <3>1. j \in 2 .. i /\ j \in 1 .. n /\ j - 1 \in 1 .. n
      BY <1>1, <1>3, <2>2
    <3>2. closes[j] - closes[j - 1] \in Int /\ closes[j - 1] - closes[j] \in Int
      BY <3>1 DEF Series
    <3>3. /\ Larger(closes[j] - closes[j - 1], 0) \in Nat
          /\ Larger(closes[j - 1] - closes[j], 0) \in Nat
      BY <3>2 DEF Larger
    <3> QED  BY <2>1, <3>1, <3>3
  <2>4. PICK gain \in Nat, loss \in Nat : gain = SumOf(a, i, gains) /\ loss = SumOf(a, i, losses)
    BY <2>3, WindowSum
  <2>5. Rsi(closes, i) = IF gain + loss = 0 THEN Zero ELSE Q(100 * gain, gain + loss)
    <3>1. ~ (i < Lengths.rsi + 1)
      BY <1>1, <1>3
    <3> QED  BY <2>1, <2>2, <2>4, <3>1 DEF Rsi
  <2> QED  BY <2>5, ShareOfTotal, ZeroWithin
<1> QED  BY <1>2, <1>3 DEF Filled

\* The raw stochastic RSI is there from the end of its first window on, and within 0 and 100.
LEMMA RawFilled ==
  ASSUME NEW rsi, NEW n \in Nat, NEW start \in Nat \ {0}, Filled(rsi, n, start, 100)
  PROVE  Filled(RawStochRsi(rsi), n, start + Lengths.stoch - 1, 100)
<1> DEFINE raw == RawStochRsi(rsi)
           stoch == Lengths.stoch
           Window(i) == {rsi[j] : j \in Larger(1, i - Lengths.stoch + 1) .. i}
<1>1. stoch \in Nat \ {0}
  BY LengthsAre
<1>2. DOMAIN rsi = 1 .. n
  BY DEF Filled
<1>3. raw = [i \in 1 .. n |-> IF i < stoch \/ None \in Window(i) THEN None
                              ELSE Stochastic(rsi[i], Window(i))]
  BY <1>2 DEF RawStochRsi
<1>4. ASSUME NEW i \in 1 .. n, i >= stoch
      PROVE  Window(i) = {rsi[j] : j \in i - stoch + 1 .. i}
  <2>1. Larger(1, i - stoch + 1) = i - stoch + 1
    BY <1>1, <1>4 DEF Larger
  <2> QED  BY <2>1
<1> HIDE DEF Window, stoch
<1>5. ASSUME NEW i \in 1 .. n, i < start + stoch - 1 PROVE raw[i] = None
  <2>1. CASE i < stoch
    BY <1>3, <2>1
  <2>2. CASE i >= stoch
    <3>1. PICK j : j = i - stoch + 1
      OBVIOUS
    <3>2. j \in 1 .. n /\ j < start /\ j \in i - stoch + 1 .. i
      BY <1>1, <1>5, <2>2, <3>1
    <3>3. rsi[j] = None
      BY <3>2 DEF Filled
    <3>4. None \in Window(i)
      BY <1>4, <2>2, <3>2, <3>3
    <3> QED  BY <1>3, <3>4
  <2> QED  BY <1>1, <2>1, <2>2
<1>6. ASSUME NEW i \in 1 .. n, i >= start + stoch - 1 PROVE Within(raw[i], 100)
  <2>1. i >= stoch /\ i \in i - stoch + 1 .. i
    BY <1>1, <1>6
  <2>2. Window(i) = {rsi[j] : j \in i - stoch + 1 .. i}
    BY <1>4, <2>1
  <2>3. ASSUME NEW j \in i - stoch + 1 .. i PROVE Within(rsi[j], 100)
    <3>1. j \in 1 .. n /\ j >= start
      BY <1>1, <1>6
    <3> QED  BY <3>1 DEF Filled
  <2>4. Window(i) \subseteq Quotients /\ None \notin Window(i) /\ rsi[i] \in Window(i)
    <3>1. \A j \in i - stoch + 1 .. i : rsi[j] \in Quotients /\ rsi[j] # None
      BY <2>3, WithinIsSome DEF Within
    <3> QED  BY <2>1, <2>2, <3>1
  <2>5. IsFiniteSet(Window(i))
    <3>1. PICK from \in Int : from = i - stoch + 1
      BY <1>1
    <3>2. IsFiniteSet(from .. i)
      BY FS_Interval
    <3>3. Window(i) = {rsi[j] : j \in from .. i}
      BY <2>2, <3>1
    <3> QED  BY <3>2, <3>3, ImageFinite
  <2>6. raw[i] = Stochastic(rsi[i], Window(i))
    <3>1. ~ (i < stoch)
      BY <1>1, <2>1
    <3> QED  BY <1>3, <2>4, <3>1
  <2> QED  BY <2>4, <2>5, <2>6, StochasticWithin
<1>7. raw = [i \in 1 .. n |-> raw[i]]
  BY <1>3
<1> HIDE DEF raw
<1>8. Filled(raw, n, start + stoch - 1, 100)
  BY <1>5, <1>6, <1>7 DEF Filled
<1> QED  BY <1>8 DEF raw, stoch

\* A series is a sequence.
LEMMA SeriesLast ==
  ASSUME NEW s, NEW n \in Nat, s = [i \in 1 .. n |-> s[i]]
  PROVE  Len(s) = n /\ Last(s) = s[n]
<1>1. Len(s) = n
  OBVIOUS
<1> QED  BY <1>1 DEF Last

\* The stochastic RSI is there when there are candles enough, and within its scale.
LEMMA StochRsiIs ==
  ASSUME NEW closes, NEW n \in Nat \ {0}, Series(closes, n, Int),
         NEW stoch, stoch = StochRsi(closes), NEW from,
         from = Lengths.rsi + Lengths.stoch + Lengths.k - 1
  PROVE  /\ n < from => stoch.k = None
         /\ n >= from => Within(stoch.k, 100)
         /\ n < from + Lengths.d - 1 => stoch.d = None
         /\ n >= from + Lengths.d - 1 => Within(stoch.d, 100)
<1>1. PICK r \in Nat \ {0}, s \in Nat \ {0}, kl \in Nat \ {0}, dl \in Nat \ {0} :
        r = Lengths.rsi /\ s = Lengths.stoch /\ kl = Lengths.k /\ dl = Lengths.d
  BY LengthsAre
<1>2. PICK rsi, raw, k, d :
        /\ rsi = [i \in 1 .. n |-> Rsi(closes, i)] /\ raw = RawStochRsi(rsi)
        /\ k = Average(raw, kl) /\ d = Average(k, dl)
  OBVIOUS
<1>3. Filled(rsi, n, r + 1, 100)
  BY <1>1, <1>2, RsiFilled
<1>4. Filled(raw, n, (r + 1) + s - 1, 100)
  BY <1>1, <1>2, <1>3, RawFilled
<1>5. PICK a \in Nat \ {0} : a = (r + 1) + s - 1
  OBVIOUS
<1>6. PICK b \in Nat \ {0} : b = a + kl - 1 /\ b = from /\ Filled(k, n, b, 100)
  <2>1. Filled(raw, n, a, 100) /\ 100 \in Nat
    BY <1>4, <1>5
  <2>2. Filled(Average(raw, kl), n, a + kl - 1, 100)
    BY <2>1, AverageFilled
  <2>3. a + kl - 1 \in Nat \ {0} /\ a + kl - 1 = from
    BY <1>1, <1>5
  <2> QED  BY <1>2, <2>2, <2>3
<1>7. PICK c \in Nat \ {0} : c = from + Lengths.d - 1 /\ Filled(d, n, c, 100)
  <2>1. Filled(Average(k, dl), n, b + dl - 1, 100)
    <3>1. 100 \in Nat
      OBVIOUS
    <3> QED  BY <1>6, <3>1, AverageFilled
  <2>2. b + dl - 1 \in Nat \ {0} /\ b + dl - 1 = from + Lengths.d - 1
    BY <1>1, <1>6
  <2> QED  BY <1>2, <2>1, <2>2
<1>8. stoch = [k |-> Last(k), d |-> Last(d)]
  <2>1. DOMAIN closes = 1 .. n
    BY DEF Series
  <2> QED  BY <1>1, <1>2, <2>1 DEF StochRsi
<1>9. Last(k) = k[n] /\ Last(d) = d[n]
  <2>1. k = [i \in 1 .. n |-> k[i]] /\ d = [i \in 1 .. n |-> d[i]]
    BY <1>6, <1>7 DEF Filled
  <2> QED  BY <2>1, SeriesLast
<1>10. n \in 1 .. n
  OBVIOUS
<1>11. stoch.k = k[n] /\ stoch.d = d[n]
  BY <1>8, <1>9
<1> QED  BY <1>6, <1>7, <1>10, <1>11 DEF Filled

-----------------------------------------------------------------------------
(* The exponential averages, and of prices upside down.                    *)

\* The length of a series and its last value.
LEMMA SeriesLength ==
  ASSUME NEW s, NEW n \in Nat, NEW V, Series(s, n, V)
  PROVE  Len(s) = n /\ DOMAIN s = 1 .. n /\ Last(s) = s[n]
<1>1. s = [i \in 1 .. n |-> s[i]]
  BY DEF Series
<1>2. DOMAIN s = 1 .. n
  BY <1>1
<1> QED  BY <1>1, <1>2, SeriesLast

IsEma(e, values, n, period) ==
  /\ e \in [period .. n -> Quotients]
  /\ e[period] = Times(Totals(values, 0, period)[period], Q(1, period))
  /\ \A i \in period + 1 .. n :
       e[i] = Plus(Times(Minus(values[i], e[i - 1]), Q(2, period + 1)), e[i - 1])

\* The first total is a quotient, and so is the share of it.
LEMMA SeedType ==
  ASSUME NEW values, NEW period \in Nat \ {0}, \A i \in 1 .. period : values[i] \in Quotients
  PROVE  /\ Totals(values, 0, period)[period] \in Quotients
         /\ Q(1, period) \in Quotients /\ Q(2, period + 1) \in Quotients
         /\ Times(Totals(values, 0, period)[period], Q(1, period)) \in Quotients
<1>1. PICK zero \in Int : zero = 0 /\ \A i \in zero + 1 .. period : values[i] \in Quotients
  OBVIOUS
<1>2. IsTotal(Totals(values, zero, period), values, zero, period)
  BY <1>1, TotalsUnfold
<1>3. Totals(values, 0, period)[period] \in Quotients
  BY <1>1, <1>2 DEF IsTotal
<1>4. Q(1, period) \in Quotients /\ Q(2, period + 1) \in Quotients
  <2>1. 1 \in Int /\ 2 \in Int /\ period + 1 \in Nat \ {0}
    OBVIOUS
  <2> QED  BY <2>1, QuotientIs
<1> QED  BY <1>3, <1>4, ArithmeticType

Smoother(value, period, previous) ==
  Plus(Times(Minus(value, previous), Q(2, period + 1)), previous)

\* The exponential average of a series, by its equation.
LEMMA SmoothedUnfolds ==
  ASSUME NEW n \in Nat, NEW values, Series(values, n, Quotients), NEW period \in 1 .. n
  PROVE  IsEma(Smoothed(values, period), values, n, period)
<1> DEFINE seed == Times(Totals(values, 0, period)[period], Q(1, period))
           step == [z \in (period + 1 .. n) \X Quotients |-> Smoother(values[z[1]], period, z[2])]
           Is(e) == e = [i \in period .. n |->
                           IF i = period THEN seed ELSE Smoother(values[i], period, e[i - 1])]
           it == CHOOSE e : Is(e)
<1>1. seed \in Quotients /\ Q(2, period + 1) \in Quotients
  <2>1. period \in Nat \ {0} /\ \A i \in 1 .. period : values[i] \in Quotients
    BY DEF Series
  <2> QED  BY <2>1, SeedType
<1> HIDE DEF seed
<1>2. ASSUME NEW i \in period + 1 .. n, NEW v \in Quotients
      PROVE  Smoother(values[i], period, v) \in Quotients
  <2>1. values[i] \in Quotients
    BY DEF Series
  <2>2. Minus(values[i], v) \in Quotients
    BY <2>1, ArithmeticType
  <2>3. Times(Minus(values[i], v), Q(2, period + 1)) \in Quotients
    BY <1>1, <2>2, ArithmeticType
  <2> QED  BY <2>3, ArithmeticType DEF Smoother
<1>3. ASSUME NEW i \in period + 1 .. n, NEW v \in Quotients
      PROVE  step[<<i, v>>] = Smoother(values[i], period, v)
  OBVIOUS
<1> HIDE DEF step
<1>4. PICK f : Steps(f, period, n, Quotients, seed, step)
  <2>1. period \in Int /\ n \in Int
    OBVIOUS
  <2>2. ASSUME NEW i \in period + 1 .. n, NEW v \in Quotients PROVE step[<<i, v>>] \in Quotients
    <3>1. PICK w \in Quotients : w = Smoother(values[i], period, v)
      BY <1>2
    <3>2. step[<<i, v>>] = w
      BY <1>3, <3>1
    <3> QED  BY <3>2
  <2> QED  BY <1>1, <2>1, <2>2, IntervalFunction
<1>5. ASSUME NEW i \in period .. n
      PROVE  f[i] = IF i = period THEN seed ELSE Smoother(values[i], period, f[i - 1])
  <2>1. i # period => i \in period + 1 .. n /\ f[i - 1] \in Quotients
    BY <1>4 DEF Steps
  <2> QED  BY <1>3, <1>4, <2>1 DEF Steps
<1>6. Is(f)
  BY <1>4, <1>5 DEF Steps
<1>7. Is(it)
  <2> HIDE DEF Is
  <2> QED  BY <1>6
<1>8. Smoothed(values, period) = it
  <2>1. Len(values) = n
    BY SeriesLength
  <2> QED  BY <2>1 DEF Smoothed, seed, Smoother
<1> HIDE DEF it
<1>9. it \in [period .. n -> Quotients]
  <2> DEFINE Good == {i \in period .. n : it[i] \in Quotients}
  <2>1. ASSUME NEW i \in period + 1 .. n, i - 1 \in Good PROVE i \in Good
    <3>1. it[i] = Smoother(values[i], period, it[i - 1]) /\ i \in period .. n
      BY <1>7
    <3> QED  BY <1>2, <2>1, <3>1
  <2>2. period \in Good
    BY <1>1, <1>7
  <2> HIDE DEF Good
  <2>3. period .. n \subseteq Good
    BY <2>1, <2>2, IntervalOneByOne
  <2>4. \A i \in period .. n : it[i] \in Quotients
    BY <2>3 DEF Good
  <2> QED  BY <1>7, <2>4
<1>10. /\ it[period] = seed
       /\ \A i \in period + 1 .. n : it[i] = Smoother(values[i], period, it[i - 1])
  BY <1>7
<1> QED  BY <1>8, <1>9, <1>10 DEF IsEma, seed, Smoother

\* A series upside down.
NegativeSeries(s, n) == [i \in 1 .. n |-> Negative(s[i])]

\* A series upside down is a series.
LEMMA NegativeSeriesType ==
  ASSUME NEW s, NEW n \in Nat, Series(s, n, Quotients)
  PROVE  Series(NegativeSeries(s, n), n, Quotients)
<1>1. \A i \in 1 .. n : Negative(s[i]) \in Quotients
  BY NegativeType DEF Series
<1> QED  BY <1>1 DEF NegativeSeries, Series

\* Zero is its own opposite.
LEMMA ZeroNegated == Negative(Zero) = Zero
BY ZeroIs DEF Negative, Quotients

\* The totals of a series upside down are the opposite totals.
LEMMA TotalsNegated ==
  ASSUME NEW from \in Int, NEW to \in Int, NEW values, NEW turned,
         \A i \in from + 1 .. to : values[i] \in Quotients /\ turned[i] = Negative(values[i]),
         NEW j \in from .. to
  PROVE  Totals(turned, from, to)[j] = Negative(Totals(values, from, to)[j])
<1>1. PICK t, u : t = Totals(values, from, to) /\ u = Totals(turned, from, to)
  OBVIOUS
<1>2. IsTotal(t, values, from, to) /\ IsTotal(u, turned, from, to)
  BY <1>1, TotalsUnfold, NegativeType
<1> DEFINE Good == {i \in from .. to : u[i] = Negative(t[i])}
<1>3. from \in Good
  BY <1>2, ZeroNegated DEF IsTotal
<1>4. ASSUME NEW i \in from + 1 .. to, i - 1 \in Good PROVE i \in Good
  <2>1. i \in from .. to /\ i # from
    OBVIOUS
  <2>2. t[i] = Plus(t[i - 1], values[i]) /\ u[i] = Plus(u[i - 1], turned[i])
    BY <1>2, <2>1 DEF IsTotal
  <2>3. t[i - 1] \in Quotients /\ values[i] \in Quotients
    BY <1>2 DEF IsTotal
  <2>4. u[i - 1] = Negative(t[i - 1]) /\ turned[i] = Negative(values[i])
    BY <1>4
  <2> QED  BY <2>1, <2>2, <2>3, <2>4, ArithmeticNegated
<1> HIDE DEF Good
<1>5. from .. to \subseteq Good
  BY <1>3, <1>4, IntervalOneByOne
<1> QED  BY <1>1, <1>5 DEF Good

\* The exponential average of a series upside down is the opposite average.
LEMMA SmoothedNegated ==
  ASSUME NEW n \in Nat, NEW values, Series(values, n, Quotients), NEW period \in 1 .. n,
         NEW j \in period .. n
  PROVE  Smoothed(NegativeSeries(values, n), period)[j] = Negative(Smoothed(values, period)[j])
<1>1. PICK turned, e, f :
        /\ turned = NegativeSeries(values, n)
        /\ e = Smoothed(values, period) /\ f = Smoothed(turned, period)
  OBVIOUS
<1>2. IsEma(e, values, n, period) /\ IsEma(f, turned, n, period)
  BY <1>1, NegativeSeriesType, SmoothedUnfolds
<1>3. PICK third \in Quotients : third = Q(2, period + 1)
  <2>1. 2 \in Int /\ period + 1 \in Nat \ {0}
    OBVIOUS
  <2> QED  BY <2>1, QuotientIs
<1>4. \A i \in 1 .. n : values[i] \in Quotients /\ turned[i] = Negative(values[i])
  BY <1>1 DEF NegativeSeries, Series
<1> DEFINE Good == {i \in period .. n : f[i] = Negative(e[i])}
<1>5. period \in Good
  <2>1. PICK zero \in Int :
          /\ zero = 0 /\ period \in zero .. period
          /\ \A i \in zero + 1 .. period :
               values[i] \in Quotients /\ turned[i] = Negative(values[i])
    BY <1>4
  <2>2. Totals(turned, zero, period)[period] = Negative(Totals(values, zero, period)[period])
    BY <2>1, TotalsNegated
  <2>3. Totals(values, 0, period)[period] \in Quotients /\ Q(1, period) \in Quotients
    <3>1. period \in Nat \ {0} /\ \A i \in 1 .. period : values[i] \in Quotients
      BY <1>4
    <3> QED  BY <3>1, SeedType
  <2>4. Times(Negative(Totals(values, 0, period)[period]), Q(1, period))
          = Negative(Times(Totals(values, 0, period)[period], Q(1, period)))
    BY <2>3, ArithmeticNegated
  <2>5. f[period] = Negative(e[period])
    BY <1>2, <2>1, <2>2, <2>4 DEF IsEma
  <2> QED  BY <2>5
<1>6. ASSUME NEW i \in period + 1 .. n, i - 1 \in Good PROVE i \in Good
  <2>1. PICK v, w, x : v = e[i - 1] /\ w = f[i - 1] /\ x = values[i]
    OBVIOUS
  <2>2. v \in Quotients /\ x \in Quotients /\ w = Negative(v) /\ turned[i] = Negative(x)
    BY <1>2, <1>4, <1>6, <2>1 DEF IsEma
  <2>3. e[i] = Plus(Times(Minus(x, v), third), v)
    BY <1>2, <1>3, <2>1 DEF IsEma
  <2>4. f[i] = Plus(Times(Minus(Negative(x), Negative(v)), third), Negative(v))
    BY <1>2, <1>3, <2>1, <2>2 DEF IsEma
  <2>5. PICK m \in Quotients : m = Minus(x, v) /\ Minus(Negative(x), Negative(v)) = Negative(m)
    BY <2>2, ArithmeticType, ArithmeticNegated
  <2>6. PICK p \in Quotients : p = Times(m, third) /\ Times(Negative(m), third) = Negative(p)
    BY ArithmeticType, ArithmeticNegated
  <2>7. Plus(Negative(p), Negative(v)) = Negative(Plus(p, v))
    BY <2>2, ArithmeticNegated
  <2>8. f[i] = Negative(e[i])
    BY <2>3, <2>4, <2>5, <2>6, <2>7
  <2> QED  BY <2>8
<1> HIDE DEF Good
<1>7. period .. n \subseteq Good
  BY <1>5, <1>6, IntervalOneByOne
<1> QED  BY <1>1, <1>7 DEF Good

\* The exponential average of a series, and of the series upside down.
EmaTurns(e, f, n, period) ==
  /\ e = [i \in 1 .. n |-> e[i]] /\ f = [i \in 1 .. n |-> f[i]]
  /\ \A i \in 1 .. n : /\ i < period => e[i] = None /\ f[i] = None
                       /\ i >= period => e[i] \in Quotients /\ f[i] = Negative(e[i])
LEMMA EmaNegated ==
  ASSUME NEW n \in Nat, NEW values, Series(values, n, Quotients), NEW period \in Nat \ {0}
  PROVE  EmaTurns(Ema(values, period), Ema(NegativeSeries(values, n), period), n, period)
<1>1. PICK turned, e, f :
        /\ turned = NegativeSeries(values, n)
        /\ e = Ema(values, period) /\ f = Ema(turned, period)
  OBVIOUS
<1>2. DOMAIN values = 1 .. n /\ DOMAIN turned = 1 .. n
  BY <1>1, NegativeSeriesType, SeriesLength
<1>3. /\ e = [i \in 1 .. n |-> IF i < period THEN None ELSE Smoothed(values, period)[i]]
      /\ f = [i \in 1 .. n |-> IF i < period THEN None ELSE Smoothed(turned, period)[i]]
  BY <1>1, <1>2 DEF Ema
<1>4. ASSUME NEW i \in 1 .. n, i >= period
      PROVE  e[i] \in Quotients /\ f[i] = Negative(e[i])
  <2>1. period \in 1 .. n /\ i \in period .. n /\ ~ (i < period)
    BY <1>4
  <2>2. Smoothed(values, period)[i] \in Quotients
    BY <2>1, SmoothedUnfolds DEF IsEma
  <2>3. Smoothed(turned, period)[i] = Negative(Smoothed(values, period)[i])
    BY <1>1, <2>1, SmoothedNegated
  <2> QED  BY <1>3, <2>1, <2>2, <2>3
<1>5. EmaTurns(e, f, n, period)
  BY <1>3, <1>4 DEF EmaTurns
<1> QED  BY <1>1, <1>5

Prices(closes, n) == [i \in 1 .. n |-> Q(closes[i], 1)]
Line(prices, n) ==
  [i \in 1 .. n - Lengths.slow + 1 |->
     Minus(Ema(prices, Lengths.fast)[i + Lengths.slow - 1],
           Ema(prices, Lengths.slow)[i + Lengths.slow - 1])]
NegativeCloses(closes, n) == [i \in 1 .. n |-> -closes[i]]

\* The prices are a series, and upside down the series of the opposite prices.
LEMMA PricesAre ==
  ASSUME NEW closes, NEW n \in Nat, Series(closes, n, Int)
  PROVE  /\ Series(Prices(closes, n), n, Quotients)
         /\ Series(NegativeCloses(closes, n), n, Int)
         /\ Prices(NegativeCloses(closes, n), n) = NegativeSeries(Prices(closes, n), n)
<1>1. \A i \in 1 .. n : closes[i] \in Int /\ -closes[i] \in Int
  BY DEF Series
<1>2. \A i \in 1 .. n : Q(closes[i], 1) \in Quotients
  <2>1. 1 \in Nat \ {0}
    OBVIOUS
  <2> QED  BY <1>1, <2>1, QuotientIs
<1>3. \A i \in 1 .. n : Q(-closes[i], 1) = Negative(Q(closes[i], 1))
  <2>1. 1 \in Nat \ {0}
    OBVIOUS
  <2> QED  BY <1>1, <2>1, QuotientNegated
<1>4. \A i \in 1 .. n : NegativeCloses(closes, n)[i] = -closes[i]
  BY DEF NegativeCloses
<1>5. \A i \in 1 .. n : Prices(closes, n)[i] = Q(closes[i], 1)
  BY DEF Prices
<1>6. Series(Prices(closes, n), n, Quotients)
  BY <1>2, <1>5 DEF Series, Prices
<1>7. Series(NegativeCloses(closes, n), n, Int)
  BY <1>1, <1>4 DEF Series, NegativeCloses
<1>8. Prices(NegativeCloses(closes, n), n) = [i \in 1 .. n |-> Q(-closes[i], 1)]
  BY <1>4 DEF Prices
<1>9. NegativeSeries(Prices(closes, n), n) = [i \in 1 .. n |-> Negative(Q(closes[i], 1))]
  BY <1>5 DEF NegativeSeries
<1> QED  BY <1>3, <1>6, <1>7, <1>8, <1>9

\* The line of the MACD turns with the prices.
LEMMA LineTurns ==
  ASSUME NEW prices, NEW n \in Nat, Series(prices, n, Quotients), NEW m,
         m = n - Lengths.slow + 1
  PROVE  /\ Series(Line(prices, n), m, Quotients)
         /\ Line(NegativeSeries(prices, n), n) = NegativeSeries(Line(prices, n), m)
<1>1. PICK fast \in Nat \ {0}, slow \in Nat \ {0} :
        fast = Lengths.fast /\ slow = Lengths.slow /\ fast <= slow
  BY LengthsAre
<1>2. PICK turned, e, f, g, h :
        /\ turned = NegativeSeries(prices, n)
        /\ e = Ema(prices, fast) /\ f = Ema(turned, fast)
        /\ g = Ema(prices, slow) /\ h = Ema(turned, slow)
  OBVIOUS
<1>3. EmaTurns(e, f, n, fast) /\ EmaTurns(g, h, n, slow)
  BY <1>2, EmaNegated
<1>4. /\ Line(prices, n) = [i \in 1 .. m |-> Minus(e[i + slow - 1], g[i + slow - 1])]
      /\ Line(turned, n) = [i \in 1 .. m |-> Minus(f[i + slow - 1], h[i + slow - 1])]
  BY <1>1, <1>2 DEF Line
<1>5. ASSUME NEW i \in 1 .. m
      PROVE  /\ Minus(e[i + slow - 1], g[i + slow - 1]) \in Quotients
             /\ Minus(f[i + slow - 1], h[i + slow - 1])
                  = Negative(Minus(e[i + slow - 1], g[i + slow - 1]))
  <2>1. PICK j \in 1 .. n : j = i + slow - 1 /\ j >= fast /\ j >= slow
    BY <1>1
  <2>2. e[j] \in Quotients /\ g[j] \in Quotients /\ f[j] = Negative(e[j]) /\ h[j] = Negative(g[j])
    BY <1>3, <2>1 DEF EmaTurns
  <2>3. Minus(e[j], g[j]) \in Quotients /\ Minus(f[j], h[j]) = Negative(Minus(e[j], g[j]))
    <3>1. PICK x \in Quotients, y \in Quotients : x = e[j] /\ y = g[j]
      BY <2>2
    <3>2. Minus(x, y) \in Quotients
      BY ArithmeticType
    <3>3. Minus(Negative(x), Negative(y)) = Negative(Minus(x, y))
      BY ArithmeticNegated
    <3> QED  BY <2>2, <3>1, <3>2, <3>3
  <2> QED  BY <2>1, <2>3
<1>6. Series(Line(prices, n), m, Quotients)
  BY <1>4, <1>5 DEF Series
<1>7. Line(turned, n) = NegativeSeries(Line(prices, n), m)
  BY <1>4, <1>5 DEF NegativeSeries
<1> QED  BY <1>2, <1>6, <1>7

\* The MACD and its signal, from the averages of the prices.
LEMMA MacdUnfolds ==
  ASSUME NEW closes, NEW n \in Nat, Series(closes, n, Int), n >= Lengths.slow,
         NEW m, m = n - Lengths.slow + 1, NEW line, line = Line(Prices(closes, n), n)
  PROVE  Macd(closes) = [macd |-> line[m], signal |-> Ema(line, Lengths.signal)[m]]
<1>1. PICK fast \in Nat \ {0}, slow \in Nat \ {0}, signal \in Nat \ {0} :
        fast = Lengths.fast /\ slow = Lengths.slow /\ fast <= slow /\ signal = Lengths.signal
  BY LengthsAre
<1>2. Len(closes) = n /\ DOMAIN closes = 1 .. n
  BY SeriesLength
<1>3. PICK prices : prices = Prices(closes, n) /\ Series(prices, n, Quotients)
  BY PricesAre
<1>4. m \in Nat \ {0}
  BY <1>1
<1>5. Series(line, m, Quotients) /\ Last(line) = line[m]
  BY <1>3, <1>4, LineTurns, SeriesLength
<1>6. PICK e : e = Ema(line, signal) /\ e = [i \in 1 .. m |-> e[i]]
  BY <1>4, <1>5, EmaNegated DEF EmaTurns
<1>7. Last(e) = e[m]
  BY <1>4, <1>6, SeriesLast
<1> DEFINE values == [i \in DOMAIN closes |-> Q(closes[i], 1)]
           a == Ema(values, Lengths.fast)
           b == Ema(values, Lengths.slow)
           macd == [i \in Lengths.slow .. Len(closes) |-> Minus(a[i], b[i])]
           compact == [i \in 1 .. Len(closes) - Lengths.slow + 1 |-> macd[i + Lengths.slow - 1]]
<1>8. Macd(closes) = IF Len(closes) < Lengths.slow THEN [macd |-> None, signal |-> None]
                     ELSE [macd |-> Last(compact), signal |-> Last(Ema(compact, Lengths.signal))]
  BY DEF Macd
<1>9. values = prices
  BY <1>2, <1>3 DEF Prices
<1> HIDE DEF values
<1>10. compact = line
  <2>1. ASSUME NEW i \in 1 .. n - slow + 1
        PROVE  macd[i + slow - 1] = Minus(a[i + slow - 1], b[i + slow - 1])
    <3>1. i + slow - 1 \in slow .. n
      BY <1>1
    <3> HIDE DEF a, b
    <3> QED  BY <1>1, <1>2, <3>1
  <2>2. compact = [i \in 1 .. n - slow + 1 |-> macd[i + slow - 1]]
    BY <1>1, <1>2
  <2>3. line = [i \in 1 .. n - slow + 1 |-> Minus(a[i + slow - 1], b[i + slow - 1])]
    BY <1>1, <1>3, <1>9 DEF Line
  <2> HIDE DEF compact, macd, a, b
  <2> QED  BY <2>1, <2>2, <2>3
<1> HIDE DEF compact
<1>11. Macd(closes) = [macd |-> Last(line), signal |-> Last(e)]
  <2>1. ~ (Len(closes) < Lengths.slow)
    BY <1>1, <1>2
  <2> QED  BY <1>1, <1>6, <1>8, <1>10, <2>1
<1> QED  BY <1>1, <1>5, <1>6, <1>7, <1>11

\* None stays None, a quotient turns.
Turns(a, b) == (a = None /\ b = None) \/ (a \in Quotients /\ b = Negative(a))

LEMMA MacdIs ==
  ASSUME NEW closes, NEW n \in Nat, Series(closes, n, Int),
         NEW a, a = Macd(closes), NEW b, b = Macd(NegativeCloses(closes, n))
  PROVE  /\ n < Lengths.slow => a.macd = None
         /\ n >= Lengths.slow => a.macd \in Quotients
         /\ n < Lengths.slow + Lengths.signal - 1 => a.signal = None
         /\ n >= Lengths.slow + Lengths.signal - 1 => a.signal \in Quotients
         /\ Turns(a.macd, b.macd) /\ Turns(a.signal, b.signal)
<1>1. PICK slow \in Nat \ {0}, signal \in Nat \ {0} : slow = Lengths.slow /\ signal = Lengths.signal
  BY LengthsAre
<1>2. PICK turned :
        turned = NegativeCloses(closes, n) /\ Series(turned, n, Int)
  BY PricesAre
<1>3. CASE n < slow
  <2>1. Len(closes) = n /\ Len(turned) = n
    BY <1>2, SeriesLength
  <2>2. a = [macd |-> None, signal |-> None] /\ b = [macd |-> None, signal |-> None]
    BY <1>1, <1>2, <1>3, <2>1 DEF Macd
  <2>3. a.macd = None /\ a.signal = None /\ b.macd = None /\ b.signal = None
    BY <2>2
  <2>4. n < slow + signal - 1
    BY <1>3
  <2> QED  BY <1>1, <1>3, <2>3, <2>4 DEF Turns
<1>4. CASE n >= slow
  <2>1. PICK m \in Nat \ {0} : m = n - slow + 1
    BY <1>4
  <2>2. PICK prices, line, back :
          /\ prices = Prices(closes, n) /\ line = Line(prices, n)
          /\ back = Line(Prices(turned, n), n)
    OBVIOUS
  <2>3. Series(prices, n, Quotients) /\ Prices(turned, n) = NegativeSeries(prices, n)
    BY <1>2, <2>2, PricesAre
  <2>4. Series(line, m, Quotients) /\ back = NegativeSeries(line, m)
    BY <1>1, <2>1, <2>2, <2>3, LineTurns
  <2>5. PICK e, f : e = Ema(line, signal) /\ f = Ema(back, signal) /\ EmaTurns(e, f, m, signal)
    BY <2>1, <2>4, EmaNegated
  <2>6. a = [macd |-> line[m], signal |-> e[m]]
    BY <1>1, <1>4, <2>1, <2>2, <2>5, MacdUnfolds
  <2>7. b = [macd |-> back[m], signal |-> f[m]]
    BY <1>1, <1>2, <1>4, <2>1, <2>2, <2>5, MacdUnfolds
  <2>8. line[m] \in Quotients /\ back[m] = Negative(line[m])
    BY <2>1, <2>4 DEF Series, NegativeSeries
  <2>9. /\ m < signal => e[m] = None /\ f[m] = None
        /\ m >= signal => e[m] \in Quotients /\ f[m] = Negative(e[m])
    BY <2>1, <2>5 DEF EmaTurns
  <2>10. a.macd = line[m] /\ a.signal = e[m] /\ b.macd = back[m] /\ b.signal = f[m]
    BY <2>6, <2>7
  <2>11. (m < signal <=> n < slow + signal - 1) /\ (m >= signal <=> n >= slow + signal - 1)
         /\ (m < signal \/ m >= signal)
    BY <2>1
  <2> QED  BY <1>1, <1>4, <2>8, <2>9, <2>10, <2>11 DEF Turns
<1> QED  BY <1>1, <1>3, <1>4

-----------------------------------------------------------------------------
(* The trend, and the trend of a prefix.                                   *)

\* The numbers of a candle.
LEMMA CandleParts ==
  ASSUME NEW c \in Candle
  PROVE  c.open \in Int /\ c.high \in Int /\ c.low \in Int /\ c.close \in Int /\ c.volume \in Nat
BY DEF Candle

\* The largest of three integers is an integer.
LEMMA MaxOfThree ==
  ASSUME NEW a \in Int, NEW b \in Int, NEW c \in Int
  PROVE  Max({a, b, c}) \in Int
<1>1. \E x \in {a, b, c} : \A y \in {a, b, c} : x >= y
  OBVIOUS
<1>2. Max({a, b, c}) \in {a, b, c}
  BY <1>1 DEF Max
<1> QED  BY <1>2

TrueRange(bars, i) ==
  Max({bars[i].high - bars[i].low, Abs(bars[i].high - bars[i - 1].close),
       Abs(bars[i].low - bars[i - 1].close)})

\* The true ranges of a window, added.
LEMMA TrueRangesAre ==
  ASSUME NEW bars, NEW i \in Nat, NEW length \in Nat \ {0}
  PROVE  TrueRanges(bars, i, length) =
           IF i < length + 1 THEN None
           ELSE SumOf(i - length + 1, i, [j \in 2 .. i |-> TrueRange(bars, j)])
BY DEF TrueRanges, TrueRange

\* The sum of the true ranges of a window is an integer.
LEMMA TrueRangesType ==
  ASSUME NEW bars, NEW n \in Nat, Series(bars, n, Candle), NEW i \in 1 .. n,
         NEW length \in Nat \ {0}
  PROVE  /\ i < length + 1 => TrueRanges(bars, i, length) = None
         /\ i >= length + 1 => TrueRanges(bars, i, length) \in Int
<1>1. ASSUME NEW j \in 2 .. i PROVE TrueRange(bars, j) \in Int
  <2>1. j \in 1 .. n /\ j - 1 \in 1 .. n
    OBVIOUS
  <2>2. bars[j] \in Candle /\ bars[j - 1] \in Candle
    BY <2>1 DEF Series
  <2>3. PICK h \in Int, l \in Int, c \in Int :
          h = bars[j].high /\ l = bars[j].low /\ c = bars[j - 1].close
    BY <2>2, CandleParts
  <2>4. h - l \in Int /\ Abs(h - c) \in Int /\ Abs(l - c) \in Int
    BY AbsIs
  <2> QED  BY <2>3, <2>4, MaxOfThree DEF TrueRange
<1>2. PICK f : f = [j \in 2 .. i |-> TrueRange(bars, j)]
  OBVIOUS
<1>3. PICK a \in Int : a = i - length + 1
  OBVIOUS
<1>4. i >= length + 1 => SumOf(a, i, f) \in Int
  <2>1. i >= length + 1 => \A j \in a .. i : f[j] \in Int
    BY <1>1, <1>2, <1>3
  <2>2. IsFiniteSet(a .. i)
    BY FS_Interval
  <2> QED  BY <2>1, <2>2, SumType DEF SumOf
<1>5. PICK v : v = SumOf(a, i, f)
  OBVIOUS
<1>6. TrueRanges(bars, i, length) = IF i < length + 1 THEN None ELSE v
  <2>1. TrueRanges(bars, i, length) =
          IF i < length + 1 THEN None
          ELSE SumOf(i - length + 1, i, [j \in 2 .. i |-> TrueRange(bars, j)])
    BY DEF TrueRanges, TrueRange
  <2> QED  BY <1>2, <1>3, <1>5, <2>1
<1>7. i >= length + 1 => v \in Int /\ ~ (i < length + 1)
  BY <1>4, <1>5
<1> QED  BY <1>6, <1>7

\* The states of the trend, from the first one on.
First == Lengths.trend + 1
TrendState ==
  {s \in [upper : Int, lower : Int, up : BOOLEAN, value : Int] :
     s.value = IF s.up THEN s.lower ELSE s.upper}
SeedTrend(bars) ==
  Directed(Middle(bars[First]) + Reach(bars, First), Middle(bars[First]) - Reach(bars, First),
           bars[First].close * Scale >= Middle(bars[First]))
IsTrend(t, bars, n) ==
  /\ t \in [First .. n -> TrendState]
  /\ t[First] = SeedTrend(bars)
  /\ \A i \in First + 1 .. n : t[i] = Carried(bars, i, t[i - 1])

\* The candle the trend begins with.
LEMMA FirstIs == First \in Nat /\ First >= 2 /\ Scale \in Nat \ {0} /\ Scale = 2 * Lengths.trend
BY LengthsAre DEF First, Scale

\* Bands and a direction are a state of the trend.
LEMMA DirectedType ==
  ASSUME NEW upper \in Int, NEW lower \in Int, NEW up \in BOOLEAN
  PROVE  Directed(upper, lower, up) \in TrendState
BY DEF Directed, TrendState

\* What a candle adds to the trend.
LEMMA MiddleType ==
  ASSUME NEW bars, NEW n \in Nat, Series(bars, n, Candle), NEW i \in First .. n
  PROVE  /\ Middle(bars[i]) \in Int /\ Reach(bars, i) \in Int
         /\ bars[i].close \in Int /\ bars[i].close * Scale \in Int
         /\ bars[i - 1].close \in Int /\ bars[i - 1].close * Scale \in Int
<1>1. i \in 1 .. n /\ i - 1 \in 1 .. n /\ i >= Lengths.trend + 1 /\ Lengths.trend \in Nat \ {0}
  BY FirstIs, LengthsAre DEF First
<1>2. bars[i] \in Candle /\ bars[i - 1] \in Candle
  BY <1>1 DEF Series
<1>3. TrueRanges(bars, i, Lengths.trend) \in Int
  BY <1>1, TrueRangesType
<1>4. /\ bars[i].high \in Int /\ bars[i].low \in Int /\ bars[i].close \in Int
      /\ bars[i - 1].close \in Int
  BY <1>2, CandleParts
<1>5. Reach(bars, i) \in Int
  BY <1>3 DEF Reach
<1>6. Middle(bars[i]) \in Int
  BY <1>1, <1>4 DEF Middle
<1>7. bars[i].close * Scale \in Int /\ bars[i - 1].close * Scale \in Int
  BY <1>4, FirstIs
<1> QED  BY <1>4, <1>5, <1>6, <1>7

\* The bands carried over are integers.
LEMMA BandType ==
  ASSUME NEW basic \in Int, NEW previous \in Int, NEW close \in Int
  PROVE  Upper(basic, previous, close) \in Int /\ Lower(basic, previous, close) \in Int
BY DEF Upper, Lower

\* What is carried from one candle to the next, by its parts.
LEMMA CarriedIs ==
  ASSUME NEW bars, NEW i, NEW previous, NEW m, m = Middle(bars[i]), NEW r, r = Reach(bars, i),
         NEW close, close = bars[i].close * Scale,
         NEW before, before = bars[i - 1].close * Scale,
         NEW upper, upper = Upper(m + r, previous.upper, before),
         NEW lower, lower = Lower(m - r, previous.lower, before)
  PROVE  Carried(bars, i, previous) =
           Directed(upper, lower, IF previous.up THEN close >= lower ELSE close > upper)
BY DEF Carried

\* The parts of a state of the trend, and its line.
LEMMA StateParts ==
  ASSUME NEW s \in TrendState
  PROVE  /\ s.upper \in Int /\ s.lower \in Int /\ s.up \in BOOLEAN
         /\ s.up => s.value = s.lower
         /\ ~s.up => s.value = s.upper
BY DEF TrendState

\* The side of the trend is one of two.
LEMMA SideIs ==
  ASSUME NEW was \in BOOLEAN, NEW close \in Int, NEW lower \in Int, NEW upper \in Int
  PROVE  \E up \in BOOLEAN : up = IF was THEN close >= lower ELSE close > upper
<1>1. PICK a \in BOOLEAN : a <=> close >= lower
  OBVIOUS
<1>2. PICK b \in BOOLEAN : b <=> close > upper
  OBVIOUS
<1>3. (IF was THEN a ELSE b) \in BOOLEAN
  OBVIOUS
<1> QED  BY <1>1, <1>2, <1>3

\* What a candle makes of a state of the trend is a state of the trend.
LEMMA CarriedType ==
  ASSUME NEW bars, NEW n \in Nat, Series(bars, n, Candle), NEW i \in First .. n,
         NEW previous \in TrendState
  PROVE  Carried(bars, i, previous) \in TrendState
<1>1. PICK m \in Int, r \in Int, close \in Int, before \in Int :
        /\ m = Middle(bars[i]) /\ r = Reach(bars, i)
        /\ close = bars[i].close * Scale /\ before = bars[i - 1].close * Scale
  BY MiddleType
<1>2. PICK top \in Int, bottom \in Int, was \in BOOLEAN :
        top = previous.upper /\ bottom = previous.lower /\ was = previous.up
  BY StateParts
<1>3. m + r \in Int /\ m - r \in Int
  OBVIOUS
<1>4. PICK upper \in Int, lower \in Int :
        upper = Upper(m + r, top, before) /\ lower = Lower(m - r, bottom, before)
  BY <1>3, BandType
<1>5. PICK up \in BOOLEAN : up = IF was THEN close >= lower ELSE close > upper
  BY SideIs
<1>6. Carried(bars, i, previous) = Directed(upper, lower, up)
  <2>1. Carried(bars, i, previous) =
           Directed(upper, lower, IF previous.up THEN close >= lower ELSE close > upper)
    BY <1>1, <1>2, <1>4, CarriedIs
  <2> QED  BY <1>2, <1>5, <2>1
<1> QED  BY <1>6, DirectedType

\* The first state of the trend.
LEMMA SeedTrendType ==
  ASSUME NEW bars, NEW n \in Nat, Series(bars, n, Candle), n >= First
  PROVE  SeedTrend(bars) \in TrendState
<1>1. First \in First .. n
  BY FirstIs
<1>2. PICK m \in Int, r \in Int, close \in Int :
        m = Middle(bars[First]) /\ r = Reach(bars, First) /\ close = bars[First].close * Scale
  BY <1>1, MiddleType
<1>3. SeedTrend(bars) = Directed(m + r, m - r, close >= m)
  BY <1>2 DEF SeedTrend
<1>4. PICK up \in BOOLEAN : up <=> close >= m
  OBVIOUS
<1>5. up = (close >= m) /\ m + r \in Int /\ m - r \in Int
  BY <1>4
<1>6. SeedTrend(bars) = Directed(m + r, m - r, up)
  BY <1>3, <1>5
<1> QED  BY <1>5, <1>6, DirectedType

\* The trend, by its equation.
LEMMA TrendUnfolds ==
  ASSUME NEW bars, NEW n \in Nat, Series(bars, n, Candle), n >= First
  PROVE  IsTrend(Trend(bars), bars, n)
<1> DEFINE step == [z \in (First + 1 .. n) \X TrendState |-> Carried(bars, z[1], z[2])]
           Is(t) == t = [i \in First .. n |->
                           IF i = First THEN SeedTrend(bars) ELSE Carried(bars, i, t[i - 1])]
           it == CHOOSE t : Is(t)
<1>1. First \in Int /\ n \in Int /\ SeedTrend(bars) \in TrendState
  BY FirstIs, SeedTrendType
<1>2. ASSUME NEW i \in First + 1 .. n, NEW v \in TrendState
      PROVE  Carried(bars, i, v) \in TrendState
  <2>1. i \in First .. n
    BY FirstIs
  <2> QED  BY <2>1, CarriedType
<1>3. ASSUME NEW i \in First + 1 .. n, NEW v \in TrendState
      PROVE  step[<<i, v>>] = Carried(bars, i, v)
  OBVIOUS
<1> HIDE DEF step
<1>4. PICK f : Steps(f, First, n, TrendState, SeedTrend(bars), step)
  <2>1. ASSUME NEW i \in First + 1 .. n, NEW v \in TrendState PROVE step[<<i, v>>] \in TrendState
    <3>1. PICK w \in TrendState : w = Carried(bars, i, v)
      BY <1>2
    <3>2. step[<<i, v>>] = w
      BY <1>3, <3>1
    <3> QED  BY <3>2
  <2> QED  BY <1>1, <2>1, IntervalFunction
<1>5. ASSUME NEW i \in First .. n
      PROVE  f[i] = IF i = First THEN SeedTrend(bars) ELSE Carried(bars, i, f[i - 1])
  <2>1. i # First => i \in First + 1 .. n /\ i - 1 \in First .. n
    BY <1>1
  <2>2. \A j \in First .. n : f[j] \in TrendState
    BY <1>4 DEF Steps
  <2>3. f[i] = IF i = First THEN SeedTrend(bars) ELSE step[<<i, f[i - 1]>>]
    BY <1>4 DEF Steps
  <2> QED  BY <1>3, <2>1, <2>2, <2>3
<1>6. Is(f)
  BY <1>4, <1>5 DEF Steps
<1>7. Is(it)
  <2> HIDE DEF Is
  <2> QED  BY <1>6
<1>8. Trend(bars) = it
  <2>1. Len(bars) = n
    BY SeriesLength
  <2>2. \A i : i = First => SeedTrend(bars) =
          Directed(Middle(bars[i]) + Reach(bars, i), Middle(bars[i]) - Reach(bars, i),
                   bars[i].close * Scale >= Middle(bars[i]))
    BY DEF SeedTrend
  <2> QED  BY <2>1, <2>2 DEF Trend, First
<1> HIDE DEF it
<1>9. it \in [First .. n -> TrendState]
  <2> DEFINE Good == {i \in First .. n : it[i] \in TrendState}
  <2>1. ASSUME NEW i \in First + 1 .. n, i - 1 \in Good PROVE i \in Good
    <3>1. it[i] = Carried(bars, i, it[i - 1]) /\ i \in First .. n
      BY <1>1, <1>7
    <3> QED  BY <1>2, <2>1, <3>1
  <2>2. First \in Good
    BY <1>1, <1>7
  <2> HIDE DEF Good
  <2>3. First .. n \subseteq Good
    BY <1>1, <2>1, <2>2, IntervalOneByOne
  <2>4. \A i \in First .. n : it[i] \in TrendState
    BY <2>3 DEF Good
  <2> QED  BY <1>7, <2>4
<1>10. it[First] = SeedTrend(bars) /\ \A i \in First + 1 .. n : it[i] = Carried(bars, i, it[i - 1])
  BY <1>1, <1>7
<1> QED  BY <1>8, <1>9, <1>10 DEF IsTrend

\* Series that agree up to a candle have the same ranges there.
LEMMA RangesAgree ==
  ASSUME NEW a, NEW b, NEW i \in Nat, NEW length \in Nat \ {0},
         \A j \in 2 .. i : TrueRange(a, j) = TrueRange(b, j)
  PROVE  TrueRanges(a, i, length) = TrueRanges(b, i, length)
<1>1. PICK f, g : f = [j \in 2 .. i |-> TrueRange(a, j)] /\ g = [j \in 2 .. i |-> TrueRange(b, j)]
  OBVIOUS
<1>2. f = g
  BY <1>1
<1>3. TrueRanges(a, i, length) = IF i < length + 1 THEN None ELSE SumOf(i - length + 1, i, f)
  BY <1>1 DEF TrueRanges, TrueRange
<1>4. TrueRanges(b, i, length) = IF i < length + 1 THEN None ELSE SumOf(i - length + 1, i, g)
  BY <1>1 DEF TrueRanges, TrueRange
<1> QED  BY <1>2, <1>3, <1>4

\* The trend of a prefix.
PrefixAgrees(before, bars, n) ==
  /\ Series(before, n - 1, Candle)
  /\ \A i \in 1 .. n - 1 : before[i] = bars[i]
  /\ \A i \in First .. n - 1 : Trend(before)[i] = Trend(bars)[i]
LEMMA TrendOfPrefix ==
  ASSUME NEW bars, NEW n \in Nat, Series(bars, n, Candle), n > First,
         NEW before, before = SubSeq(bars, 1, n - 1)
  PROVE  PrefixAgrees(before, bars, n)
<1>1. PICK a \in Nat, m \in Nat : a = First /\ m = n - 1 /\ a >= 2 /\ a <= m
  BY FirstIs
<1>2. before = [i \in 1 .. m |-> bars[i]]
  <2>1. before = [i \in 1 .. (n - 1) - 1 + 1 |-> bars[1 + i - 1]]
    BY DEF SubSeq
  <2>2. 1 .. (n - 1) - 1 + 1 = 1 .. m
    BY <1>1
  <2>3. \A i \in 1 .. m : 1 + i - 1 = i
    OBVIOUS
  <2> QED  BY <2>1, <2>2, <2>3
<1>3. Series(before, m, Candle)
  <2>1. \A i \in 1 .. m : i \in 1 .. n
    BY <1>1
  <2> QED  BY <1>2, <2>1 DEF Series
<1>4. ASSUME NEW i \in a .. m PROVE Reach(before, i) = Reach(bars, i)
  <2>1. Lengths.trend \in Nat \ {0} /\ i \in Nat
    BY <1>1, LengthsAre
  <2>2. \A j \in 2 .. i : j \in 1 .. m /\ j - 1 \in 1 .. m
    BY <1>1
  <2>3. \A j \in 2 .. i : TrueRange(before, j) = TrueRange(bars, j)
    BY <1>2, <2>2 DEF TrueRange
  <2> QED  BY <2>1, <2>3, RangesAgree DEF Reach
<1>5. PICK t, u : t = Trend(bars) /\ u = Trend(before)
  OBVIOUS
<1>6. IsTrend(t, bars, n) /\ IsTrend(u, before, m)
  BY <1>1, <1>3, <1>5, TrendUnfolds
<1> DEFINE Good == {i \in a .. m : u[i] = t[i]}
<1>7. a \in Good
  <2>1. a \in 1 .. m /\ a \in a .. m
    BY <1>1
  <2>2. before[a] = bars[a] /\ Reach(before, a) = Reach(bars, a)
    BY <1>2, <1>4, <2>1
  <2>3. SeedTrend(before) = SeedTrend(bars)
    BY <1>1, <2>2 DEF SeedTrend
  <2> QED  BY <1>1, <1>6, <2>1, <2>3 DEF IsTrend
<1>8. ASSUME NEW i \in a + 1 .. m, i - 1 \in Good PROVE i \in Good
  <2>1. i \in a .. m /\ i \in 1 .. m /\ i - 1 \in 1 .. m /\ i \in a + 1 .. n
    BY <1>1
  <2>2. before[i] = bars[i] /\ before[i - 1] = bars[i - 1] /\ Reach(before, i) = Reach(bars, i)
    BY <1>2, <1>4, <2>1
  <2>3. u[i] = Carried(before, i, u[i - 1]) /\ t[i] = Carried(bars, i, t[i - 1])
    BY <1>1, <1>6, <2>1 DEF IsTrend
  <2>4. PICK p : p = t[i - 1] /\ p = u[i - 1]
    BY <1>8
  <2>5. Carried(before, i, p) = Carried(bars, i, p)
    BY <2>2 DEF Carried
  <2> QED  BY <2>1, <2>3, <2>4, <2>5
<1> HIDE DEF Good
<1>9. a .. m \subseteq Good
  BY <1>1, <1>7, <1>8, IntervalOneByOne
<1>10. \A i \in a .. m : u[i] = t[i]
  BY <1>9 DEF Good
<1>11. Series(before, n - 1, Candle)
  BY <1>1, <1>3
<1>12. \A i \in 1 .. n - 1 : before[i] = bars[i]
  BY <1>1, <1>2
<1>13. \A i \in First .. n - 1 : Trend(before)[i] = Trend(bars)[i]
  BY <1>1, <1>5, <1>10
<1> QED  BY <1>11, <1>12, <1>13 DEF PrefixAgrees

\* The supertrend is the last state of the trend.
LEMMA SupertrendIs ==
  ASSUME NEW bars, NEW n \in Nat, Series(bars, n, Candle), NEW s, s = Supertrend(bars)
  PROVE  /\ n < First => s.value = None /\ s.direction = None
         /\ n >= First => /\ s.value = Trend(bars)[n].value
                          /\ Trend(bars)[n] \in TrendState
                          /\ Trend(bars)[n].up => s.direction = "bullish"
                          /\ ~Trend(bars)[n].up => s.direction = "bearish"
<1>1. Len(bars) = n
  BY SeriesLength
<1>2. CASE n < First
  <2>1. s = [value |-> None, direction |-> None]
    BY <1>1, <1>2 DEF Supertrend, First
  <2>2. ~ (n >= First)
    BY <1>2, FirstIs
  <2> QED  BY <2>1, <2>2
<1>3. CASE n >= First
  <2>1. PICK last : last = Trend(bars)[n]
    OBVIOUS
  <2>2. ~ (n < First)
    BY <1>3, FirstIs
  <2>3. s = [value |-> last.value, direction |-> IF last.up THEN "bullish" ELSE "bearish"]
    BY <1>1, <2>1, <2>2 DEF Supertrend, First
  <2>4. last \in TrendState
    <3>1. IsTrend(Trend(bars), bars, n) /\ n \in First .. n
      BY <1>3, FirstIs, TrendUnfolds
    <3> QED  BY <2>1, <3>1 DEF IsTrend
  <2> QED  BY <2>1, <2>2, <2>3, <2>4
<1> QED  BY <1>2, <1>3, FirstIs

\* A line follows the price and does not give way.
LEMMA LineHolds ==
  ASSUME NEW bars, NEW n \in Nat, Series(bars, n, Candle), NEW i \in First .. n,
         NEW previous \in TrendState, NEW next, next = Carried(bars, i, previous),
         NEW close, close = bars[i - 1].close * Scale
  PROVE  /\ previous.up /\ next.up /\ previous.value <= close => previous.value <= next.value
         /\ ~previous.up /\ ~next.up /\ previous.value >= close => previous.value >= next.value
<1>1. PICK m \in Int, r \in Int, now \in Int, before \in Int :
        /\ m = Middle(bars[i]) /\ r = Reach(bars, i)
        /\ now = bars[i].close * Scale /\ before = bars[i - 1].close * Scale
  BY MiddleType
<1>2. PICK top \in Int, bottom \in Int, was \in BOOLEAN :
        /\ top = previous.upper /\ bottom = previous.lower /\ was = previous.up
        /\ was => previous.value = bottom
        /\ ~was => previous.value = top
  BY StateParts
<1>3. PICK over \in Int, under \in Int : over = m + r /\ under = m - r
  OBVIOUS
<1>4. PICK upper \in Int, lower \in Int :
        upper = Upper(over, top, before) /\ lower = Lower(under, bottom, before)
  BY BandType
<1>5. PICK up \in BOOLEAN : next = Directed(upper, lower, up)
  <2>1. next = Directed(upper, lower, IF previous.up THEN now >= lower ELSE now > upper)
    BY <1>1, <1>2, <1>3, <1>4, CarriedIs
  <2>2. PICK up \in BOOLEAN : up = IF was THEN now >= lower ELSE now > upper
    BY SideIs
  <2>3. next = Directed(upper, lower, up)
    BY <1>2, <2>1, <2>2
  <2> QED  BY <2>3
<1>6. (next.up => next.value = lower) /\ (~next.up => next.value = upper)
  BY <1>5 DEF Directed
<1>7. (bottom <= before => bottom <= lower) /\ (top >= before => top >= upper)
  BY <1>4 DEF Upper, Lower
<1> QED  BY <1>1, <1>2, <1>6, <1>7

\* The supertrend follows the price and does not give way to the next candle.
LEMMA SupertrendHolds ==
  ASSUME NEW bars, NEW n \in Nat, Series(bars, n, Candle), n > First,
         NEW before, before = SubSeq(bars, 1, n - 1)
  PROVE  Ratchet(Supertrend(before), before[n - 1].close, Supertrend(bars))
<1>1. PICK a \in Nat, m \in Nat : a = First /\ m = n - 1 /\ a >= 2 /\ a <= m
  BY FirstIs
<1>2. PICK p, q, close : p = Trend(bars)[m] /\ q = Trend(bars)[n] /\ close = bars[m].close * Scale
  OBVIOUS
<1>3. Series(before, m, Candle) /\ before[m] = bars[m] /\ Trend(before)[m] = p
  <2>1. m \in 1 .. n - 1 /\ m \in First .. n - 1
    BY <1>1
  <2>2. PrefixAgrees(before, bars, n)
    BY TrendOfPrefix
  <2> QED  BY <1>1, <1>2, <2>1, <2>2 DEF PrefixAgrees
<1>4. PICK s, v : s = Supertrend(before) /\ v = Supertrend(bars)
  OBVIOUS
<1>5. /\ p \in TrendState /\ s.value = p.value
      /\ p.up => s.direction = "bullish"
      /\ ~p.up => s.direction = "bearish"
  <2>1. m >= First
    BY <1>1
  <2> QED  BY <1>3, <1>4, <2>1, SupertrendIs
<1>6. /\ q \in TrendState /\ v.value = q.value
      /\ q.up => v.direction = "bullish"
      /\ ~q.up => v.direction = "bearish"
  <2>1. n >= First
    BY <1>1
  <2> QED  BY <1>2, <1>4, <2>1, SupertrendIs
<1>7. q = Carried(bars, n, p)
  <2>1. n \in First + 1 .. n /\ n >= First
    BY <1>1
  <2>2. IsTrend(Trend(bars), bars, n)
    BY <2>1, TrendUnfolds
  <2>3. Trend(bars)[n] = Carried(bars, n, Trend(bars)[n - 1])
    BY <2>1, <2>2 DEF IsTrend
  <2> QED  BY <1>1, <1>2, <2>3
<1>8. /\ p.up /\ q.up /\ p.value <= close => p.value <= q.value
      /\ ~p.up /\ ~q.up /\ p.value >= close => p.value >= q.value
  <2>1. n \in First .. n
    BY <1>1
  <2> QED  BY <1>1, <1>2, <1>5, <1>7, <2>1, LineHolds
<1>9. p.up \in BOOLEAN /\ q.up \in BOOLEAN
  BY <1>5, <1>6, StateParts
<1>10. "bullish" # "bearish"
  OBVIOUS
<1>11. before[m].close * Scale = close
  BY <1>2, <1>3
<1>12. Ratchet(s, before[m].close, v)
  BY <1>5, <1>6, <1>8, <1>9, <1>10, <1>11 DEF Ratchet
<1> QED  BY <1>1, <1>4, <1>12

-----------------------------------------------------------------------------
(* What a snapshot can be relied on for.                                   *)

Closes(bars, n) == [i \in 1 .. n |-> bars[i].close]

\* The closes of a series of candles.
LEMMA ClosesAre ==
  ASSUME NEW bars, NEW n \in Nat, Series(bars, n, Candle)
  PROVE  Series(Closes(bars, n), n, Int)
<1>1. \A i \in 1 .. n : bars[i].close \in Int
  BY CandleParts DEF Series
<1> QED  BY <1>1 DEF Series, Closes

\* The fields of a snapshot.
LEMMA SnapshotFields ==
  ASSUME NEW bars, NEW n \in Nat, Series(bars, n, Candle),
         NEW v, v = SnapshotValues(bars), NEW closes, closes = Closes(bars, n)
  PROVE  /\ v.rsi_14 = Rsi(closes, n) /\ v.stoch_rsi = StochRsi(closes)
         /\ v.macd = Macd(closes) /\ v.supertrend = Supertrend(bars)
         /\ v.volume_relative = VolumeRelative(bars)
         /\ v.atr_14 = TrueRanges(bars, n, Lengths.atr)
         /\ v.trend_label = TrendLabel(Macd(closes), Supertrend(bars).direction)
         /\ v.candlestick_patterns = Patterns(bars)
<1>1. Len(bars) = n /\ DOMAIN bars = 1 .. n
  BY SeriesLength
<1>2. v = [price |-> Last(closes), rsi_14 |-> Rsi(closes, n), stoch_rsi |-> StochRsi(closes),
       macd |-> Macd(closes), supertrend |-> Supertrend(bars),
       atr_14 |-> TrueRanges(bars, n, Lengths.atr),
       volume_relative |-> VolumeRelative(bars),
       trend_label |-> TrendLabel(Macd(closes), Supertrend(bars).direction),
       candlestick_patterns |-> Patterns(bars)]
  BY <1>1 DEF SnapshotValues, Closes
<1> QED  BY <1>2

\* The ratio of the volume is there exactly when there are candles enough, and volume.
LEMMA VolumeThere ==
  ASSUME NEW bars, NEW n \in Nat, Series(bars, n, Candle)
  PROVE  VolumeRelative(bars) # None <=>
           n >= Lengths.volume /\ \E i \in n - Lengths.volume + 1 .. n : bars[i].volume # 0
<1> DEFINE f == [i \in DOMAIN bars |-> bars[i].volume]
<1>1. Len(bars) = n /\ DOMAIN bars = 1 .. n /\ Lengths.volume \in Nat \ {0}
  BY SeriesLength, LengthsAre
<1>2. PICK from \in Int : from = n - Lengths.volume + 1
  BY <1>1
<1>3. VolumeRelative(bars) = IF n < Lengths.volume \/ SumOf(from, n, f) = 0 THEN None
                             ELSE Q(bars[n].volume * Lengths.volume, SumOf(from, n, f))
  BY <1>1, <1>2 DEF VolumeRelative
<1>4. CASE n < Lengths.volume
  <2>1. ~ (n >= Lengths.volume)
    BY <1>1, <1>4
  <2> QED  BY <1>3, <1>4, <2>1
<1>5. CASE n >= Lengths.volume
  <2>1. n \in 1 .. n /\ from .. n \subseteq 1 .. n /\ ~ (n < Lengths.volume)
    BY <1>1, <1>2, <1>5
  <2>2. \A i \in from .. n : f[i] = bars[i].volume /\ f[i] \in Nat
    BY <1>1, <2>1, CandleParts DEF Series
  <2>3. IsFiniteSet(from .. n)
    BY FS_Interval
  <2> HIDE DEF f
  <2>4. CASE \A i \in from .. n : bars[i].volume = 0
    <3>1. SumOf(from, n, f) = 0
      BY <2>2, <2>3, <2>4, SumZero DEF SumOf
    <3> QED  BY <1>2, <1>3, <2>4, <3>1
  <2>5. CASE \E i \in from .. n : bars[i].volume # 0
    <3>1. PICK i \in from .. n : f[i] # 0
      BY <2>2, <2>5
    <3>2. PICK window : window = from .. n
      OBVIOUS
    <3>3. SumFunctionOnSet(f, window) \in Nat \ {0}
      <4>1. IsFiniteSet(window) /\ i \in window /\ \A x \in window : f[x] \in Nat
        BY <2>2, <2>3, <3>2
      <4> QED  BY <3>1, <4>1, SumPositive
    <3>4. PICK sum \in Nat \ {0} : sum = SumOf(from, n, f)
      BY <3>2, <3>3 DEF SumOf
    <3>5. PICK c \in Int : c = bars[n].volume * Lengths.volume
      BY <1>1, <2>1, CandleParts DEF Series
    <3>6. VolumeRelative(bars) = Q(c, sum) /\ Q(c, sum) \in Quotients
      BY <1>3, <2>1, <3>4, <3>5, QuotientIs
    <3> QED  BY <1>2, <1>5, <2>5, <3>6, NoneAssumption
  <2> QED  BY <2>4, <2>5
<1> QED  BY <1>1, <1>4, <1>5

\* A word is not the missing value.
LEMMA WordsAreSome ==
  "bullish" # None /\ "bearish" # None /\ "mixed" # None
BY NoneAssumption DEF Words

\* There is a label exactly when there are a signal and a direction.
LEMMA LabelThere ==
  ASSUME NEW macd, NEW direction, macd.signal # None => macd.macd # None
  PROVE  TrendLabel(macd, direction) # None <=> macd.signal # None /\ direction # None
<1>1. PICK sign : sign = IF Less(macd.signal, macd.macd) THEN "bullish"
                         ELSE IF Less(macd.macd, macd.signal) THEN "bearish" ELSE "mixed"
  OBVIOUS
<1>2. sign # None
  BY <1>1, WordsAreSome
<1>3. TrendLabel(macd, direction) =
        IF None \in {macd.macd, macd.signal, direction} THEN None
        ELSE IF sign = direction THEN sign ELSE "mixed"
  BY <1>1 DEF TrendLabel
<1> QED  BY <1>2, <1>3, WordsAreSome

\* A value that is there from a candle on, and then within 0 and 100, is a percentage.
LEMMA FilledIs ==
  ASSUME NEW v, NEW n \in Nat, NEW from \in Nat,
         n < from => v = None, n >= from => Within(v, 100)
  PROVE  (v # None <=> n >= from) /\ Percent(v)
<1>1. CASE n < from
  <2>1. ~ (n >= from)
    BY <1>1
  <2> QED  BY <1>1, <2>1 DEF Percent
<1>2. CASE n >= from
  BY <1>2, WithinIsSome, WithinPercent DEF Percent
<1> QED  BY <1>1, <1>2

\* The numbers calculated from a series of candles can be relied on.
LEMMA ValuesSound ==
  ASSUME NEW bars, NEW n \in Nat \ {0}, Series(bars, n, Candle)
  PROVE  Sound(SnapshotValues(bars), bars)
<1>1. PICK v, closes, macd, trend :
        /\ v = SnapshotValues(bars) /\ closes = Closes(bars, n)
        /\ macd = Macd(closes) /\ trend = Supertrend(bars)
  OBVIOUS
<1>2. /\ v.rsi_14 = Rsi(closes, n) /\ v.stoch_rsi = StochRsi(closes)
      /\ v.macd = macd /\ v.supertrend = trend
      /\ v.volume_relative = VolumeRelative(bars)
      /\ v.atr_14 = TrueRanges(bars, n, Lengths.atr)
      /\ v.trend_label = TrendLabel(macd, trend.direction)
  BY <1>1, SnapshotFields
<1>3. Series(closes, n, Int) /\ Len(bars) = n /\ n \in Nat
  BY <1>1, ClosesAre, SeriesLength
<1>4. PICK r \in Nat \ {0}, s \in Nat \ {0}, k \in Nat \ {0}, d \in Nat \ {0} :
        r = Lengths.rsi /\ s = Lengths.stoch /\ k = Lengths.k /\ d = Lengths.d
  BY LengthsAre
<1>5. (v.rsi_14 # None <=> n > r) /\ Percent(v.rsi_14)
  <2>1. PICK x : x = Rsi(closes, n) /\ (n < r + 1 => x = None) /\ (n >= r + 1 => Within(x, 100))
    <3>1. Filled([i \in 1 .. n |-> Rsi(closes, i)], n, r + 1, 100) /\ n \in 1 .. n
      BY <1>3, <1>4, RsiFilled
    <3> QED  BY <3>1 DEF Filled
  <2>2. PICK from \in Nat : from = r + 1
    BY <1>4
  <2>3. (x # None <=> n >= from) /\ Percent(x)
    BY <1>3, <2>1, <2>2, FilledIs
  <2> QED  BY <1>2, <1>3, <2>1, <2>2, <2>3
<1>6. PICK from \in Nat, to \in Nat :
        from = r + s + k - 1 /\ to = r + s + k + d - 2 /\ to = from + d - 1
  OBVIOUS
<1>7. PICK x, y :
        /\ x = v.stoch_rsi.k /\ y = v.stoch_rsi.d
        /\ (n < from => x = None) /\ (n >= from => Within(x, 100))
        /\ (n < to => y = None) /\ (n >= to => Within(y, 100))
  <2>1. PICK stoch : stoch = v.stoch_rsi /\ stoch = StochRsi(closes)
    BY <1>2
  <2>2. from = Lengths.rsi + Lengths.stoch + Lengths.k - 1 /\ to = from + Lengths.d - 1
    BY <1>4, <1>6
  <2>3. /\ n < from => stoch.k = None
        /\ n >= from => Within(stoch.k, 100)
        /\ n < from + Lengths.d - 1 => stoch.d = None
        /\ n >= from + Lengths.d - 1 => Within(stoch.d, 100)
    BY <1>3, <2>1, <2>2, StochRsiIs
  <2> QED  BY <2>1, <2>2, <2>3
<1>8. (x # None <=> n >= from) /\ Percent(x)
  BY <1>3, <1>7, FilledIs
<1>9. (y # None <=> n >= to) /\ Percent(y)
  BY <1>3, <1>7, FilledIs
<1>10. PICK slow \in Nat \ {0}, signal \in Nat \ {0} :
         slow = Lengths.slow /\ signal = Lengths.signal
  BY LengthsAre
<1>11. (macd.macd # None <=> n >= slow) /\ (macd.signal # None <=> n >= slow + signal - 1)
  <2>1. /\ n < slow => macd.macd = None
        /\ n >= slow => macd.macd \in Quotients
        /\ n < slow + signal - 1 => macd.signal = None
        /\ n >= slow + signal - 1 => macd.signal \in Quotients
    BY <1>1, <1>3, <1>10, MacdIs
  <2>2. None \notin Quotients
    BY NoneAssumption
  <2> QED  BY <1>3, <2>1, <2>2
<1>12. v.trend_label # None <=> macd.signal # None /\ trend.direction # None
  <2>1. macd.signal # None => macd.macd # None
    BY <1>3, <1>11
  <2> QED  BY <1>2, <2>1, LabelThere
<1>13. trend.value # None <=> n > Lengths.trend
  <2>1. /\ n < First => trend.value = None
        /\ n >= First => trend.value = Trend(bars)[n].value /\ Trend(bars)[n] \in TrendState
    BY <1>1, <1>3, SupertrendIs
  <2>2. \A w \in TrendState : w.value # None
    BY NoneAssumption DEF TrendState
  <2>3. First = Lengths.trend + 1 /\ Lengths.trend \in Nat
    BY LengthsAre DEF First
  <2> QED  BY <1>3, <2>1, <2>2, <2>3
<1>14. v.volume_relative # None <=>
         n >= Lengths.volume /\ \E i \in n - Lengths.volume + 1 .. n : bars[i].volume # 0
  BY <1>2, <1>3, VolumeThere
<1>15. v.atr_14 # None <=> n > Lengths.atr
  <2>1. Lengths.atr \in Nat \ {0} /\ n \in 1 .. n
    BY LengthsAre
  <2>2. /\ n < Lengths.atr + 1 => v.atr_14 = None
        /\ n >= Lengths.atr + 1 => v.atr_14 \in Int
    BY <1>2, <1>3, <2>1, TrueRangesType
  <2>3. None \notin Int
    BY NoneAssumption
  <2> QED  BY <1>3, <2>1, <2>2, <2>3
<1>16. Present(v, bars, n)
  BY <1>2, <1>4, <1>5, <1>6, <1>7, <1>8, <1>9, <1>10, <1>11, <1>12, <1>13, <1>14, <1>15
  DEF Present
<1>17. ASSUME n > Lengths.trend + 1
       PROVE  Ratchet(Supertrend(SubSeq(bars, 1, n - 1)), SubSeq(bars, 1, n - 1)[n - 1].close,
                      v.supertrend)
  <2>1. n > First
    BY <1>17 DEF First
  <2> QED  BY <1>1, <1>2, <1>3, <2>1, SupertrendHolds
<1>18. Sound(v, bars)
  BY <1>3, <1>5, <1>7, <1>8, <1>9, <1>16, <1>17 DEF Sound
<1> QED  BY <1>1, <1>18

-----------------------------------------------------------------------------
(* Candles upside down: the trend, the label and the patterns.             *)

\* The numbers of a candle upside down.
LEMMA TurnedParts ==
  ASSUME NEW c \in Candle, NEW d, d = TurnedBar(c)
  PROVE  /\ d \in Candle
         /\ d.open = -c.open /\ d.high = -c.low /\ d.low = -c.high /\ d.close = -c.close
<1>1. c.open \in Int /\ c.high \in Int /\ c.low \in Int /\ c.close \in Int /\ c.volume \in Nat
  BY CandleParts
<1>2. d = [open |-> -c.open, high |-> -c.low, low |-> -c.high, close |-> -c.close,
           volume |-> c.volume]
  BY DEF TurnedBar
<1>3. -c.open \in Int /\ -c.high \in Int /\ -c.low \in Int /\ -c.close \in Int
  BY <1>1
<1> QED  BY <1>1, <1>2, <1>3 DEF Candle

\* A series of candles upside down is a series of candles.
LEMMA TurnedIs ==
  ASSUME NEW bars, NEW n \in Nat, Series(bars, n, Candle)
  PROVE  /\ Series(Turned(bars), n, Candle)
         /\ \A i \in 1 .. n : Turned(bars)[i] = TurnedBar(bars[i])
         /\ Closes(Turned(bars), n) = NegativeCloses(Closes(bars, n), n)
<1>1. PICK turned : turned = Turned(bars) /\ turned = [i \in 1 .. n |-> TurnedBar(bars[i])]
  BY SeriesLength DEF Turned
<1>2. ASSUME NEW i \in 1 .. n
      PROVE  /\ turned[i] = TurnedBar(bars[i]) /\ turned[i] \in Candle
             /\ turned[i].close = -bars[i].close
  <2>1. PICK c \in Candle : c = bars[i]
    BY DEF Series
  <2>2. PICK d : d = TurnedBar(c)
    OBVIOUS
  <2>3. d \in Candle /\ d.close = -c.close
    BY <2>2, TurnedParts
  <2> QED  BY <1>1, <2>1, <2>2, <2>3
<1>3. Series(turned, n, Candle)
  BY <1>1, <1>2 DEF Series
<1>4. Closes(turned, n) = NegativeCloses(Closes(bars, n), n)
  BY <1>2 DEF Closes, NegativeCloses
<1> QED  BY <1>1, <1>2, <1>3, <1>4

\* The true range of a candle upside down is the same.
LEMMA TrueRangeTurned ==
  ASSUME NEW bars, NEW n \in Nat, Series(bars, n, Candle), NEW j \in 2 .. n
  PROVE  TrueRange(Turned(bars), j) = TrueRange(bars, j)
<1>1. j \in 1 .. n /\ j - 1 \in 1 .. n
  OBVIOUS
<1>2. PICK c \in Candle, d \in Candle : c = bars[j] /\ d = bars[j - 1]
  BY <1>1 DEF Series
<1>3. PICK u, v : u = Turned(bars)[j] /\ v = Turned(bars)[j - 1]
  OBVIOUS
<1>4. u = TurnedBar(c) /\ v = TurnedBar(d)
  BY <1>1, <1>2, <1>3, TurnedIs
<1>5. PICK h \in Int, l \in Int, p \in Int :
        h = c.high /\ l = c.low /\ p = d.close /\ u.high = -l /\ u.low = -h /\ v.close = -p
  <2>1. u.high = -c.low /\ u.low = -c.high
    BY <1>4, TurnedParts
  <2>2. v.close = -d.close
    BY <1>4, TurnedParts
  <2> QED  BY <2>1, <2>2, CandleParts
<1>6. Abs((-l) - (-p)) = Abs(l - p) /\ Abs((-h) - (-p)) = Abs(h - p)
  <2>1. PICK x \in Int, y \in Int : x = l - p /\ y = h - p
    OBVIOUS
  <2>2. (-l) - (-p) = -x /\ (-h) - (-p) = -y
    BY <2>1
  <2>3. Abs(-x) = Abs(x) /\ Abs(-y) = Abs(y)
    BY AbsIs
  <2> QED  BY <2>1, <2>2, <2>3
<1>7. (-l) - (-h) = h - l
  OBVIOUS
<1>8. TrueRange(bars, j) = Max({h - l, Abs(h - p), Abs(l - p)})
  BY <1>2, <1>5 DEF TrueRange
<1>9. TrueRange(Turned(bars), j) = Max({(-l) - (-h), Abs((-l) - (-p)), Abs((-h) - (-p))})
  BY <1>3, <1>5 DEF TrueRange
<1>10. {h - l, Abs(l - p), Abs(h - p)} = {h - l, Abs(h - p), Abs(l - p)}
  OBVIOUS
<1> QED  BY <1>6, <1>7, <1>8, <1>9, <1>10

\* A positive factor may be cancelled.
LEMMA Cancel ==
  ASSUME NEW x \in Int, NEW y \in Int, NEW t \in Nat \ {0}, x * t = y * t
  PROVE  x = y
OBVIOUS

\* What a candle upside down adds to the trend.
LEMMA MiddleTurned ==
  ASSUME NEW bars, NEW n \in Nat, Series(bars, n, Candle), NEW i \in First .. n,
         NEW turned, turned = Turned(bars)
  PROVE  /\ Middle(turned[i]) = -Middle(bars[i]) /\ Reach(turned, i) = Reach(bars, i)
         /\ turned[i].close * Scale = -(bars[i].close * Scale)
         /\ turned[i - 1].close * Scale = -(bars[i - 1].close * Scale)
         /\ 2 * bars[i].close # bars[i].high + bars[i].low =>
              bars[i].close * Scale # Middle(bars[i])
<1>1. i \in Nat /\ i \in 1 .. n /\ i - 1 \in 1 .. n /\ i <= n
  BY FirstIs
<1>2. PICK t \in Nat \ {0} : t = Lengths.trend /\ Scale = 2 * t
  BY LengthsAre DEF Scale
<1>3. PICK c \in Candle, d \in Candle : c = bars[i] /\ d = bars[i - 1]
  BY <1>1 DEF Series
<1>4. PICK u, v : u = turned[i] /\ v = turned[i - 1]
  OBVIOUS
<1>5. u = TurnedBar(c) /\ v = TurnedBar(d)
  BY <1>1, <1>3, <1>4, TurnedIs
<1>6. PICK h \in Int, l \in Int, p \in Int, q \in Int :
        /\ h = c.high /\ l = c.low /\ p = c.close /\ q = d.close
        /\ u.high = -l /\ u.low = -h /\ u.close = -p /\ v.close = -q
  <2>1. u.high = -c.low /\ u.low = -c.high /\ u.close = -c.close
    BY <1>5, TurnedParts
  <2>2. v.close = -d.close
    BY <1>5, TurnedParts
  <2> QED  BY <2>1, <2>2, CandleParts
<1>7. Reach(turned, i) = Reach(bars, i)
  <2>1. \A j \in 2 .. i : TrueRange(turned, j) = TrueRange(bars, j)
    <3>1. \A j \in 2 .. i : j \in 2 .. n
      BY <1>1
    <3> QED  BY <3>1, TrueRangeTurned
  <2> QED  BY <1>1, <1>2, <2>1, RangesAgree DEF Reach
<1>8. Middle(u) = -Middle(c)
  <2>1. ((-l) + (-h)) * t = -((h + l) * t)
    OBVIOUS
  <2> QED  BY <1>2, <1>6, <2>1 DEF Middle
<1>9. PICK s \in Int : s = Scale
  BY <1>2
<1>10. (-p) * s = -(p * s) /\ (-q) * s = -(q * s)
  OBVIOUS
<1>11. ASSUME 2 * p # h + l PROVE p * s # (h + l) * t
  <2>1. p * s = (2 * p) * t
    BY <1>2, <1>9
  <2>2. 2 * p \in Int /\ h + l \in Int
    OBVIOUS
  <2> QED  BY <1>11, <2>1, <2>2, Cancel
<1>12. Middle(c) = (h + l) * t
  BY <1>2, <1>6 DEF Middle
<1> QED  BY <1>3, <1>4, <1>6, <1>7, <1>8, <1>9, <1>10, <1>11, <1>12

\* The other side of a state of the trend.
Counter(s, t) == t.upper = -s.lower /\ t.lower = -s.upper /\ (t.up <=> ~s.up)

\* The bands upside down.
LEMMA BandTurned ==
  ASSUME NEW basic \in Int, NEW previous \in Int, NEW close \in Int
  PROVE  /\ Upper(-basic, -previous, -close) = -Lower(basic, previous, close)
         /\ Lower(-basic, -previous, -close) = -Upper(basic, previous, close)
<1>1. (-basic < -previous <=> basic > previous) /\ (-close > -previous <=> close < previous)
  OBVIOUS
<1>2. (-basic > -previous <=> basic < previous) /\ (-close < -previous <=> close > previous)
  OBVIOUS
<1> QED  BY <1>1, <1>2 DEF Upper, Lower

\* The first state of the trend, upside down.
LEMMA SeedTurned ==
  ASSUME NEW bars, NEW n \in Nat, Series(bars, n, Candle), n >= First,
         2 * bars[First].close # bars[First].high + bars[First].low
  PROVE  Counter(SeedTrend(bars), SeedTrend(Turned(bars)))
<1>1. First \in First .. n
  BY FirstIs
<1>2. PICK m \in Int, r \in Int, close \in Int :
        m = Middle(bars[First]) /\ r = Reach(bars, First) /\ close = bars[First].close * Scale
  BY <1>1, MiddleType
<1>3. PICK turned : turned = Turned(bars)
  OBVIOUS
<1>4. /\ Middle(turned[First]) = -m /\ Reach(turned, First) = r
      /\ turned[First].close * Scale = -close /\ close # m
  BY <1>1, <1>2, <1>3, MiddleTurned
<1>5. PICK a \in BOOLEAN, b \in BOOLEAN : (a <=> close >= m) /\ (b <=> -close >= -m)
  OBVIOUS
<1>6. a = (close >= m) /\ b = (-close >= -m) /\ (b <=> ~a)
  BY <1>4, <1>5
<1>7. SeedTrend(bars) = Directed(m + r, m - r, a)
  BY <1>2, <1>6 DEF SeedTrend
<1>8. SeedTrend(turned) = Directed((-m) + r, (-m) - r, b)
  BY <1>4, <1>6 DEF SeedTrend
<1>9. (-m) + r = -(m - r) /\ (-m) - r = -(m + r)
  OBVIOUS
<1> QED  BY <1>3, <1>6, <1>7, <1>8, <1>9 DEF Counter, Directed

\* What is carried from candle to candle, upside down.
LEMMA CarriedTurned ==
  ASSUME NEW bars, NEW n \in Nat, Series(bars, n, Candle), NEW i \in First .. n,
         NEW p \in TrendState, NEW q \in TrendState, Counter(p, q)
  PROVE  Counter(Carried(bars, i, p), Carried(Turned(bars), i, q))
<1>1. PICK m \in Int, r \in Int, close \in Int, before \in Int :
        /\ m = Middle(bars[i]) /\ r = Reach(bars, i)
        /\ close = bars[i].close * Scale /\ before = bars[i - 1].close * Scale
  BY MiddleType
<1>2. PICK turned : turned = Turned(bars)
  OBVIOUS
<1>3. /\ Middle(turned[i]) = -m /\ Reach(turned, i) = r
      /\ turned[i].close * Scale = -close /\ turned[i - 1].close * Scale = -before
  BY <1>1, <1>2, MiddleTurned
<1>4. PICK top \in Int, bottom \in Int, was \in BOOLEAN :
        top = p.upper /\ bottom = p.lower /\ was = p.up
  BY StateParts
<1>5. PICK wasnot \in BOOLEAN :
        q.upper = -bottom /\ q.lower = -top /\ wasnot = q.up /\ (wasnot <=> ~was)
  BY <1>4, StateParts DEF Counter
<1>6. PICK over \in Int, under \in Int : over = m + r /\ under = m - r
  OBVIOUS
<1>7. (-m) + r = -under /\ (-m) - r = -over
  BY <1>6
<1>8. PICK upper \in Int, lower \in Int :
        /\ upper = Upper(over, top, before) /\ lower = Lower(under, bottom, before)
        /\ Upper(-under, -bottom, -before) = -lower /\ Lower(-over, -top, -before) = -upper
  <2>1. Upper(over, top, before) \in Int /\ Lower(under, bottom, before) \in Int
    BY BandType
  <2>2. Upper(-under, -bottom, -before) = -Lower(under, bottom, before)
    BY BandTurned
  <2>3. Lower(-over, -top, -before) = -Upper(over, top, before)
    BY BandTurned
  <2> QED  BY <2>1, <2>2, <2>3
<1>9. PICK up \in BOOLEAN : up = IF was THEN close >= lower ELSE close > upper
  BY SideIs
<1>10. PICK down \in BOOLEAN : down = IF wasnot THEN -close >= -upper ELSE -close > -lower
  <2>1. -close \in Int /\ -upper \in Int /\ -lower \in Int
    OBVIOUS
  <2> QED  BY <2>1, SideIs
<1>11. down <=> ~up
  BY <1>5, <1>9, <1>10
<1>12. Carried(bars, i, p) = Directed(upper, lower, up)
  <2>1. Carried(bars, i, p) =
          Directed(upper, lower, IF p.up THEN close >= lower ELSE close > upper)
    BY <1>1, <1>4, <1>6, <1>8, CarriedIs
  <2> QED  BY <1>4, <1>9, <2>1
<1>13. Carried(turned, i, q) = Directed(-lower, -upper, down)
  <2>1. Carried(turned, i, q) =
          Directed(-lower, -upper, IF q.up THEN -close >= -upper ELSE -close > -lower)
    BY <1>3, <1>5, <1>7, <1>8, CarriedIs
  <2> QED  BY <1>5, <1>10, <2>1
<1> QED  BY <1>2, <1>11, <1>12, <1>13 DEF Counter, Directed

\* The trend of candles upside down is the opposite trend.
LEMMA TrendTurned ==
  ASSUME NEW bars, NEW n \in Nat, Series(bars, n, Candle), n >= First,
         2 * bars[First].close # bars[First].high + bars[First].low
  PROVE  Counter(Trend(bars)[n], Trend(Turned(bars))[n])
<1>1. PICK a \in Nat : a = First /\ a <= n
  BY FirstIs
<1>2. PICK turned, t, u : turned = Turned(bars) /\ t = Trend(bars) /\ u = Trend(turned)
  OBVIOUS
<1>3. IsTrend(t, bars, n) /\ IsTrend(u, turned, n)
  BY <1>2, TurnedIs, TrendUnfolds
<1> DEFINE Good == {i \in a .. n : Counter(t[i], u[i])}
<1>4. a \in Good
  <2>1. a \in a .. n
    BY <1>1
  <2>2. Counter(SeedTrend(bars), SeedTrend(turned))
    BY <1>2, SeedTurned
  <2> QED  BY <1>1, <1>3, <2>1, <2>2 DEF IsTrend
<1>5. ASSUME NEW i \in a + 1 .. n, i - 1 \in Good PROVE i \in Good
  <2>1. i \in a .. n /\ i \in First .. n /\ i \in First + 1 .. n /\ i - 1 \in First .. n
    BY <1>1
  <2>2. PICK p \in TrendState, q \in TrendState : p = t[i - 1] /\ q = u[i - 1]
    BY <1>3, <2>1 DEF IsTrend
  <2>3. Counter(p, q)
    BY <1>5, <2>2
  <2>4. Counter(Carried(bars, i, p), Carried(turned, i, q))
    BY <1>2, <2>1, <2>3, CarriedTurned
  <2>5. t[i] = Carried(bars, i, p) /\ u[i] = Carried(turned, i, q)
    BY <1>3, <2>1, <2>2 DEF IsTrend
  <2> QED  BY <2>1, <2>4, <2>5
<1> HIDE DEF Good
<1>6. a .. n \subseteq Good
  BY <1>1, <1>4, <1>5, IntervalOneByOne
<1>7. n \in a .. n
  BY <1>1
<1> QED  BY <1>2, <1>6, <1>7 DEF Good

\* The opposite of each word.
LEMMA OppositeIs ==
  /\ Opposite(None) = None /\ Opposite("bullish") = "bearish"
  /\ Opposite("bearish") = "bullish" /\ Opposite("mixed") = "mixed"
  /\ Opposite("doji") = "doji"
  /\ Opposite("hammer") = "shooting_star" /\ Opposite("shooting_star") = "hammer"
  /\ Opposite("bullish_engulfing") = "bearish_engulfing"
  /\ Opposite("bearish_engulfing") = "bullish_engulfing"
  /\ Opposite("morning_star") = "evening_star" /\ Opposite("evening_star") = "morning_star"
<1>1. ASSUME NEW w \in Words PROVE Opposite(w) = Reversed[w]
  BY NoneAssumption DEF Opposite
<1>2. Opposite(None) = None
  BY DEF Opposite
<1>3. /\ Opposite("bullish") = Reversed["bullish"] /\ Opposite("bearish") = Reversed["bearish"]
      /\ Opposite("mixed") = Reversed["mixed"] /\ Opposite("doji") = Reversed["doji"]
      /\ Opposite("hammer") = Reversed["hammer"]
      /\ Opposite("shooting_star") = Reversed["shooting_star"]
      /\ Opposite("bullish_engulfing") = Reversed["bullish_engulfing"]
      /\ Opposite("bearish_engulfing") = Reversed["bearish_engulfing"]
      /\ Opposite("morning_star") = Reversed["morning_star"]
      /\ Opposite("evening_star") = Reversed["evening_star"]
  BY <1>1 DEF Words
<1> QED  BY <1>2, <1>3 DEF Reversed

\* The direction of the supertrend of candles upside down is the opposite one.
LEMMA DirectionTurned ==
  ASSUME NEW bars, NEW n \in Nat, Series(bars, n, Candle),
         n >= First => 2 * bars[First].close # bars[First].high + bars[First].low
  PROVE  /\ Supertrend(bars).direction \in {None, "bullish", "bearish"}
         /\ Supertrend(Turned(bars)).direction = Opposite(Supertrend(bars).direction)
<1>1. PICK turned, s, t : turned = Turned(bars) /\ s = Supertrend(bars) /\ t = Supertrend(turned)
  OBVIOUS
<1>2. Series(turned, n, Candle)
  BY <1>1, TurnedIs
<1>3. CASE n < First
  <2>1. s.direction = None /\ t.direction = None
    BY <1>1, <1>2, <1>3, SupertrendIs
  <2> QED  BY <1>1, <2>1, OppositeIs
<1>4. CASE n >= First
  <2>1. PICK p, q : p = Trend(bars)[n] /\ q = Trend(turned)[n]
    OBVIOUS
  <2>2. /\ p \in TrendState
        /\ p.up => s.direction = "bullish"
        /\ ~p.up => s.direction = "bearish"
    BY <1>1, <1>4, <2>1, SupertrendIs
  <2>3. /\ q \in TrendState
        /\ q.up => t.direction = "bullish"
        /\ ~q.up => t.direction = "bearish"
    BY <1>1, <1>2, <1>4, <2>1, SupertrendIs
  <2>4. q.up <=> ~p.up
    BY <1>1, <1>4, <2>1, TrendTurned DEF Counter
  <2> QED  BY <1>1, <2>2, <2>3, <2>4, OppositeIs
<1> QED  BY <1>3, <1>4, FirstIs

\* The order of two quotients turns with their signs.
LEMMA LessNegated ==
  ASSUME NEW a \in Quotients, NEW b \in Quotients
  PROVE  Less(Negative(a), Negative(b)) <=> Less(b, a)
<1>1. PICK an \in Int, ad \in Int, bn \in Int, bd \in Int :
        an = a.n /\ ad = a.d /\ bn = b.n /\ bd = b.d
  BY PartsOf
<1>2. (-an) * bd = -(an * bd) /\ (-bn) * ad = -(bn * ad)
  OBVIOUS
<1>3. PICK x \in Int, y \in Int : x = an * bd /\ y = bn * ad
  OBVIOUS
<1>4. Less(b, a) <=> y < x
  BY <1>1, <1>3 DEF Less
<1>5. Less(Negative(a), Negative(b)) <=> -x < -y
  BY <1>1, <1>2, <1>3 DEF Less, Negative
<1> QED  BY <1>3, <1>4, <1>5

Sign(macd) == IF Less(macd.signal, macd.macd) THEN "bullish"
              ELSE IF Less(macd.macd, macd.signal) THEN "bearish" ELSE "mixed"
\* The label, from the direction and the MACD.
LEMMA LabelIs ==
  ASSUME NEW macd, NEW direction
  PROVE  TrendLabel(macd, direction) =
           IF None \in {macd.macd, macd.signal, direction} THEN None
           ELSE IF Sign(macd) = direction THEN Sign(macd) ELSE "mixed"
BY DEF TrendLabel, Sign

\* No quotient is below and above another.
LEMMA NotBoth ==
  ASSUME NEW a \in Quotients, NEW b \in Quotients
  PROVE  ~(Less(a, b) /\ Less(b, a))
<1>1. PICK an \in Int, ad \in Int, bn \in Int, bd \in Int :
        an = a.n /\ ad = a.d /\ bn = b.n /\ bd = b.d
  BY PartsOf
<1>2. PICK x \in Int, y \in Int : x = an * bd /\ y = bn * ad
  OBVIOUS
<1> QED  BY <1>1, <1>2 DEF Less

\* The label of candles upside down is the opposite one.
LEMMA LabelTurned ==
  ASSUME NEW a, NEW b, Turns(a.macd, b.macd), Turns(a.signal, b.signal),
         NEW direction \in {None, "bullish", "bearish"}
  PROVE  TrendLabel(b, Opposite(direction)) = Opposite(TrendLabel(a, direction))
<1>1. None \notin Quotients /\ \A q \in Quotients : Negative(q) # None
  BY NoneAssumption, NegativeType
<1>2. (a.macd = None <=> b.macd = None) /\ (a.signal = None <=> b.signal = None)
  BY <1>1 DEF Turns
<1>3. direction = None <=> Opposite(direction) = None
  BY OppositeIs, WordsAreSome
<1>4. CASE None \in {a.macd, a.signal, direction}
  <2>1. None \in {b.macd, b.signal, Opposite(direction)}
    BY <1>2, <1>3, <1>4
  <2> QED  BY <1>4, <2>1, LabelIs, OppositeIs
<1>5. CASE None \notin {a.macd, a.signal, direction}
  <2>1. None \notin {b.macd, b.signal, Opposite(direction)}
    BY <1>2, <1>3, <1>5
  <2>2. PICK m \in Quotients, s \in Quotients :
          m = a.macd /\ s = a.signal /\ b.macd = Negative(m) /\ b.signal = Negative(s)
    BY <1>5 DEF Turns
  <2>3. Sign(a) \in {"bullish", "bearish", "mixed"} /\ Sign(b) = Opposite(Sign(a))
    <3>1. (Less(b.signal, b.macd) <=> Less(m, s)) /\ (Less(b.macd, b.signal) <=> Less(s, m))
      BY <2>2, LessNegated
    <3>2. ~(Less(m, s) /\ Less(s, m))
      BY NotBoth
    <3>3. CASE Less(s, m)
      <4>1. Sign(a) = "bullish" /\ Sign(b) = "bearish"
        BY <2>2, <3>1, <3>2, <3>3 DEF Sign
      <4> QED  BY <4>1, OppositeIs
    <3>4. CASE Less(m, s)
      <4>1. Sign(a) = "bearish" /\ Sign(b) = "bullish"
        BY <2>2, <3>1, <3>2, <3>4 DEF Sign
      <4> QED  BY <4>1, OppositeIs
    <3>5. CASE ~Less(m, s) /\ ~Less(s, m)
      <4>1. Sign(a) = "mixed" /\ Sign(b) = "mixed"
        BY <2>2, <3>1, <3>5 DEF Sign
      <4> QED  BY <4>1, OppositeIs
    <3> QED  BY <3>3, <3>4, <3>5
  <2>4. direction \in {"bullish", "bearish"}
    BY <1>5
  <2>5. TrendLabel(a, direction) = IF Sign(a) = direction THEN Sign(a) ELSE "mixed"
    BY <1>5, LabelIs
  <2>6. TrendLabel(b, Opposite(direction))
          = IF Sign(b) = Opposite(direction) THEN Sign(b) ELSE "mixed"
    BY <2>1, LabelIs
  <2>7. Sign(b) = Opposite(direction) <=> Sign(a) = direction
    BY <2>3, <2>4, OppositeIs
  <2> QED  BY <2>3, <2>5, <2>6, <2>7, OppositeIs
<1> QED  BY <1>4, <1>5

\* The smallest of two integers is the opposite of the larger of their opposites.
LEMMA SmallerIs ==
  ASSUME NEW a \in Int, NEW b \in Int
  PROVE  Min({a, b}) = -Larger(-a, -b)
<1>1. \E x \in {a, b} : \A y \in {a, b} : x <= y
  OBVIOUS
<1>2. PICK x : x = Min({a, b})
  OBVIOUS
<1>3. x \in {a, b} /\ x <= a /\ x <= b
  BY <1>1, <1>2 DEF Min
<1> QED  BY <1>2, <1>3 DEF Larger

\* The measures of a candle.
LEMMA Measures ==
  ASSUME NEW c \in Candle
  PROVE  /\ Body(c) \in Int /\ CandleRange(c) \in Int
         /\ UpperShadow(c) \in Int /\ LowerShadow(c) \in Int
<1>1. PICK o \in Int, h \in Int, l \in Int, e \in Int :
        o = c.open /\ h = c.high /\ l = c.low /\ e = c.close
  BY CandleParts
<1>2. e - o \in Int /\ h - l \in Int /\ -o \in Int /\ -e \in Int
  OBVIOUS
<1>3. Body(c) \in Int
  BY <1>1, <1>2, AbsIs DEF Body
<1>4. CandleRange(c) \in Int
  BY <1>1, <1>2 DEF CandleRange, Larger
<1>5. UpperShadow(c) \in Int
  <2>1. Larger(o, e) \in Int
    BY LargerIs
  <2> QED  BY <1>1, <2>1 DEF UpperShadow
<1>6. LowerShadow(c) \in Int
  <2>1. Min({o, e}) = -Larger(-o, -e) /\ Larger(-o, -e) \in Int
    BY <1>2, LargerIs, SmallerIs
  <2> QED  BY <1>1, <2>1 DEF LowerShadow
<1> QED  BY <1>3, <1>4, <1>5, <1>6

\* Body and range stay, and the shadows change places.
LEMMA MeasuresTurned ==
  ASSUME NEW c \in Candle, NEW d, d = TurnedBar(c)
  PROVE  /\ Body(d) = Body(c) /\ CandleRange(d) = CandleRange(c)
         /\ UpperShadow(d) = LowerShadow(c) /\ LowerShadow(d) = UpperShadow(c)
         /\ (Bullish(d) <=> Bearish(c)) /\ (Bearish(d) <=> Bullish(c))
<1>1. PICK o \in Int, h \in Int, l \in Int, e \in Int :
        /\ o = c.open /\ h = c.high /\ l = c.low /\ e = c.close
        /\ d.open = -o /\ d.high = -l /\ d.low = -h /\ d.close = -e
  <2>1. d.open = -c.open /\ d.high = -c.low /\ d.low = -c.high /\ d.close = -c.close
    BY TurnedParts
  <2> QED  BY <2>1, CandleParts
<1>2. Body(d) = Body(c)
  <2>1. PICK x \in Int : x = e - o
    OBVIOUS
  <2>2. (-e) - (-o) = -x
    BY <2>1
  <2>3. Abs(-x) = Abs(x)
    BY AbsIs
  <2> QED  BY <1>1, <2>1, <2>2, <2>3 DEF Body
<1>3. CandleRange(d) = CandleRange(c)
  <2>1. (-l) - (-h) = h - l
    OBVIOUS
  <2> QED  BY <1>1, <2>1 DEF CandleRange
<1>4. UpperShadow(d) = LowerShadow(c)
  <2>1. PICK x \in Int : x = Larger(-o, -e) /\ Min({o, e}) = -x
    <3>1. -o \in Int /\ -e \in Int
      OBVIOUS
    <3>2. Larger(-o, -e) \in Int
      BY <3>1, LargerIs
    <3>3. Min({o, e}) = -Larger(-o, -e)
      BY SmallerIs
    <3> QED  BY <3>2, <3>3
  <2>2. UpperShadow(d) = -l - x
    BY <1>1, <2>1 DEF UpperShadow
  <2>3. LowerShadow(c) = -x - l
    BY <1>1, <2>1 DEF LowerShadow
  <2> QED  BY <2>2, <2>3
<1>5. LowerShadow(d) = UpperShadow(c)
  <2>1. PICK x \in Int : x = Larger(o, e) /\ Min({-o, -e}) = -x
    <3>1. -o \in Int /\ -e \in Int /\ -(-o) = o /\ -(-e) = e
      OBVIOUS
    <3>2. PICK a \in Int, b \in Int : a = -o /\ b = -e /\ o = -a /\ e = -b
      BY <3>1
    <3>3. Min({a, b}) = -Larger(-a, -b)
      BY SmallerIs
    <3>4. Larger(o, e) \in Int
      BY LargerIs
    <3> QED  BY <3>2, <3>3, <3>4
  <2>2. LowerShadow(d) = (-x) - (-h)
    BY <1>1, <2>1 DEF LowerShadow
  <2>3. UpperShadow(c) = h - x
    BY <1>1, <2>1 DEF UpperShadow
  <2> QED  BY <2>2, <2>3
<1>6. (Bullish(d) <=> Bearish(c)) /\ (Bearish(d) <=> Bullish(c))
  BY <1>1 DEF Bullish, Bearish
<1> QED  BY <1>2, <1>3, <1>4, <1>5, <1>6

\* When a pattern is seen, for a candle c, the one before it and the first of three.
Doji(c) == CandleRange(c) > 0 /\ 10 * Body(c) <= CandleRange(c)
Hammer(c) == CandleRange(c) > 0 /\ LowerShadow(c) >= 2 * Body(c) /\ Small(UpperShadow(c), c)
Star(c) == CandleRange(c) > 0 /\ UpperShadow(c) >= 2 * Body(c) /\ Small(LowerShadow(c), c)
Engulfing(c, previous) == Bearish(previous) /\ Bullish(c)
                          /\ c.open <= previous.close /\ c.close >= previous.open
Engulfed(c, previous) == Bullish(previous) /\ Bearish(c)
                         /\ c.open >= previous.close /\ c.close <= previous.open
Pause(previous) == 100 * Body(previous) <= 35 * CandleRange(previous)
Morning(c, previous, first) == Bearish(first) /\ Pause(previous) /\ Bullish(c)
                               /\ 2 * c.close > first.open + first.close
Evening(c, previous, first) == Bullish(first) /\ Pause(previous) /\ Bearish(c)
                               /\ 2 * c.close < first.open + first.close

\* The patterns of a series, by those of one, two and three candles.
LEMMA PatternsAre ==
  ASSUME NEW bars, NEW n, n = Len(bars), NEW p
  PROVE  p \in Patterns(bars) <=>
           \/ p = "doji" /\ Doji(bars[n])
           \/ p = "hammer" /\ Hammer(bars[n])
           \/ p = "shooting_star" /\ Star(bars[n])
           \/ p = "bullish_engulfing" /\ n >= 2 /\ Engulfing(bars[n], bars[n - 1])
           \/ p = "bearish_engulfing" /\ n >= 2 /\ Engulfed(bars[n], bars[n - 1])
           \/ p = "morning_star" /\ n >= 3 /\ Morning(bars[n], bars[n - 1], bars[n - 2])
           \/ p = "evening_star" /\ n >= 3 /\ Evening(bars[n], bars[n - 1], bars[n - 2])
BY DEF Patterns, Doji, Hammer, Star, Engulfing, Engulfed, Pause, Morning, Evening

\* The patterns of one candle turn.
LEMMA OnePattern ==
  ASSUME NEW c \in Candle, NEW d, d = TurnedBar(c)
  PROVE  (Doji(d) <=> Doji(c)) /\ (Hammer(d) <=> Star(c)) /\ (Star(d) <=> Hammer(c))
<1>1. /\ Body(d) = Body(c) /\ CandleRange(d) = CandleRange(c)
      /\ UpperShadow(d) = LowerShadow(c) /\ LowerShadow(d) = UpperShadow(c)
  BY MeasuresTurned
<1>2. \A x : Small(x, d) <=> Small(x, c)
  BY <1>1 DEF Small
<1> QED  BY <1>1, <1>2 DEF Doji, Hammer, Star

\* The patterns of two candles turn.
LEMMA TwoPattern ==
  ASSUME NEW c \in Candle, NEW d, d = TurnedBar(c), NEW b \in Candle, NEW e, e = TurnedBar(b)
  PROVE  (Engulfing(d, e) <=> Engulfed(c, b)) /\ (Engulfed(d, e) <=> Engulfing(c, b))
<1>1. (Bullish(d) <=> Bearish(c)) /\ (Bearish(d) <=> Bullish(c))
  BY MeasuresTurned
<1>2. (Bullish(e) <=> Bearish(b)) /\ (Bearish(e) <=> Bullish(b))
  BY MeasuresTurned
<1>3. PICK x \in Int, y \in Int : x = c.open /\ y = c.close /\ d.open = -x /\ d.close = -y
  <2>1. d.open = -c.open /\ d.close = -c.close
    BY TurnedParts
  <2> QED  BY <2>1, CandleParts
<1>4. PICK v \in Int, w \in Int : v = b.open /\ w = b.close /\ e.open = -v /\ e.close = -w
  <2>1. e.open = -b.open /\ e.close = -b.close
    BY TurnedParts
  <2> QED  BY <2>1, CandleParts
<1>5. /\ (-x <= -w <=> x >= w) /\ (-y >= -v <=> y <= v)
      /\ (-x >= -w <=> x <= w) /\ (-y <= -v <=> y >= v)
  OBVIOUS
<1> QED  BY <1>1, <1>2, <1>3, <1>4, <1>5 DEF Engulfing, Engulfed

\* The patterns of three candles turn.
LEMMA ThreePattern ==
  ASSUME NEW c \in Candle, NEW d, d = TurnedBar(c), NEW b \in Candle, NEW e, e = TurnedBar(b),
         NEW a \in Candle, NEW f, f = TurnedBar(a)
  PROVE  (Morning(d, e, f) <=> Evening(c, b, a)) /\ (Evening(d, e, f) <=> Morning(c, b, a))
<1>1. (Bullish(d) <=> Bearish(c)) /\ (Bearish(d) <=> Bullish(c))
  BY MeasuresTurned
<1>2. (Bullish(f) <=> Bearish(a)) /\ (Bearish(f) <=> Bullish(a))
  BY MeasuresTurned
<1>3. Pause(e) <=> Pause(b)
  BY MeasuresTurned DEF Pause
<1>4. PICK y \in Int : y = c.close /\ d.close = -y
  <2>1. d.close = -c.close
    BY TurnedParts
  <2> QED  BY <2>1, CandleParts
<1>5. PICK v \in Int, w \in Int : v = a.open /\ w = a.close /\ f.open = -v /\ f.close = -w
  <2>1. f.open = -a.open /\ f.close = -a.close
    BY TurnedParts
  <2> QED  BY <2>1, CandleParts
<1>6. /\ (2 * (-y) > (-v) + (-w) <=> 2 * y < v + w)
      /\ (2 * (-y) < (-v) + (-w) <=> 2 * y > v + w)
  OBVIOUS
<1> QED  BY <1>1, <1>2, <1>3, <1>4, <1>5, <1>6 DEF Morning, Evening

\* The patterns of candles upside down are the opposite patterns.
LEMMA PatternsTurned ==
  ASSUME NEW bars, NEW n \in Nat \ {0}, Series(bars, n, Candle), NEW p
  PROVE  p \in Patterns(Turned(bars)) <=> \E w \in Patterns(bars) : p = Opposite(w)
<1>1. PICK turned : turned = Turned(bars)
  OBVIOUS
<1>2. n \in Nat /\ n \in 1 .. n
  OBVIOUS
<1>3. Len(bars) = n /\ Len(turned) = n
  BY <1>1, <1>2, TurnedIs, SeriesLength
<1>4. PICK c, b, a, d, e, f :
        /\ c = bars[n] /\ b = bars[n - 1] /\ a = bars[n - 2]
        /\ d = turned[n] /\ e = turned[n - 1] /\ f = turned[n - 2]
  OBVIOUS
<1>5. \A i \in 1 .. n : bars[i] \in Candle /\ turned[i] = TurnedBar(bars[i])
  BY <1>1, <1>2, TurnedIs DEF Series
<1>6. c \in Candle /\ d = TurnedBar(c)
  BY <1>2, <1>4, <1>5
<1>7. n >= 2 => b \in Candle /\ e = TurnedBar(b)
  <2>1. n >= 2 => n - 1 \in 1 .. n
    OBVIOUS
  <2> QED  BY <1>4, <1>5, <2>1
<1>8. n >= 3 => a \in Candle /\ f = TurnedBar(a) /\ n >= 2
  <2>1. n >= 3 => n - 2 \in 1 .. n /\ n >= 2
    OBVIOUS
  <2> QED  BY <1>4, <1>5, <2>1
<1>9. (Doji(d) <=> Doji(c)) /\ (Hammer(d) <=> Star(c)) /\ (Star(d) <=> Hammer(c))
  BY <1>6, OnePattern
<1>10. n >= 2 => (Engulfing(d, e) <=> Engulfed(c, b)) /\ (Engulfed(d, e) <=> Engulfing(c, b))
  BY <1>6, <1>7, TwoPattern
<1>11. n >= 3 => (Morning(d, e, f) <=> Evening(c, b, a)) /\ (Evening(d, e, f) <=> Morning(c, b, a))
  BY <1>6, <1>7, <1>8, ThreePattern
<1>12. ASSUME NEW w
       PROVE  w \in Patterns(bars) <=>
                \/ w = "doji" /\ Doji(c)
                \/ w = "hammer" /\ Hammer(c)
                \/ w = "shooting_star" /\ Star(c)
                \/ w = "bullish_engulfing" /\ n >= 2 /\ Engulfing(c, b)
                \/ w = "bearish_engulfing" /\ n >= 2 /\ Engulfed(c, b)
                \/ w = "morning_star" /\ n >= 3 /\ Morning(c, b, a)
                \/ w = "evening_star" /\ n >= 3 /\ Evening(c, b, a)
  BY <1>3, <1>4, PatternsAre
<1>13. p \in Patterns(turned) <=>
         \/ p = "doji" /\ Doji(d)
         \/ p = "hammer" /\ Hammer(d)
         \/ p = "shooting_star" /\ Star(d)
         \/ p = "bullish_engulfing" /\ n >= 2 /\ Engulfing(d, e)
         \/ p = "bearish_engulfing" /\ n >= 2 /\ Engulfed(d, e)
         \/ p = "morning_star" /\ n >= 3 /\ Morning(d, e, f)
         \/ p = "evening_star" /\ n >= 3 /\ Evening(d, e, f)
  BY <1>3, <1>4, PatternsAre
<1>14. ASSUME p \in Patterns(turned) PROVE \E w \in Patterns(bars) : p = Opposite(w)
  BY <1>9, <1>10, <1>11, <1>12, <1>13, <1>14, OppositeIs
<1>15. ASSUME NEW w \in Patterns(bars), p = Opposite(w) PROVE p \in Patterns(turned)
  BY <1>9, <1>10, <1>11, <1>12, <1>13, <1>15, OppositeIs
<1> QED  BY <1>1, <1>14, <1>15

\* The numbers calculated from candles upside down are turned.
LEMMA ValuesMirror ==
  ASSUME NEW bars, NEW n \in Nat \ {0}, Series(bars, n, Candle)
  PROVE  Mirrors(SnapshotValues(Turned(bars)), SnapshotValues(bars), bars)
<1>1. PICK turned, v, w, closes, back :
        /\ turned = Turned(bars) /\ v = SnapshotValues(bars) /\ w = SnapshotValues(turned)
        /\ closes = Closes(bars, n) /\ back = Closes(turned, n)
  OBVIOUS
<1>2. n \in Nat /\ Series(turned, n, Candle) /\ back = NegativeCloses(closes, n)
  BY <1>1, TurnedIs
<1>3. /\ v.supertrend = Supertrend(bars) /\ v.candlestick_patterns = Patterns(bars)
      /\ v.trend_label = TrendLabel(Macd(closes), Supertrend(bars).direction)
  BY <1>1, <1>2, SnapshotFields
<1>4. /\ w.supertrend = Supertrend(turned) /\ w.candlestick_patterns = Patterns(turned)
      /\ w.trend_label = TrendLabel(Macd(back), Supertrend(turned).direction)
  <2>1. turned = Turned(bars) /\ w = SnapshotValues(turned) /\ back = Closes(turned, n)
    BY <1>1
  <2>2. Series(turned, n, Candle) /\ n \in Nat
    BY <1>2
  <2> QED  BY <2>1, <2>2, SnapshotFields
<1>5. w.candlestick_patterns = {Opposite(p) : p \in v.candlestick_patterns}
  <2>1. \A p : p \in Patterns(turned) <=> \E q \in Patterns(bars) : p = Opposite(q)
    BY <1>1, PatternsTurned
  <2> QED  BY <1>3, <1>4, <2>1
<1>6. ASSUME Len(bars) < Lengths.trend + 1
             \/ 2 * bars[Lengths.trend + 1].close
                  # bars[Lengths.trend + 1].high + bars[Lengths.trend + 1].low
      PROVE  /\ w.supertrend.direction = Opposite(v.supertrend.direction)
             /\ w.trend_label = Opposite(v.trend_label)
  <2>1. PICK direction : direction = Supertrend(bars).direction
    OBVIOUS
  <2>2. n >= First => 2 * bars[First].close # bars[First].high + bars[First].low
    <3>1. Len(bars) = n
      BY <1>2, SeriesLength
    <3>2. First = Lengths.trend + 1 /\ First \in Nat
      BY FirstIs DEF First
    <3> QED  BY <1>6, <3>1, <3>2
  <2>3. direction \in {None, "bullish", "bearish"}
        /\ Supertrend(turned).direction = Opposite(direction)
    BY <1>1, <1>2, <2>1, <2>2, DirectionTurned
  <2>4. PICK a, b : a = Macd(closes) /\ b = Macd(back)
    OBVIOUS
  <2>5. Turns(a.macd, b.macd) /\ Turns(a.signal, b.signal)
    <3>1. Series(closes, n, Int)
      BY <1>1, <1>2, ClosesAre
    <3> QED  BY <1>2, <2>4, <3>1, MacdIs
  <2>6. TrendLabel(b, Opposite(direction)) = Opposite(TrendLabel(a, direction))
    BY <2>3, <2>5, LabelTurned
  <2> QED  BY <1>3, <1>4, <2>1, <2>3, <2>4, <2>6
<1>7. Mirrors(w, v, bars)
  BY <1>5, <1>6 DEF Mirrors
<1> QED  BY <1>1, <1>7

-----------------------------------------------------------------------------
(* The candles in their order.                                             *)

\* A table of candles: when each begins, and the candle.
CandleTable(f) ==
  /\ DOMAIN f \subseteq Int /\ IsFiniteSet(DOMAIN f)
  /\ \A t \in DOMAIN f : f[t] \in Candle

Earlier(times) == [t \in times |-> {u \in times : u < t}]

\* The times of a table are ordered by the times before them.
LEMMA TimesOrdered ==
  ASSUME NEW times, times \subseteq Int
  PROVE  StrictOrder(times, Earlier(times))
<1>1. PICK before : before = Earlier(times) /\ before = [t \in times |-> {u \in times : u < t}]
  BY DEF Earlier
<1>2. before \in [times -> SUBSET times]
  BY <1>1
<1>3. \A i \in times : i \notin before[i]
  BY <1>1
<1>4. ASSUME NEW i \in times, NEW j \in times, j \in before[i] PROVE before[j] \subseteq before[i]
  <2>1. i \in Int /\ j \in Int /\ j < i
    BY <1>1, <1>4
  <2>2. \A u \in times : u \in Int /\ (u < j => u < i)
    BY <2>1
  <2> QED  BY <1>1, <2>2
<1>5. \A i \in times, j \in times : i # j => i \in before[j] \/ j \in before[i]
  BY <1>1
<1> QED  BY <1>1, <1>2, <1>3, <1>4, <1>5 DEF StrictOrder

\* Every place in the order of the times is taken.
LEMMA InOrder ==
  ASSUME NEW times, IsFiniteSet(times), NEW before, before = Earlier(times),
         StrictOrder(times, before), NEW j \in Nat, j < Cardinality(times)
  PROVE  \E t \in times : Cardinality({u \in times : u < t}) = j
<1>1. PICK i \in times : Cardinality(before[i]) = j
  BY PlacesTaken
<1> QED  BY <1>1 DEF Earlier

\* The n-th time of a table is one of its times.
LEMMA NthIs ==
  ASSUME NEW times, times \subseteq Int, IsFiniteSet(times), NEW k \in 1 .. Cardinality(times)
  PROVE  Nth(times, k) \in times
<1>1. PICK j \in Nat : j = k - 1 /\ j < Cardinality(times)
  BY FS_CardinalityType
<1>2. PICK t \in times : Cardinality({u \in times : u < t}) = j
  <2>1. PICK before : before = Earlier(times) /\ StrictOrder(times, before)
    BY TimesOrdered
  <2> QED  BY <1>1, <2>1, InOrder
<1> QED  BY <1>1, <1>2 DEF Nth

\* The candles of a table, in their order, are a series of candles.
LEMMA BarsAre ==
  ASSUME NEW loaded, CandleTable(loaded), DOMAIN loaded # {}
  PROVE  \E n \in Nat \ {0} : Series(Bars(loaded), n, Candle)
<1>1. PICK times, n : times = DOMAIN loaded /\ n = Cardinality(times)
  OBVIOUS
<1>2. times \subseteq Int /\ IsFiniteSet(times) /\ times # {}
  BY <1>1 DEF CandleTable
<1>3. n \in Nat \ {0}
  BY <1>1, <1>2, FS_CardinalityType, FS_EmptySet
<1>4. Bars(loaded) = [k \in 1 .. n |-> loaded[Nth(times, k)]]
  BY <1>1 DEF Bars
<1>5. ASSUME NEW k \in 1 .. n PROVE loaded[Nth(times, k)] \in Candle
  <2>1. Nth(times, k) \in times
    BY <1>1, <1>2, NthIs
  <2> QED  BY <1>1, <2>1 DEF CandleTable
<1>6. Series(Bars(loaded), n, Candle)
  BY <1>4, <1>5 DEF Series
<1> QED  BY <1>3, <1>6

\* A table over a table is a table.
LEMMA OverTable ==
  ASSUME NEW new, CandleTable(new), NEW old, CandleTable(old)
  PROVE  CandleTable(Over(new, old))
<1>1. PICK over, both :
        /\ over = Over(new, old) /\ both = DOMAIN new \cup DOMAIN old
        /\ over = [x \in both |-> IF x \in DOMAIN new THEN new[x] ELSE old[x]]
  BY DEF Over
<1>2. both \subseteq Int /\ IsFiniteSet(both)
  BY <1>1, FS_Union DEF CandleTable
<1>3. \A t \in both : over[t] \in Candle
  BY <1>1 DEF CandleTable
<1> QED  BY <1>1, <1>2, <1>3 DEF CandleTable

\* The empty table.
LEMMA NoTable == CandleTable(Empty)
BY FS_EmptySet DEF CandleTable, Empty

\* A candle that has not closed is a candle.
LEMMA FormingIs ==
  ASSUME NEW c \in Candle
  PROVE  Forming(c) \in Candle
BY DEF Candle, Forming

\* MEXC gives a table of candles.
LEMMA KlinesTable ==
  ASSUME chart \in Charts, NEW frame \in Frames, NEW from \in Int, NEW to \in Int
  PROVE  CandleTable(Klines(frame, from, to))
<1>1. PICK given :
        /\ given = DOMAIN Klines(frame, from, to)
        /\ given \subseteq {t \in DOMAIN chart[frame] : from <= t /\ t <= to}
        /\ Klines(frame, from, to) =
             [t \in given |-> IF t + Width[frame] <= clock THEN chart[frame][t]
                              ELSE Forming(chart[frame][t])]
  BY DEF Klines
<1>2. /\ DOMAIN chart[frame] \subseteq Int
      /\ \A t \in DOMAIN chart[frame] : chart[frame][t] \in Candle
  BY ChartsAssumption DEF Frames
<1>3. given \subseteq Int /\ IsFiniteSet(given)
  <2>1. given \in SUBSET (from .. to)
    BY <1>1, <1>2
  <2>2. IsFiniteSet(from .. to)
    BY FS_Interval
  <2>3. IsFiniteSet(given)
    BY <2>1, <2>2, FS_Subset
  <2> QED  BY <1>1, <1>2, <2>3
<1>4. \A t \in given : Klines(frame, from, to)[t] \in Candle
  BY <1>1, <1>2, FormingIs
<1> QED  BY <1>1, <1>3, <1>4 DEF CandleTable

\* The candles up to a time are a table.
LEMMA UpToTable ==
  ASSUME NEW frame, NEW anchor, CandleTable(candles[frame])
  PROVE  CandleTable(UpTo(frame, anchor))
<1>1. PICK times, loaded :
        /\ loaded = UpTo(frame, anchor) /\ times = {t \in DOMAIN candles[frame] : t <= anchor}
        /\ loaded = [t \in times |-> candles[frame][t]]
  BY DEF UpTo
<1>2. times \subseteq Int /\ IsFiniteSet(times)
  <2>1. times \in SUBSET DOMAIN candles[frame]
    BY <1>1
  <2> QED  BY <2>1, FS_Subset DEF CandleTable
<1> QED  BY <1>1, <1>2 DEF CandleTable

-----------------------------------------------------------------------------
(* What is in the tables.                                                  *)

Calculated(snapshot) ==
  /\ CandleTable(snapshot.used) /\ DOMAIN snapshot.used # {}
  /\ snapshot.values = SnapshotValues(Bars(snapshot.used))

\* Second inductive invariant: what is fetched and stored are candles, and a snapshot has the
\* values of those it was calculated from.
ValuesInv ==
  /\ \A frame \in Frames : CandleTable(candles[frame])
  /\ \A s \in Requests : pc[s] \in Working => CandleTable(request[s].fetched)
  /\ \A key \in DOMAIN snapshots : Calculated(snapshots[key])

\* A step of one request, that fetches candles or ends, changes what no other one has fetched.
LEMMA FetchedKept ==
  ASSUME IInv, ValuesInv, NEW s \in Requests, NEW r, NEW at,
         request' = [request EXCEPT ![s] = r], pc' = [pc EXCEPT ![s] = at],
         at \in Working => CandleTable(r.fetched), NEW q \in Requests, pc'[q] \in Working
  PROVE  CandleTable(request'[q].fetched)
<1>1. CASE q = s
  BY <1>1 DEF IInv
<1>2. CASE q # s
  <2>1. request'[q] = request[q] /\ pc'[q] = pc[q]
    BY <1>2 DEF IInv
  <2> QED  BY <2>1 DEF ValuesInv
<1> QED  BY <1>1, <1>2

\* The parts of a request.
LEMMA RequestParts ==
  ASSUME IInv, NEW s \in Requests, pc[s] \in Working, NEW r, r = request[s]
  PROVE  /\ r.position \in Positions /\ r.order \in Orders /\ Current(r) \in Frames
         /\ r.next \in Int /\ r.end \in Int
<1>1. RequestOK(r, pc[s])
  BY DEF IInv
<1>2. r \in RequestRecord(r.fetched)
  BY <1>1 DEF RequestOK, Fetching
<1>3. /\ r.position \in Positions /\ r.order \in Orders /\ r.left \in Seq(Frames) \ {<< >>}
      /\ r.next \in Int /\ r.end \in Int
  BY <1>2 DEF RequestRecord
<1> QED  BY <1>3, HeadIsFrame DEF Current

\* The end of a request keeps the invariant.
LEMMA EndsTyped ==
  ASSUME IInv, ValuesInv, NEW s \in Requests, NEW outcome \in Ended, End(s, outcome)
  PROVE  \A q \in Requests : pc'[q] \in Working => CandleTable(request'[q].fetched)
<1>1. PICK r : r = NoRequest
  OBVIOUS
<1>2. outcome \notin Working
  BY DEF Ended, Working
<1>3. request' = [request EXCEPT ![s] = r] /\ pc' = [pc EXCEPT ![s] = outcome]
  BY <1>1 DEF End
<1> QED  BY <1>2, <1>3, FetchedKept

\* The begin of a request keeps the invariant.
LEMMA BeginTyped ==
  ASSUME IInv, ValuesInv, NEW s \in Requests, Begin(s)
  PROVE  ValuesInv'
<1>1. PICK position \in Positions, order \in Orders :
        /\ request' = [request EXCEPT ![s] = Asked(position, order, order)]
        /\ pc' = [pc EXCEPT ![s] = "fetch"]
        /\ UNCHANGED <<clock, chart, candles, snapshots>>
  BY DEF Begin
<1>2. PICK r : r = Asked(position, order, order)
  OBVIOUS
<1>3. CandleTable(r.fetched)
  BY <1>2, NoTable DEF Asked
<1>4. \A q \in Requests : pc'[q] \in Working => CandleTable(request'[q].fetched)
  BY <1>1, <1>2, <1>3, FetchedKept
<1> QED  BY <1>1, <1>4 DEF ValuesInv

\* The fetch of a segment keeps the invariant.
LEMMA FetchSegmentTyped ==
  ASSUME IInv, ValuesInv, NEW s \in Requests, FetchSegment(s)
  PROVE  ValuesInv'
<1>1. pc[s] = "fetch" /\ UNCHANGED <<clock, chart, candles, snapshots>>
  BY DEF FetchSegment
<1>2. SUFFICES \A q \in Requests : pc'[q] \in Working => CandleTable(request'[q].fetched)
  BY <1>1 DEF ValuesInv
<1>3. CASE End(s, "upstream")
  BY <1>3, EndsTyped DEF Ended
<1>4. CASE ~ End(s, "upstream")
  <2>1. PICK r, frame, segment, next, klines, more, at :
          /\ r = request[s] /\ frame = Current(r)
          /\ segment = SegmentEnd(r.next, r.end, Width[frame])
          /\ next = NextStart(segment, Width[frame])
          /\ klines = Klines(frame, r.next, segment)
          /\ more = Further(r, Over(r.fetched, klines), next)
          /\ at = IF next <= r.end THEN "fetch" ELSE "store"
    OBVIOUS
  <2>2. request' = [request EXCEPT ![s] = more] /\ pc' = [pc EXCEPT ![s] = at]
    BY <1>4, <2>1 DEF FetchSegment, Current, Further
  <2>3. frame \in Frames /\ r.next \in Int /\ r.end \in Int
    BY <1>1, <2>1, RequestParts DEF Working
  <2>4. segment \in Int
    <3>1. PICK from \in Int, end \in Int : from = r.next /\ end = r.end
      BY <2>3
    <3>2. SegmentIs(frame, from, end, segment, next)
      BY <2>1, <2>3, <3>1, SegmentBounds
    <3> QED  BY <3>2 DEF SegmentIs
  <2>5. CandleTable(klines)
    BY <2>1, <2>3, <2>4, KlinesTable DEF IInv
  <2>6. CandleTable(r.fetched)
    BY <1>1, <2>1 DEF ValuesInv, Working
  <2>7. CandleTable(Over(r.fetched, klines))
    BY <2>5, <2>6, OverTable
  <2>8. more.fetched = Over(r.fetched, klines)
    <3>1. r \in RequestRecord(r.fetched)
      BY <1>1, <2>1 DEF IInv, RequestOK, Fetching, Working
    <3> QED  BY <2>1, <3>1 DEF Further, RequestRecord
  <2> QED  BY <2>2, <2>7, <2>8, FetchedKept
<1> QED  BY <1>3, <1>4

\* The candles that are stored are candles.
LEMMA StoreTyped ==
  ASSUME IInv, ValuesInv, NEW s \in Requests, Store(s)
  PROVE  ValuesInv'
<1>1. PICK r, frame, left : r = request[s] /\ frame = Head(r.left) /\ left = Tail(r.left)
  OBVIOUS
<1>2. /\ pc[s] = "store" /\ UNCHANGED <<clock, chart, snapshots>>
      /\ candles' = [candles EXCEPT ![frame] = Over(@, r.fetched)]
      /\ \/ left = << >> /\ pc' = [pc EXCEPT ![s] = "calculate"] /\ UNCHANGED request
         \/ /\ left # << >> /\ pc' = [pc EXCEPT ![s] = "fetch"]
            /\ request' = [request EXCEPT ![s] = Asked(r.position, r.order, left)]
  BY <1>1 DEF Store
<1>3. CandleTable(r.fetched)
  BY <1>1, <1>2 DEF ValuesInv, Working
<1>4. ASSUME NEW f \in Frames PROVE CandleTable(candles'[f])
  <2>1. CandleTable(candles[f])
    BY DEF ValuesInv
  <2>2. CASE f = frame
    <3>1. candles'[f] = Over(candles[f], r.fetched)
      BY <1>2, <2>2 DEF IInv
    <3> QED  BY <1>3, <2>1, <3>1, OverTable
  <2>3. CASE f # frame
    <3>1. candles'[f] = candles[f]
      BY <1>2, <2>3 DEF IInv
    <3> QED  BY <2>1, <3>1
  <2> QED  BY <2>2, <2>3
<1>5. \A q \in Requests : pc'[q] \in Working => CandleTable(request'[q].fetched)
  <2>1. CASE left = << >>
    <3>1. request' = [request EXCEPT ![s] = r] /\ pc' = [pc EXCEPT ![s] = "calculate"]
      BY <1>1, <1>2, <2>1 DEF IInv
    <3> QED  BY <1>3, <3>1, FetchedKept
  <2>2. CASE left # << >>
    <3>1. PICK again : again = Asked(r.position, r.order, left)
      OBVIOUS
    <3>2. CandleTable(again.fetched)
      BY <3>1, NoTable DEF Asked
    <3>3. request' = [request EXCEPT ![s] = again] /\ pc' = [pc EXCEPT ![s] = "fetch"]
      BY <1>2, <2>2, <3>1
    <3> QED  BY <3>2, <3>3, FetchedKept
  <2> QED  BY <2>1, <2>2
<1> QED  BY <1>2, <1>4, <1>5 DEF ValuesInv

\* The snapshot that is stored has the values of its candles.
LEMMA CalculateTyped ==
  ASSUME IInv, ValuesInv, NEW s \in Requests, Calculate(s)
  PROVE  ValuesInv'
<1>1. PICK r, found, new :
        r = request[s] /\ found = FoundKeys(r) /\ new = Written(r.position, found)
  OBVIOUS
<1>2. /\ pc[s] = "calculate" /\ End(s, "ok") /\ UNCHANGED <<clock, chart, candles>>
      /\ snapshots' = Over(new, snapshots)
  BY <1>1 DEF Calculate, Written, FoundKeys, AskedKeys
<1>3. r.order \in Orders
  BY <1>1, <1>2, RequestParts DEF Working
<1>4. ASSUME NEW key \in found PROVE Calculated(new[key])
  <2>1. PICK loaded : loaded = UpTo(key.frame, Anchors(r.position)[key.anchor])
    OBVIOUS
  <2>2. key.frame \in Frames /\ DOMAIN loaded # {}
    BY <1>1, <1>3, <2>1, OrderTypes DEF FoundKeys, AskedKeys
  <2>3. CandleTable(loaded)
    BY <2>1, <2>2, UpToTable DEF ValuesInv
  <2>4. new[key] = [used |-> loaded, values |-> SnapshotValues(Bars(loaded))]
    BY <1>1, <2>1 DEF Written, Snapshot
  <2> QED  BY <2>2, <2>3, <2>4 DEF Calculated
<1>5. ASSUME NEW key \in DOMAIN snapshots' PROVE Calculated(snapshots'[key])
  <2>1. CASE key \in found
    <3>1. snapshots'[key] = new[key]
      BY <1>1, <1>2, <2>1 DEF Over, Written
    <3> QED  BY <1>4, <2>1, <3>1
  <2>2. CASE key \notin found
    <3>1. key \in DOMAIN snapshots /\ snapshots'[key] = snapshots[key]
      BY <1>1, <1>2, <2>2 DEF Over, Written
    <3> QED  BY <3>1 DEF ValuesInv
  <2> QED  BY <2>1, <2>2
<1>6. \A q \in Requests : pc'[q] \in Working => CandleTable(request'[q].fetched)
  BY <1>2, EndsTyped DEF Ended
<1> QED  BY <1>2, <1>5, <1>6 DEF ValuesInv

\* A request that is lost keeps the invariant.
LEMMA LoseTyped ==
  ASSUME IInv, ValuesInv, NEW s \in Requests, Lose(s)
  PROVE  ValuesInv'
<1>1. End(s, "lost") /\ UNCHANGED <<clock, chart, candles, snapshots>>
  BY DEF Lose
<1>2. \A q \in Requests : pc'[q] \in Working => CandleTable(request'[q].fetched)
  BY <1>1, EndsTyped DEF Ended
<1> QED  BY <1>1, <1>2 DEF ValuesInv

\* The second invariant holds at the beginning.
LEMMA ValuesInitially ==
  ASSUME Init
  PROVE  ValuesInv
<1>1. \A frame \in Frames : CandleTable(candles[frame])
  BY NoTable DEF Init
<1>2. DOMAIN snapshots = {}
  BY DEF Init, Empty
<1>3. \A s \in Requests : pc[s] \notin Working
  BY DEF Init, Working
<1> QED  BY <1>1, <1>2, <1>3 DEF ValuesInv

\* Every step keeps the second invariant.
LEMMA ValuesStep ==
  ASSUME IInv, ValuesInv, [Next]_vars
  PROVE  ValuesInv'
<1>1. CASE Tick
  BY <1>1 DEF Tick, ValuesInv
<1>2. ASSUME NEW s \in Requests, Begin(s) PROVE ValuesInv'
  BY <1>2, BeginTyped
<1>3. ASSUME NEW s \in Requests, FetchSegment(s) PROVE ValuesInv'
  BY <1>3, FetchSegmentTyped
<1>4. ASSUME NEW s \in Requests, Store(s) PROVE ValuesInv'
  BY <1>4, StoreTyped
<1>5. ASSUME NEW s \in Requests, Calculate(s) PROVE ValuesInv'
  BY <1>5, CalculateTyped
<1>6. ASSUME NEW s \in Requests, Lose(s) PROVE ValuesInv'
  BY <1>6, LoseTyped
<1>7. CASE UNCHANGED vars
  BY <1>7 DEF vars, ValuesInv
<1> QED  BY <1>1, <1>2, <1>3, <1>4, <1>5, <1>6, <1>7 DEF Next

\* A snapshot has the values of the candles it was calculated from.
LEMMA SnapshotsAreCalculated == Spec => [](\A key \in DOMAIN snapshots : Calculated(snapshots[key]))
<1>1. Init => IInv /\ ValuesInv
  BY Initially, ValuesInitially
<1>2. IInv /\ ValuesInv /\ [Next]_vars => IInv' /\ ValuesInv'
  BY InductiveStep, ValuesStep
<1>3. ValuesInv => \A key \in DOMAIN snapshots : Calculated(snapshots[key])
  BY DEF ValuesInv
<1> QED  BY <1>1, <1>2, <1>3, PTL DEF Spec

\* The numbers of a snapshot can be relied on, whatever candles it was calculated from: each
\* value is there exactly when there are candles enough, RSI and stochastic RSI lie within
\* 0 and 100, and the line of the supertrend never gives way while the price stays on its
\* side (_rsi, _stoch_rsi, _macd, _supertrend, _calculate_snapshot_values).
THEOREM SnapshotsAreSound == Spec => []SnapshotSound
<1>1. ASSUME \A key \in DOMAIN snapshots : Calculated(snapshots[key])
      PROVE  SnapshotSound
  <2>1. SUFFICES ASSUME NEW key \in DOMAIN snapshots
                 PROVE  Sound(snapshots[key].values, Bars(snapshots[key].used))
    BY DEF SnapshotSound
  <2>2. PICK used : used = snapshots[key].used
    OBVIOUS
  <2>3. CandleTable(used) /\ DOMAIN used # {} /\ snapshots[key].values = SnapshotValues(Bars(used))
    BY <1>1, <2>2 DEF Calculated
  <2>4. PICK n \in Nat \ {0} : Series(Bars(used), n, Candle)
    BY <2>3, BarsAre
  <2>5. Sound(SnapshotValues(Bars(used)), Bars(used))
    <3>1. PICK bars : bars = Bars(used)
      OBVIOUS
    <3> QED  BY <2>4, <3>1, ValuesSound
  <2> QED  BY <2>2, <2>3, <2>4, <2>5
<1> QED  BY <1>1, SnapshotsAreCalculated, PTL

\* The engine does not take sides: from candles upside down it calculates the opposite
\* direction, label and patterns (_supertrend, _trend_label, _candlestick_patterns), unless the
\* first close of the trend lies in the middle of its candle.
THEOREM SnapshotsMirror == Spec => []MirrorTurns
<1>1. ASSUME \A key \in DOMAIN snapshots : Calculated(snapshots[key])
      PROVE  MirrorTurns
  <2>1. ASSUME NEW key \in DOMAIN snapshots
        PROVE  Mirrors(SnapshotValues(Turned(Bars(snapshots[key].used))), snapshots[key].values,
                       Bars(snapshots[key].used))
    <3>1. PICK used : used = snapshots[key].used
      OBVIOUS
    <3>2. /\ CandleTable(used) /\ DOMAIN used # {}
          /\ snapshots[key].values = SnapshotValues(Bars(used))
      BY <1>1, <3>1 DEF Calculated
    <3>3. PICK n \in Nat \ {0} : Series(Bars(used), n, Candle)
      BY <3>2, BarsAre
    <3>4. Mirrors(SnapshotValues(Turned(Bars(used))), SnapshotValues(Bars(used)), Bars(used))
      <4>1. PICK bars : bars = Bars(used)
        OBVIOUS
      <4> QED  BY <3>3, <4>1, ValuesMirror
    <3> QED  BY <3>1, <3>2, <3>3, <3>4
  <2> QED  BY <2>1 DEF MirrorTurns
<1> QED  BY <1>1, SnapshotsAreCalculated, PTL
=============================================================================
