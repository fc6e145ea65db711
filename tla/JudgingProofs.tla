---------------------------- MODULE JudgingProofs ----------------------------
(***************************************************************************)
(* TLAPS proofs about the shadow validator and the engine it judges, for   *)
(* any number of orders, bots, prices and quantities.  The loops of the    *)
(* two order books are folds over sequences; FoldTheorems has the rules    *)
(* for them.                                                               *)
(***************************************************************************)
EXTENDS Judging, FoldTheorems, SequenceTheorems

-----------------------------------------------------------------------------
(* Sequences and the operators on them.                                    *)

\* What membership in Seq(A) says.
LEMMA SeqFacts ==
    ASSUME NEW A, NEW s \in Seq(A)
    PROVE  Len(s) \in Nat /\ DOMAIN s = 1..Len(s) /\ \A i \in 1..Len(s) : s[i] \in A
  OBVIOUS

\* The quantity and the value of a sequence of fills.
LEMMA QtyNat ==
    ASSUME NEW fills \in Seq(FillSet) PROVE Qty(fills) \in Nat /\ Value(fills) \in Nat
<1> DEFINE D == DOMAIN fills
           q == [i \in D |-> fills[i].qty]
           w == [i \in D |-> fills[i].qty * fills[i].price]
<1>1. D = 1..Len(fills) /\ Len(fills) \in Nat /\ \A i \in D : fills[i] \in FillSet
  BY SeqFacts
<1>2. \A i \in D : fills[i].qty \in Nat /\ fills[i].price \in Nat
  BY <1>1 DEF FillSet
<1>3. q \in [D -> Nat] /\ w \in [D -> Nat]
  BY <1>2
<1>4. IsFiniteSet(D)
  BY <1>1, FS_Interval
<1>5. SumFunction(q) \in Nat /\ SumFunction(w) \in Nat
  <2> HIDE DEF q, w, D
  <2> QED BY <1>3, <1>4, SumNat
<1> QED BY <1>5 DEF Qty, Value

\* One more element.
LEMMA ToSetAppend ==
    ASSUME NEW A, NEW s \in Seq(A), NEW x \in A
    PROVE  Append(s, x) \in Seq(A) /\ ToSet(Append(s, x)) = ToSet(s) \cup {x}
<1> DEFINE t == Append(s, x)
<1>1. /\ t \in Seq(A) /\ Len(t) = Len(s) + 1 /\ t[Len(s) + 1] = x
      /\ \A i \in 1..Len(s) : t[i] = s[i]
  OBVIOUS
<1>2. DOMAIN t = 1..(Len(s) + 1) /\ DOMAIN s = 1..Len(s) /\ Len(s) \in Nat
  BY <1>1, SeqFacts
<1> HIDE DEF t
<1>3. \A y : y \in ToSet(t) <=> y \in ToSet(s) \cup {x}
  BY <1>1, <1>2 DEF ToSet
<1> QED BY <1>1, <1>3 DEF t

\* Two sequences, one after the other.
LEMMA ToSetConcat ==
    ASSUME NEW A, NEW s \in Seq(A), NEW t \in Seq(A)
    PROVE  s \o t \in Seq(A) /\ ToSet(s \o t) = ToSet(s) \cup ToSet(t)
<1> DEFINE u == s \o t
<1>1. u \in Seq(A) /\ Len(u) = Len(s) + Len(t)
  OBVIOUS
<1>2. /\ \A i \in 1..Len(s) : u[i] = s[i]
      /\ \A i \in 1..Len(t) : u[Len(s) + i] = t[i]
  BY ConcatProperties
<1>3. /\ DOMAIN u = 1..(Len(s) + Len(t)) /\ DOMAIN s = 1..Len(s) /\ DOMAIN t = 1..Len(t)
      /\ Len(s) \in Nat /\ Len(t) \in Nat
  BY <1>1, SeqFacts
<1> HIDE DEF u
<1>4. ASSUME NEW i \in 1..(Len(s) + Len(t)) PROVE u[i] \in ToSet(s) \cup ToSet(t)
  <2>1. CASE i <= Len(s)
    BY <1>2, <1>3, <2>1 DEF ToSet
  <2>2. CASE i > Len(s)
    <3>1. i - Len(s) \in 1..Len(t) /\ i = Len(s) + (i - Len(s))
      BY <1>3, <2>2
    <3>2. u[i] = t[i - Len(s)]
      BY <1>2, <3>1
    <3> QED BY <1>3, <3>1, <3>2 DEF ToSet
  <2> QED BY <1>3, <2>1, <2>2
<1>5. ASSUME NEW i \in 1..Len(t) PROVE t[i] \in ToSet(u)
  <2>1. Len(s) + i \in 1..(Len(s) + Len(t))
    BY <1>3
  <2> QED BY <1>2, <1>3, <2>1 DEF ToSet
<1>6. ASSUME NEW i \in 1..Len(s) PROVE s[i] \in ToSet(u)
  <2>1. i \in 1..(Len(s) + Len(t))
    BY <1>3
  <2> QED BY <1>2, <1>3, <2>1 DEF ToSet
<1>7. \A y : y \in ToSet(u) <=> y \in ToSet(s) \cup ToSet(t)
  BY <1>3, <1>4, <1>5, <1>6 DEF ToSet
<1> QED BY <1>1, <1>7 DEF u

OnlyBody(A, s, kept) ==
    [i \in 1..Len(s) |-> [t \in Seq(A) |-> IF s[i] \in kept THEN Append(t, s[i]) ELSE t]]

\* Only, one element after the other.
LEMMA OnlyCourse ==
    ASSUME NEW A, NEW s \in Seq(A), NEW kept
    PROVE  \E g \in [0..Len(s) -> Seq(A)] :
              /\ Only(s, kept) = g[Len(s)]
              /\ IsCourse(g, Len(s), <<>>, OnlyBody(A, s, kept))
<1> DEFINE n == Len(s)
           Step(f, d) == IF d = {} THEN <<>>
                         ELSE IF s[Max(d)] \in kept THEN Append(f[d \ {Max(d)}], s[Max(d)])
                         ELSE f[d \ {Max(d)}]
           fold == CHOOSE f : f = [d \in SUBSET DOMAIN s |-> Step(f, d)]
           body == OnlyBody(A, s, kept)
<1>0. n \in Nat
  BY SeqFacts
<1>1. n \in Nat /\ DOMAIN s = 1..n /\ \A i \in 1..n : s[i] \in A
  BY SeqFacts
<1>2. \A i \in 1..n, t \in Seq(A) :
         body[i][t] = IF s[i] \in kept THEN Append(t, s[i]) ELSE t
  BY DEF OnlyBody
<1>3. SeqFoldData(n, Seq(A), <<>>, body)
  BY <1>1 DEF OnlyBody, SeqFoldData
<1> HIDE DEF n, body
<1>4. PICK f : IsSeqFold(f, n, Seq(A), <<>>, body)
  BY <1>3, SeqFoldExists
<1>5. ASSUME NEW d \in Parts(n) PROVE f[d] = Step(f, d)
  <2>0. n \in Nat
    BY <1>1
  <2>1. d = {} => f[d] = <<>>
    BY <1>4 DEF IsSeqFold
  <2>2. d # {} => f[d] = body[Max(d)][f[d \ {Max(d)}]]
    BY <1>4, <2>0, SeqFoldAt
  <2>3. d # {} => Max(d) \in 1..n /\ f[d \ {Max(d)}] \in Seq(A)
    BY <1>4, <2>0, SeqFoldAt
  <2> QED BY <1>2, <1>3, <2>1, <2>2, <2>3
<1>6. f = [d \in SUBSET DOMAIN s |-> Step(f, d)]
  <2> HIDE DEF Step
  <2> QED BY <1>1, <1>4, <1>5 DEF IsSeqFold, Parts
<1>7. fold = [d \in SUBSET DOMAIN s |-> Step(fold, d)]
  <2> HIDE DEF Step
  <2> QED BY <1>6
<1>8. Only(s, kept) = fold[DOMAIN s]
  BY DEF Only, FoldLeft, MapThenFoldSet
<1>9. \A d \in Parts(n) : fold[d] = Step(fold, d)
  <2> HIDE DEF Step, fold
  <2> QED BY <1>1, <1>7 DEF Parts
<1> HIDE DEF fold
<1>10. Follows(fold, n, Seq(A), <<>>, body)
  <2>1. {} \in Parts(n) /\ n \in Nat
    BY <1>1 DEF Parts
  <2>2. fold[{}] = <<>>
    BY <1>9, <2>1
  <2>3. ASSUME NEW d \in Parts(n), d # {}, fold[d \ {Max(d)}] \in Seq(A)
        PROVE  fold[d] = body[Max(d)][fold[d \ {Max(d)}]]
    <3>1. Max(d) \in 1..n
      BY <2>1, <2>3, MaxOfIndices
    <3>2. fold[d] = Step(fold, d)
      BY <1>9
    <3> QED BY <1>2, <1>3, <2>3, <3>1, <3>2
  <2> QED BY <2>2, <2>3 DEF Follows
<1>11. PICK g \in [0..n -> Seq(A)] : fold[1..n] = g[n] /\ IsCourse(g, n, <<>>, body)
  BY <1>3, <1>10, SeqFoldCourse
<1> QED BY <1>1, <1>8, <1>11 DEF n, body

\* Only keeps the elements of the set, and no other.
LEMMA OnlyFacts ==
    ASSUME NEW A, NEW s \in Seq(A), NEW kept
    PROVE  Only(s, kept) \in Seq(A) /\ ToSet(Only(s, kept)) = ToSet(s) \cap kept
<1> DEFINE n == Len(s)
           First(i) == {s[j] : j \in 1..i}
<1>0. n \in Nat /\ DOMAIN s = 1..n /\ \A i \in 1..n : s[i] \in A
  BY SeqFacts
<1>1. PICK g \in [0..n -> Seq(A)] :
         Only(s, kept) = g[n] /\ IsCourse(g, n, <<>>, OnlyBody(A, s, kept))
  BY OnlyCourse
<1> DEFINE T == {i \in 0..n : ToSet(g[i]) = First(i) \cap kept}
<1>2. 0 \in T
  BY <1>0, <1>1 DEF IsCourse, ToSet
<1>3. ASSUME NEW i \in 1..n, i - 1 \in T PROVE i \in T
  <2>0. i - 1 \in 0..n /\ i \in 0..n /\ s[i] \in A
    BY <1>0
  <2>1. i - 1 \in 0..n /\ i \in 0..n /\ s[i] \in A /\ g[i - 1] \in Seq(A)
    BY <1>1, <2>0
  <2>2. g[i] = OnlyBody(A, s, kept)[i][g[i - 1]]
    BY <1>1 DEF IsCourse
  <2>3. g[i] = IF s[i] \in kept THEN Append(g[i - 1], s[i]) ELSE g[i - 1]
    BY <1>0, <2>1, <2>2 DEF OnlyBody
  <2>4. First(i) = First(i - 1) \cup {s[i]}
    BY <2>1
  <2>5. ToSet(g[i]) = ToSet(g[i - 1]) \cup ({s[i]} \cap kept)
    BY <2>1, <2>3, ToSetAppend
  <2> HIDE DEF First
  <2> QED BY <1>3, <2>1, <2>4, <2>5
<1>4. \A i \in 0..n : i \in T
  <2> HIDE DEF T
  <2> QED BY <1>0, <1>2, <1>3, RangeInduction
<1>5. n \in 0..n /\ First(n) = ToSet(s)
  BY <1>0 DEF ToSet
<1> QED BY <1>1, <1>4, <1>5 DEF IsSeqFold, Parts

-----------------------------------------------------------------------------
(* Levels in priority order.                                               *)

\* The assumption about prices, in the form the proofs cite.
LEMMA PricesFacts ==
    /\ Prices \in SUBSET Nat /\ IsFiniteSet(Prices)
    /\ \A p \in Prices : p \in Nat /\ p > 0
  BY ValidatorAssumption

\* The best of some prices is one of them.
LEMMA BestIn ==
    ASSUME NEW side, NEW s \in SUBSET Prices, s # {} PROVE Best(side, s) \in s
<1>1. IsFiniteSet(s)
  BY PricesFacts, FS_Subset
<1>2. s \in SUBSET Int
  BY PricesFacts
<1>3. Max(s) \in s /\ Min(s) \in s
  BY <1>1, <1>2, MaxMinIn
<1> QED BY <1>3 DEF Best

\* A priority queue of levels, as a sequence.
IsQueue(f, levels, side, A, ps) ==
    \A s \in SUBSET ps :
        /\ f[s] \in Seq(A)
        /\ s = {} => f[s] = <<>>
        /\ s # {} => /\ Best(side, s) \in s
                     /\ f[s] = levels[Best(side, s)] \o f[s \ {Best(side, s)}]

\* InPriority takes the best level first.
LEMMA PrioritySteps ==
    ASSUME NEW A, NEW levels \in [Prices -> Seq(A)], NEW side, NEW ps \in SUBSET Prices
    PROVE  \E f : IsQueue(f, levels, side, A, ps) /\ InPriority(levels, side, ps) = f[ps]
<1> DEFINE B(s) == Best(side, s)
           Step(f, s) == IF s = {} THEN <<>> ELSE levels[B(s)] \o f[s \ {B(s)}]
           queue == CHOOSE f : f = [s \in SUBSET ps |-> Step(f, s)]
           pick == [s \in SUBSET ps |-> B(s)]
           body == [p \in ps |-> [a \in Seq(A) |-> levels[p] \o a]]
           empty == <<>>
<1>1. \A s \in SUBSET ps : s # {} => B(s) \in s /\ B(s) \in ps /\ pick[s] = B(s)
  BY BestIn
<1>2. FoldData(ps, Seq(A), empty, pick, body)
  <2>1. body \in [ps -> [Seq(A) -> Seq(A)]]
    OBVIOUS
  <2>2. \A s \in SUBSET ps : s # {} => pick[s] \in s
    BY <1>1
  <2>3. IsFiniteSet(ps)
    BY PricesFacts, FS_Subset
  <2>4. empty \in Seq(A)
    OBVIOUS
  <2> HIDE DEF body, pick, empty
  <2> QED BY <2>1, <2>2, <2>3, <2>4 DEF FoldData
<1>3. \A p \in ps, a \in Seq(A) : body[p][a] = levels[p] \o a
  OBVIOUS
<1> HIDE DEF pick, body, B, empty
<1>4. PICK f \in [SUBSET ps -> Seq(A)] : IsFold(f, ps, empty, pick, body)
  BY <1>2, FoldExists
<1>5. ASSUME NEW s \in SUBSET ps PROVE f[s] = Step(f, s)
  <2>1. f[s] = IF s = {} THEN empty ELSE body[pick[s]][f[s \ {pick[s]}]]
    BY <1>4 DEF IsFold
  <2>2. CASE s = {}
    BY <2>1, <2>2 DEF empty
  <2>3. CASE s # {}
    <3>1. B(s) \in ps /\ pick[s] = B(s) /\ f[s \ {B(s)}] \in Seq(A)
      BY <1>1, <1>4, <2>3
    <3>2. f[s] = body[B(s)][f[s \ {B(s)}]]
      BY <2>1, <2>3, <3>1
    <3> QED BY <1>3, <2>3, <3>1, <3>2
  <2> QED BY <2>2, <2>3
<1>6. f = [s \in SUBSET ps |-> Step(f, s)]
  <2> HIDE DEF Step
  <2> QED BY <1>4, <1>5
<1>7. queue = [s \in SUBSET ps |-> Step(queue, s)]
  <2> HIDE DEF Step
  <2> QED BY <1>6
<1>8. InPriority(levels, side, ps) = queue[ps]
  BY DEF InPriority, MapThenFoldSet, B
<1> HIDE DEF queue
<1>9. \A s \in SUBSET ps : queue[s] = Step(queue, s)
  <2> HIDE DEF Step
  <2> QED BY <1>7
<1>10. FollowsOn(queue, ps, Seq(A), empty, pick, body)
  <2>1. queue[{}] = empty
    BY <1>9 DEF empty
  <2>2. ASSUME NEW s \in SUBSET ps, s # {}, queue[s \ {pick[s]}] \in Seq(A)
        PROVE  queue[s] = body[pick[s]][queue[s \ {pick[s]}]]
    <3>1. B(s) \in ps /\ pick[s] = B(s)
      BY <1>1, <2>2
    <3>2. queue[s] = levels[B(s)] \o queue[s \ {B(s)}]
      BY <1>9, <2>2
    <3> HIDE DEF Step
    <3> QED BY <1>3, <2>2, <3>1, <3>2
  <2> QED BY <2>1, <2>2 DEF FollowsOn
<1>11. \A s \in SUBSET ps : queue[s] \in Seq(A)
  BY <1>2, <1>10, FoldStays
<1>12. IsQueue(queue, levels, side, A, ps)
  BY <1>1, <1>9, <1>11 DEF IsQueue, B
<1> QED BY <1>8, <1>12

\* The queue holds the orders of the levels, and no other.
LEMMA PriorityFacts ==
    ASSUME NEW A, NEW levels \in [Prices -> Seq(A)], NEW side, NEW ps \in SUBSET Prices
    PROVE  /\ InPriority(levels, side, ps) \in Seq(A)
           /\ ToSet(InPriority(levels, side, ps)) = UNION {ToSet(levels[p]) : p \in ps}
<1>1. PICK f : IsQueue(f, levels, side, A, ps) /\ InPriority(levels, side, ps) = f[ps]
  BY PrioritySteps
<1> DEFINE In(s) == UNION {ToSet(levels[p]) : p \in s}
           T == {s \in SUBSET ps : ToSet(f[s]) = In(s)}
<1>2. {} \in T
  <2>1. f[{}] = <<>>
    BY <1>1 DEF IsQueue
  <2> QED BY <2>1 DEF ToSet
<1>3. ASSUME NEW s \in SUBSET ps, s # {}
      PROVE  \E p \in s : s \ {p} \in T => s \in T
  <2> DEFINE p == Best(side, s)
             r == s \ {p}
  <2>1. p \in s /\ p \in Prices /\ r \in SUBSET ps /\ f[s] = levels[p] \o f[r]
    BY <1>1, <1>3 DEF IsQueue
  <2>2. levels[p] \in Seq(A) /\ f[r] \in Seq(A)
    BY <1>1, <2>1 DEF IsQueue
  <2>3. In(s) = ToSet(levels[p]) \cup In(r)
    BY <2>1
  <2> HIDE DEF p, In
  <2>4. ToSet(f[s]) = ToSet(levels[p]) \cup ToSet(f[r])
    BY <2>1, <2>2, ToSetConcat
  <2>5. r \in T => s \in T
    BY <2>3, <2>4
  <2> QED BY <2>1, <2>5
<1>4. \A s \in SUBSET ps : s \in T
  <2>1. IsFiniteSet(ps)
    BY PricesFacts, FS_Subset
  <2> HIDE DEF T
  <2> QED BY <1>2, <1>3, <2>1, SubsetInduction
<1>5. f[ps] \in Seq(A) /\ ToSet(f[ps]) = In(ps)
  BY <1>1, <1>4 DEF IsQueue
<1> QED BY <1>1, <1>5

-----------------------------------------------------------------------------
(* The parts of a trade.                                                   *)

\* The parts of a shard a step need not change.
SameBooks(v, w) ==
    w.bids = v.bids /\ w.asks = v.asks /\ w.pendingOrders = v.pendingOrders

\* recordExpectedFill leaves the books alone.
LEMMA RecordFacts ==
    ASSUME NEW v \in Shards, NEW id \in Orders, NEW qty \in Nat, NEW price \in Nat,
           NEW with \in Orders
    PROVE  /\ recordExpectedFill(v, id, qty, price, with) \in Shards
           /\ SameBooks(v, recordExpectedFill(v, id, qty, price, with))
<1> DEFINE fill == [qty |-> qty, price |-> price, with |-> with]
           fills == [v.expectedFills EXCEPT ![id] = Append(@, fill)]
<1>1. fill \in FillSet
  BY DEF FillSet
<1>2. v.expectedFills \in [Orders -> Seq(FillSet)]
  BY DEF Shards
<1>3. fills \in [Orders -> Seq(FillSet)]
  <2> HIDE DEF fill
  <2>1. Append(v.expectedFills[id], fill) \in Seq(FillSet)
    BY <1>1, <1>2
  <2> QED BY <1>2, <2>1
<1>4. recordExpectedFill(v, id, qty, price, with) = [v EXCEPT !.expectedFills = fills]
  BY DEF recordExpectedFill, Shards
<1> HIDE DEF fills
<1> QED BY <1>3, <1>4 DEF Shards, SameBooks

\* So does checkCleanup, which moves an order's fills into the counters.
LEMMA CleanupFacts ==
    ASSUME NEW v \in Shards, NEW id \in Orders
    PROVE  checkCleanup(v, id) \in Shards /\ SameBooks(v, checkCleanup(v, id))
<1> DEFINE q == Qty(v.expectedFills[id])
           w == Value(v.expectedFills[id])
           ef == [v.expectedFills EXCEPT ![id] = <<>>]
           af == [v.actualFills EXCEPT ![id] = <<>>]
<1>1. v.expectedFills \in [Orders -> Seq(FillSet)] /\ v.actualFills \in [Orders -> Seq(FillSet)]
  BY DEF Shards
<1>2. q \in Nat /\ w \in Nat
  BY <1>1, QtyNat
<1>3. ef \in [Orders -> Seq(FillSet)] /\ af \in [Orders -> Seq(FillSet)]
  BY <1>1
<1>4. checkCleanup(v, id) \in
        {v, [v EXCEPT !.matched = @ + q, !.expectedValue = @ + w,
                      !.expectedFills = ef, !.actualFills = af]}
  BY DEF checkCleanup, Shards
<1> DEFINE m == v.matched + q
           e == v.expectedValue + w
           u == [v EXCEPT !.matched = m, !.expectedValue = e,
                          !.expectedFills = ef, !.actualFills = af]
<1>5. m \in Nat /\ e \in Nat
  <2> HIDE DEF q, w
  <2> QED BY <1>2 DEF Shards
<1>6. checkCleanup(v, id) = v \/ checkCleanup(v, id) = u
  <2> HIDE DEF q, w, ef, af
  <2> QED BY <1>4
<1> HIDE DEF m, e, ef, af
<1>7. u \in Shards
  BY <1>3, <1>5 DEF Shards
<1>8. SameBooks(v, u)
  BY DEF Shards, SameBooks
<1>9. SameBooks(v, v)
  BY DEF SameBooks
<1> HIDE DEF u
<1> QED BY <1>6, <1>7, <1>8, <1>9

\* Without removes the entries of an id, and no other.
LEMMA WithoutFacts ==
    ASSUME NEW level \in Seq(OrderSet), NEW id
    PROVE  /\ Without(level, id) \in Seq(OrderSet)
           /\ \A x : x \in ToSet(Without(level, id)) <=> x \in ToSet(level) /\ x.id # id
<1>1. ToSet(level) \subseteq OrderSet
  BY SeqFacts DEF ToSet
<1> DEFINE kept == {x \in OrderSet : x.id # id}
<1>2. Only(level, kept) \in Seq(OrderSet) /\ ToSet(Only(level, kept)) = ToSet(level) \cap kept
  <2> HIDE DEF kept
  <2> QED BY OnlyFacts
<1> QED BY <1>1, <1>2 DEF Without

\* ReplaceAll puts s in the place of r.
LEMMA ReplaceFacts ==
    ASSUME NEW A, NEW level \in Seq(A), NEW r, NEW s \in A
    PROVE  /\ ReplaceAll(level, r, s) \in Seq(A)
           /\ ToSet(ReplaceAll(level, r, s)) \subseteq (ToSet(level) \ {r}) \cup {s}
<1> DEFINE t == ReplaceAll(level, r, s)
<1>1. Len(level) \in Nat /\ DOMAIN level = 1..Len(level) /\ \A i \in 1..Len(level) : level[i] \in A
  BY SeqFacts
<1>2. /\ DOMAIN t = 1..Len(level)
      /\ \A i \in 1..Len(level) : t[i] = IF level[i] = r THEN s ELSE level[i]
  BY DEF ReplaceAll
<1>3. t \in Seq(A)
  <2>1. t \in [1..Len(level) -> A]
    BY <1>1 DEF ReplaceAll
  <2> HIDE DEF t
  <2> QED BY <1>1, <2>1, IsASeq
<1> HIDE DEF t
<1>4. ToSet(t) \subseteq (ToSet(level) \ {r}) \cup {s}
  BY <1>1, <1>2 DEF ToSet
<1> QED BY <1>3, <1>4 DEF t

Sides == {"bids", "asks"}

\* An order has its own side and the other one.
LEMMA SideFacts ==
    ASSUME NEW o \in OrderSet
    PROVE  /\ Own(o.side) \in Sides /\ Opposite(o.side) \in Sides
           /\ Own(o.side) # Opposite(o.side) /\ Sides = {Own(o.side), Opposite(o.side)}
  BY DEF OrderSet, Own, Opposite, Sides

\* Each side is a function from prices to levels.
LEMMA BookFacts ==
    ASSUME NEW v \in Shards, NEW side \in Sides
    PROVE  v[side] \in [Prices -> Seq(OrderSet)]
  BY DEF Shards, Sides

\* One level of one side is replaced.
WithLevel(v, side, p, level) == [v EXCEPT ![side][p] = level]

\* Only that level changes.
LEMMA LevelFacts ==
    ASSUME NEW v \in Shards, NEW side \in Sides, NEW p \in Prices, NEW level \in Seq(OrderSet)
    PROVE  /\ WithLevel(v, side, p, level) \in Shards
           /\ WithLevel(v, side, p, level).pendingOrders = v.pendingOrders
           /\ WithLevel(v, side, p, level)[side] = [v[side] EXCEPT ![p] = level]
           /\ \A t \in Sides \ {side} : WithLevel(v, side, p, level)[t] = v[t]
<1> DEFINE levels == [v[side] EXCEPT ![p] = level]
<1>1. levels \in [Prices -> Seq(OrderSet)]
  BY BookFacts
<1>2. WithLevel(v, side, p, level) = [v EXCEPT ![side] = levels]
  BY DEF WithLevel
<1> HIDE DEF levels
<1>3. CASE side = "bids"
  <2>1. [v EXCEPT !.bids = levels] \in Shards
    BY <1>1 DEF Shards
  <2>2. [v EXCEPT ![side] = levels] = [v EXCEPT !.bids = levels]
    BY <1>3
  <2> QED BY <1>2, <1>3, <2>1, <2>2 DEF Shards, Sides, levels
<1>4. CASE side = "asks"
  <2>1. [v EXCEPT !.asks = levels] \in Shards
    BY <1>1 DEF Shards
  <2>2. [v EXCEPT ![side] = levels] = [v EXCEPT !.asks = levels]
    BY <1>4
  <2> QED BY <1>2, <1>4, <2>1, <2>2 DEF Shards, Sides, levels
<1> QED BY <1>3, <1>4 DEF Sides

\* What a trade leaves of the level.
TradedLevel(level, r, qty) ==
    IF qty = r.qty THEN Without(level, r.id)
    ELSE ReplaceAll(level, r, [r EXCEPT !.qty = @ - qty])

\* A trade of o with r takes from one level of the other side.
Traded(v, o, r, qty, w) ==
    LET side == Opposite(o.side)
    IN  /\ w \in Shards /\ w.pendingOrders = v.pendingOrders
        /\ w[Own(o.side)] = v[Own(o.side)]
        /\ w[side] = [v[side] EXCEPT ![r.price] = TradedLevel(@, r, qty)]
        /\ \A p \in Prices \ {r.price} : w[side][p] = v[side][p]
        /\ qty = r.qty =>
             \A x : x \in ToSet(w[side][r.price])
                    <=> x \in ToSet(v[side][r.price]) /\ x.id # r.id
        /\ qty # r.qty =>
             ToSet(w[side][r.price])
                 \subseteq ToSet(v[side][r.price]) \cup {[r EXCEPT !.qty = @ - qty]}

\* TradeWith does that, whether it fills the resting order or not.
LEMMA TradeFacts ==
    ASSUME NEW v \in Shards, NEW o \in OrderSet, NEW r \in OrderSet, NEW qty \in 1..r.qty
    PROVE  Traded(v, o, r, qty, TradeWith(v, o, r, qty))
<1> DEFINE side == Opposite(o.side)
           a == recordExpectedFill(v, o.id, qty, r.price, r.id)
           b == recordExpectedFill(a, r.id, qty, r.price, o.id)
           old == v[side][r.price]
           part == [r EXCEPT !.qty = @ - qty]
           new == IF qty = r.qty THEN Without(old, r.id) ELSE ReplaceAll(old, r, part)
           c == WithLevel(b, side, r.price, new)
           w == TradeWith(v, o, r, qty)
<1>1. /\ o.id \in Orders /\ r.id \in Orders /\ r.price \in Prices /\ r.price \in Nat
      /\ qty \in Nat /\ r.qty \in 1..MaxQty
  <2>1. o.id \in Orders /\ r.id \in Orders /\ r.price \in Prices /\ r.qty \in 1..MaxQty
    BY DEF OrderSet
  <2>2. qty \in Nat
    BY <2>1, ValidatorAssumption
  <2> QED BY <2>1, <2>2, PricesFacts
<1>2. side \in Sides /\ Own(o.side) \in Sides \ {side}
  BY SideFacts
<1>3. a \in Shards /\ SameBooks(v, a)
  BY <1>1, RecordFacts
<1>4. b \in Shards /\ SameBooks(a, b)
  <2> HIDE DEF a
  <2> QED BY <1>1, <1>3, RecordFacts
<1>5. b \in Shards /\ SameBooks(v, b)
  BY <1>3, <1>4 DEF SameBooks
<1>6. w = IF qty = r.qty
          THEN checkCleanup([b EXCEPT ![side][r.price] = Without(@, r.id)], r.id)
          ELSE [b EXCEPT ![side][r.price] = ReplaceAll(@, r, part)]
  BY DEF TradeWith
<1> HIDE DEF a, b, side
<1>7. b[side] = v[side]
  BY <1>2, <1>5 DEF SameBooks, Sides
<1>8. old \in Seq(OrderSet)
  BY <1>1, <1>2, BookFacts
<1>9. part \in OrderSet \/ qty = r.qty
  BY <1>1, ValidatorAssumption DEF OrderSet
<1> HIDE DEF part
<1>10. qty = r.qty => /\ new \in Seq(OrderSet)
                      /\ \A x : x \in ToSet(new) <=> x \in ToSet(old) /\ x.id # r.id
  <2> HIDE DEF old
  <2> QED BY <1>8, WithoutFacts
<1>11. qty # r.qty => new \in Seq(OrderSet) /\ ToSet(new) \subseteq ToSet(old) \cup {part}
  <2> HIDE DEF old
  <2> QED BY <1>8, <1>9, ReplaceFacts
<1>12. w = IF qty = r.qty THEN checkCleanup(c, r.id) ELSE c
  <2>1. b[side][r.price] = old
    BY <1>7
  <2> HIDE DEF old
  <2> QED BY <1>6, <2>1 DEF WithLevel
<1> HIDE DEF w, old, new
<1>13. new \in Seq(OrderSet)
  BY <1>10, <1>11
<1>14. /\ c \in Shards /\ c.pendingOrders = b.pendingOrders
       /\ c[side] = [b[side] EXCEPT ![r.price] = new]
       /\ \A t \in Sides \ {side} : c[t] = b[t]
  BY <1>1, <1>2, <1>5, <1>13, LevelFacts
<1> HIDE DEF c
<1>15. w \in Shards /\ SameBooks(c, w)
  <2>1. checkCleanup(c, r.id) \in Shards /\ SameBooks(c, checkCleanup(c, r.id))
    BY <1>1, <1>14, CleanupFacts
  <2>2. SameBooks(c, c)
    BY DEF SameBooks
  <2> QED BY <1>12, <1>14, <2>1, <2>2
<1>16. w[side] = c[side] /\ w[Own(o.side)] = c[Own(o.side)]
  BY <1>2, <1>15 DEF SameBooks, Sides
<1>17. w.pendingOrders = v.pendingOrders
  BY <1>5, <1>14, <1>15 DEF SameBooks
<1>18. w[Own(o.side)] = v[Own(o.side)]
  <2>1. w[Own(o.side)] = b[Own(o.side)]
    BY <1>2, <1>14, <1>16
  <2> QED BY <1>2, <1>5, <2>1 DEF SameBooks, Sides
<1>19. w[side] = [v[side] EXCEPT ![r.price] = new]
  BY <1>7, <1>14, <1>16
<1>20. v[side] \in [Prices -> Seq(OrderSet)]
  BY <1>2, BookFacts
<1>21. w[side][r.price] = new /\ \A p \in Prices \ {r.price} : w[side][p] = v[side][p]
  BY <1>1, <1>19, <1>20
<1>22. new = TradedLevel(v[side][r.price], r, qty)
  BY DEF new, old, part, TradedLevel
<1>23. w[side] = [v[side] EXCEPT ![r.price] = TradedLevel(@, r, qty)]
  BY <1>19, <1>22
<1> QED BY <1>10, <1>11, <1>15, <1>17, <1>18, <1>21, <1>23 DEF Traded, w, side, old, part

\* The makers are the orders of other bots at the levels the order reaches.
LEMMA MakersFacts ==
    ASSUME NEW v \in Shards, NEW o \in OrderSet, NEW useLimitPrice \in BOOLEAN
    PROVE  /\ Makers(v, o, useLimitPrice) \in Seq(OrderSet)
           /\ \A x : x \in ToSet(Makers(v, o, useLimitPrice))
                 <=> /\ x \in Foreign(o)
                     /\ \E p \in Reached(o, useLimitPrice) : x \in ToSet(v[Opposite(o.side)][p])
<1> DEFINE side == Opposite(o.side)
           levels == [p \in Prices |-> Only(v[side][p], Foreign(o))]
           ps == Reached(o, useLimitPrice)
<1>1. v[side] \in [Prices -> Seq(OrderSet)]
  BY SideFacts, BookFacts
<1>2. ps \in SUBSET Prices
  BY DEF Reached
<1> HIDE DEF side, ps
<1>3. \A p \in Prices : /\ levels[p] \in Seq(OrderSet)
                        /\ ToSet(levels[p]) = ToSet(v[side][p]) \cap Foreign(o)
  <2> TAKE p \in Prices
  <2>1. levels[p] = Only(v[side][p], Foreign(o)) /\ v[side][p] \in Seq(OrderSet)
    BY <1>1
  <2> QED BY <2>1, OnlyFacts
<1>4. levels \in [Prices -> Seq(OrderSet)]
  BY <1>3
<1>5. Makers(v, o, useLimitPrice) = InPriority(levels, side, ps)
  BY DEF Makers, side, ps
<1> HIDE DEF levels
<1>6. /\ InPriority(levels, side, ps) \in Seq(OrderSet)
      /\ ToSet(InPriority(levels, side, ps)) = UNION {ToSet(levels[p]) : p \in ps}
  BY <1>2, <1>4, PriorityFacts
<1> QED BY <1>2, <1>3, <1>5, <1>6 DEF side, ps

-----------------------------------------------------------------------------
(* The matching loop.                                                      *)

Smallest(a, b) == IF a < b THEN a ELSE b
Accs == [v : Shards, left : 0..MaxQty]

\* matchIncoming at the maker r.
MatchStep(o, acc, r) ==
    IF acc.left = 0 THEN acc
    ELSE [v |-> TradeWith(acc.v, o, r, Smallest(r.qty, acc.left)),
          left |-> acc.left - Smallest(r.qty, acc.left)]

MatchBody(o, ms) == [i \in 1..Len(ms) |-> [acc \in Accs |-> MatchStep(o, acc, ms[i])]]

\* A step of the loop stays in its range.
LEMMA MatchStepFacts ==
    ASSUME NEW o \in OrderSet, NEW acc \in Accs, NEW r \in OrderSet
    PROVE  /\ MatchStep(o, acc, r) \in Accs
           /\ acc.left # 0 => Smallest(r.qty, acc.left) \in 1..r.qty
<1>1. acc.v \in Shards /\ acc.left \in 0..MaxQty /\ MaxQty \in Nat
  BY ValidatorAssumption DEF Accs
<1>2. r.qty \in 1..MaxQty
  BY DEF OrderSet
<1> DEFINE qty == Smallest(r.qty, acc.left)
           w == TradeWith(acc.v, o, r, qty)
<1>3. acc.left # 0 => qty \in 1..r.qty /\ acc.left - qty \in 0..MaxQty
  BY <1>1, <1>2 DEF Smallest
<1> HIDE DEF qty
<1>4. acc.left # 0 => w \in Shards
  BY <1>1, <1>3, TradeFacts DEF Traded
<1> HIDE DEF w
<1>5. acc.left # 0 => [v |-> w, left |-> acc.left - qty] \in Accs
  BY <1>3, <1>4 DEF Accs
<1> QED BY <1>3, <1>5 DEF MatchStep, w, qty

\* matchIncoming for a given sequence of makers.
MatchSeq(v, o, ms) ==
    FoldLeft(LAMBDA acc, r : MatchStep(o, acc, r), [v |-> v, left |-> o.qty], ms)

\* matchIncoming is the loop over the makers.
LEMMA MatchIsSeq ==
    ASSUME NEW v, NEW o, NEW useLimitPrice
    PROVE  matchIncoming(v, o, useLimitPrice) = MatchSeq(v, o, Makers(v, o, useLimitPrice))
  BY DEF matchIncoming, MatchSeq, MatchStep, Smallest

\* matchIncoming, one maker after the other.
LEMMA MatchCourse ==
    ASSUME NEW v \in Shards, NEW o \in OrderSet, NEW s \in Seq(OrderSet)
    PROVE  \E g \in [0..Len(s) -> Accs] :
              /\ MatchSeq(v, o, s) = g[Len(s)]
              /\ IsCourse(g, Len(s), [v |-> v, left |-> o.qty], MatchBody(o, s))
<1> DEFINE n == Len(s)
           base == [v |-> v, left |-> o.qty]
           Step(f, d) == IF d = {} THEN base
                         ELSE MatchStep(o, f[d \ {Max(d)}], s[Max(d)])
           fold == CHOOSE f : f = [d \in SUBSET DOMAIN s |-> Step(f, d)]
           body == MatchBody(o, s)
<1>8. MatchSeq(v, o, s) = fold[DOMAIN s]
  BY DEF MatchSeq, FoldLeft, MapThenFoldSet
<1>1. n \in Nat /\ DOMAIN s = 1..n /\ \A i \in 1..n : s[i] \in OrderSet
  BY SeqFacts
<1>2. \A i \in 1..n, a \in Accs : body[i][a] = MatchStep(o, a, s[i])
  BY DEF MatchBody
<1>3. SeqFoldData(n, Accs, base, body)
  <2>1. base \in Accs
    BY DEF Accs, OrderSet
  <2>2. \A i \in 1..n, a \in Accs : MatchStep(o, a, s[i]) \in Accs
    BY <1>1, MatchStepFacts
  <2>3. body \in [1..n -> [Accs -> Accs]]
    BY <2>2 DEF MatchBody
  <2> QED BY <1>1, <2>1, <2>3 DEF SeqFoldData
<1> HIDE DEF n, body, base
<1>4. PICK f : IsSeqFold(f, n, Accs, base, body)
  BY <1>3, SeqFoldExists
<1>5. ASSUME NEW d \in Parts(n) PROVE f[d] = Step(f, d)
  <2>0. n \in Nat
    BY <1>1
  <2>1. d = {} => f[d] = base
    BY <1>4 DEF IsSeqFold
  <2>2. d # {} => f[d] = body[Max(d)][f[d \ {Max(d)}]]
    BY <1>4, <2>0, SeqFoldAt
  <2>3. d # {} => Max(d) \in 1..n /\ f[d \ {Max(d)}] \in Accs
    BY <1>4, <2>0, SeqFoldAt
  <2> QED BY <1>2, <2>1, <2>2, <2>3
<1>6. f = [d \in SUBSET DOMAIN s |-> Step(f, d)]
  <2> HIDE DEF Step
  <2> QED BY <1>1, <1>4, <1>5 DEF IsSeqFold, Parts
<1>7. fold = [d \in SUBSET DOMAIN s |-> Step(fold, d)]
  <2> HIDE DEF Step
  <2> QED BY <1>6
<1>9. \A d \in Parts(n) : fold[d] = Step(fold, d)
  <2> HIDE DEF Step, fold
  <2> QED BY <1>1, <1>7 DEF Parts
<1> HIDE DEF fold
<1>10. Follows(fold, n, Accs, base, body)
  <2>1. {} \in Parts(n) /\ n \in Nat
    BY <1>1 DEF Parts
  <2>2. fold[{}] = base
    BY <1>9, <2>1
  <2>3. ASSUME NEW d \in Parts(n), d # {}, fold[d \ {Max(d)}] \in Accs
        PROVE  fold[d] = body[Max(d)][fold[d \ {Max(d)}]]
    <3>1. Max(d) \in 1..n
      BY <2>1, <2>3, MaxOfIndices
    <3>2. fold[d] = Step(fold, d)
      BY <1>9
    <3> QED BY <1>2, <2>3, <3>1, <3>2
  <2> QED BY <2>2, <2>3 DEF Follows
<1>11. PICK g \in [0..n -> Accs] : fold[1..n] = g[n] /\ IsCourse(g, n, base, body)
  BY <1>3, <1>10, SeqFoldCourse
<1> QED BY <1>1, <1>8, <1>11 DEF n, body, base

\* Every entry of w's side has one of the same id in v's, at the same price.
Thins(v, w, side) ==
    \A p \in Prices : \A x \in ToSet(w[side][p]) :
        \E y \in ToSet(v[side][p]) : y.id = x.id /\ y.price = x.price

\* An order rests at the level of its price.
Placed(v) == \A side \in Sides, p \in Prices : \A x \in ToSet(v[side][p]) : x.price = p

\* After i makers that left something of the order, they are gone.
Cleared(v, w, side, ms, i) ==
    \A p \in Prices : \A x \in ToSet(w[side][p]) :
        /\ x \in ToSet(v[side][p])
        /\ \A j \in 1..i : ms[j].price = p => x.id # ms[j].id

Matched(v, o, acc, ms, i) ==
    /\ acc.left <= o.qty
    /\ acc.v.pendingOrders = v.pendingOrders
    /\ acc.v[Own(o.side)] = v[Own(o.side)]
    /\ Thins(v, acc.v, Opposite(o.side))
    /\ acc.left > 0 => Cleared(v, acc.v, Opposite(o.side), ms, i)

\* A step of the loop keeps its invariant.
LEMMA MatchedStep ==
    ASSUME NEW v \in Shards, NEW o \in OrderSet, NEW acc \in Accs, NEW ms \in Seq(OrderSet),
           NEW i \in 1..Len(ms), Matched(v, o, acc, ms, i - 1),
           ms[i] \in ToSet(v[Opposite(o.side)][ms[i].price])
    PROVE  Matched(v, o, MatchStep(o, acc, ms[i]), ms, i)
<1> DEFINE r == ms[i]
           side == Opposite(o.side)
           qty == Smallest(r.qty, acc.left)
           w == TradeWith(acc.v, o, r, qty)
<1>1. acc.v \in Shards /\ acc.left \in 0..MaxQty /\ MaxQty \in Nat /\ o.qty \in 1..MaxQty
  BY ValidatorAssumption DEF Accs, OrderSet
<1>2. r \in OrderSet /\ i \in Nat /\ i > 0
  BY SeqFacts
<1>3. r.qty \in 1..MaxQty /\ r.price \in Prices
  BY <1>2 DEF OrderSet
<1>4. CASE acc.left = 0
  BY <1>1, <1>4 DEF MatchStep, Matched
<1>5. CASE acc.left # 0
  <2>1. MatchStep(o, acc, r) = [v |-> w, left |-> acc.left - qty]
    BY <1>5 DEF MatchStep
  <2>2. qty \in 1..r.qty
    BY <1>2, <1>5, MatchStepFacts
  <2>3. acc.left - qty > 0 => qty = r.qty
    BY <1>1, <1>3 DEF Smallest
  <2>3a. acc.left - qty <= o.qty
    BY <1>1, <1>3, <2>2 DEF Matched
  <2> HIDE DEF qty
  <2>4. /\ w.pendingOrders = acc.v.pendingOrders
        /\ w[Own(o.side)] = acc.v[Own(o.side)]
        /\ \A p \in Prices \ {r.price} : w[side][p] = acc.v[side][p]
        /\ qty = r.qty =>
             \A x : x \in ToSet(w[side][r.price])
                    <=> x \in ToSet(acc.v[side][r.price]) /\ x.id # r.id
        /\ qty # r.qty =>
             ToSet(w[side][r.price])
                 \subseteq ToSet(acc.v[side][r.price]) \cup {[r EXCEPT !.qty = @ - qty]}
    <3>1. Traded(acc.v, o, r, qty, w)
      BY <1>1, <1>2, <2>2, TradeFacts
    <3> HIDE DEF w, r
    <3> QED BY <3>1 DEF Traded
  <2> HIDE DEF w, side
  <2>5. Thins(v, w, side)
    <3>1. Thins(v, acc.v, side) /\ r \in ToSet(v[side][r.price])
      BY DEF Matched, side
    <3>2. [r EXCEPT !.qty = @ - qty].id = r.id /\ [r EXCEPT !.qty = @ - qty].price = r.price
      BY <1>2 DEF OrderSet
    <3> HIDE DEF r
    <3> SUFFICES ASSUME NEW p \in Prices, NEW x \in ToSet(w[side][p])
                 PROVE  \E y \in ToSet(v[side][p]) : y.id = x.id /\ y.price = x.price
      BY DEF Thins
    <3>3. CASE x \in ToSet(acc.v[side][p])
      BY <3>1, <3>3 DEF Thins
    <3>4. CASE x \notin ToSet(acc.v[side][p])
      <4>1. p = r.price
        BY <2>4, <3>4
      <4>2. x = [r EXCEPT !.qty = @ - qty]
        BY <2>4, <3>4, <4>1
      <4> QED BY <3>1, <3>2, <4>1, <4>2
    <3> QED BY <3>3, <3>4
  <2>6. ASSUME acc.left - qty > 0 PROVE Cleared(v, w, side, ms, i)
    <3>1. qty = r.qty /\ Cleared(v, acc.v, side, ms, i - 1)
      BY <1>1, <1>5, <2>3, <2>6 DEF Matched, side
    <3>2. \A j \in 1..i : j = i \/ j \in 1..(i - 1)
      BY <1>2
    <3> SUFFICES ASSUME NEW p \in Prices, NEW x \in ToSet(w[side][p])
                 PROVE  /\ x \in ToSet(v[side][p])
                        /\ \A j \in 1..i : ms[j].price = p => x.id # ms[j].id
      BY DEF Cleared
    <3>3. x \in ToSet(acc.v[side][p]) /\ (p = r.price => x.id # r.id)
      BY <2>4, <3>1
    <3>4. x \in ToSet(v[side][p]) /\ \A j \in 1..(i - 1) : ms[j].price = p => x.id # ms[j].id
      BY <3>1, <3>3 DEF Cleared
    <3> QED BY <3>2, <3>3, <3>4
  <2> QED BY <2>1, <2>3a, <2>4, <2>5, <2>6 DEF Matched, side
<1> QED BY <1>4, <1>5

\* What matchIncoming leaves: the order's own side as it was, nothing new on
\* the other, and when something of the order is left, no order of another
\* bot at a level that it reaches.
LEMMA MatchFacts ==
    ASSUME NEW v \in Shards, Placed(v), NEW o \in OrderSet, NEW useLimitPrice \in BOOLEAN
    PROVE  LET m == matchIncoming(v, o, useLimitPrice)
               side == Opposite(o.side)
           IN  /\ m.v \in Shards /\ m.left \in 0..o.qty
               /\ m.v.pendingOrders = v.pendingOrders
               /\ m.v[Own(o.side)] = v[Own(o.side)]
               /\ Thins(v, m.v, side)
               /\ m.left > 0 => \A p \in Reached(o, useLimitPrice) :
                                  \A x \in ToSet(m.v[side][p]) : isSelfCross(o.id, x.id)
<1> DEFINE ms == Makers(v, o, useLimitPrice)
           n == Len(ms)
           side == Opposite(o.side)
           base == [v |-> v, left |-> o.qty]
           m == matchIncoming(v, o, useLimitPrice)
<1>1. ms \in Seq(OrderSet)
  BY MakersFacts
<1>2. \A x : x \in ToSet(ms)
         <=> x \in Foreign(o) /\ \E p \in Reached(o, useLimitPrice) : x \in ToSet(v[side][p])
  BY MakersFacts
<1>3. PICK g \in [0..n -> Accs] : m = g[n] /\ IsCourse(g, n, base, MatchBody(o, ms))
  <2>1. m = MatchSeq(v, o, ms)
    BY MatchIsSeq
  <2> HIDE DEF ms, m
  <2> QED BY <1>1, <2>1, MatchCourse
<1>4. Reached(o, useLimitPrice) \subseteq Prices /\ side \in Sides
  BY SideFacts DEF Reached
<1> HIDE DEF ms, side, m
<1>5. n \in Nat /\ DOMAIN ms = 1..n /\ \A i \in 1..n : ms[i] \in OrderSet
  BY <1>1, SeqFacts
<1>6. \A i \in 1..n : ms[i] \in ToSet(v[side][ms[i].price])
  <2> TAKE i \in 1..n
  <2>1. ms[i] \in ToSet(ms)
    BY <1>5 DEF ToSet
  <2>2. PICK p \in Reached(o, useLimitPrice) : ms[i] \in ToSet(v[side][p])
    BY <1>2, <2>1
  <2>3. p \in Prices /\ ms[i].price = p
    BY <1>4, <2>2 DEF Placed
  <2> QED BY <2>2, <2>3
<1> DEFINE T == {i \in 0..n : Matched(v, o, g[i], ms, i)}
<1>7. 0 \in T
  <2>1. g[0] = base /\ 0 \in 0..n
    BY <1>3, <1>5 DEF IsCourse
  <2>2. Thins(v, v, side)
    BY DEF Thins
  <2>3. Cleared(v, v, side, ms, 0)
    BY DEF Cleared
  <2>4. base.left <= o.qty /\ base.v = v
    BY DEF OrderSet
  <2> HIDE DEF base
  <2> QED BY <2>1, <2>2, <2>3, <2>4 DEF Matched, side
<1>8. ASSUME NEW i \in 1..n, i - 1 \in T PROVE i \in T
  <2>0. i - 1 \in 0..n /\ i \in 0..n
    BY <1>5
  <2>1. g[i - 1] \in Accs /\ Matched(v, o, g[i - 1], ms, i - 1)
    BY <1>3, <1>8, <2>0
  <2>2. g[i] = MatchBody(o, ms)[i][g[i - 1]]
    BY <1>3 DEF IsCourse
  <2>3. g[i] = MatchStep(o, g[i - 1], ms[i])
    BY <2>1, <2>2 DEF MatchBody
  <2>4. ms[i] \in ToSet(v[Opposite(o.side)][ms[i].price])
    BY <1>6 DEF side
  <2>5. Matched(v, o, MatchStep(o, g[i - 1], ms[i]), ms, i)
    BY <1>1, <2>1, <2>4, MatchedStep
  <2> QED BY <2>0, <2>3, <2>5
<1>9. \A i \in 0..n : i \in T
  <2> HIDE DEF T, n
  <2> QED BY <1>5, <1>7, <1>8, RangeInduction
<1>10. Matched(v, o, m, ms, n) /\ m \in Accs
  <2>1. n \in 0..n
    BY <1>5
  <2> QED BY <1>3, <1>9, <2>1
<1>11. m.v \in Shards /\ m.left \in 0..o.qty
  BY <1>10, ValidatorAssumption DEF Matched, Accs, OrderSet
<1>12. ASSUME m.left > 0, NEW p \in Reached(o, useLimitPrice), NEW x \in ToSet(m.v[side][p])
       PROVE  isSelfCross(o.id, x.id)
  <2>1. Cleared(v, m.v, side, ms, n)
    BY <1>10, <1>12 DEF Matched, side
  <2>2. p \in Prices
    BY <1>4
  <2>3. x \in ToSet(v[side][p])
    BY <1>12, <2>1, <2>2 DEF Cleared
  <2>4. x \notin ToSet(ms)
    <3>1. x.price = p
      BY <1>4, <2>2, <2>3 DEF Placed
    <3>2. \A j \in 1..n : ms[j] # x
      BY <1>12, <2>1, <2>2, <3>1 DEF Cleared
    <3> QED BY <1>5, <3>2 DEF ToSet
  <2>5. x \in OrderSet
    <3>1. v[side] \in [Prices -> Seq(OrderSet)]
      BY <1>4, BookFacts
    <3> DEFINE level == v[side][p]
    <3>2. level \in Seq(OrderSet)
      BY <2>2, <3>1
    <3> HIDE DEF level
    <3>3. \A i \in DOMAIN level : level[i] \in OrderSet
      BY <3>2, SeqFacts
    <3> QED BY <2>3, <3>3 DEF level, ToSet
  <2> QED BY <1>2, <1>12, <2>3, <2>4, <2>5 DEF Foreign
<1> QED BY <1>10, <1>11, <1>12 DEF Matched, m, side

-----------------------------------------------------------------------------
(* Operations of the validator.                                            *)

\* No order can trade with another bot's.
NoCross(v) ==
    \A p, q \in Prices : \A b \in ToSet(v.bids[p]), a \in ToSet(v.asks[q]) :
        b.price >= a.price => isSelfCross(b.id, a.id)

ShardInv(v) == v \in Shards /\ Placed(v) /\ NoCross(v)

\* Taking orders out of a book, or quantity from them, keeps the invariant.
LEMMA ThinnedFacts ==
    ASSUME NEW v, NEW w \in Shards, ShardInv(v), \A side \in Sides : Thins(v, w, side)
    PROVE  ShardInv(w)
<1>1. Placed(w)
  <2> SUFFICES ASSUME NEW side \in Sides, NEW p \in Prices, NEW x \in ToSet(w[side][p])
               PROVE  x.price = p
    BY DEF Placed
  <2>1. PICK y \in ToSet(v[side][p]) : y.id = x.id /\ y.price = x.price
    BY DEF Thins
  <2> QED BY <2>1 DEF ShardInv, Placed
<1>2. NoCross(w)
  <2> SUFFICES ASSUME NEW p \in Prices, NEW q \in Prices, NEW b \in ToSet(w.bids[p]),
                      NEW a \in ToSet(w.asks[q]), b.price >= a.price
               PROVE  isSelfCross(b.id, a.id)
    BY DEF NoCross
  <2>1. PICK c \in ToSet(v.bids[p]) : c.id = b.id /\ c.price = b.price
    BY DEF Thins, Sides
  <2>2. PICK d \in ToSet(v.asks[q]) : d.id = a.id /\ d.price = a.price
    BY DEF Thins, Sides
  <2>3. isSelfCross(c.id, d.id)
    BY <2>1, <2>2 DEF ShardInv, NoCross
  <2> QED BY <2>1, <2>2, <2>3
<1> QED BY <1>1, <1>2 DEF ShardInv

\* So does a step that leaves the books alone.
LEMMA SameBooksFacts ==
    ASSUME NEW v, NEW w \in Shards, ShardInv(v), SameBooks(v, w)
    PROVE  ShardInv(w)
<1>1. \A side \in Sides : w[side] = v[side]
  BY DEF SameBooks, Sides
<1>2. \A side \in Sides : Thins(v, w, side)
  BY <1>1 DEF Thins
<1> QED BY <1>2, ThinnedFacts

\* checkCleanup keeps the invariant.
LEMMA CleanupInv ==
    ASSUME NEW v, ShardInv(v), NEW id \in Orders PROVE ShardInv(checkCleanup(v, id))
<1>1. v \in Shards
  BY DEF ShardInv
<1>2. checkCleanup(v, id) \in Shards /\ SameBooks(v, checkCleanup(v, id))
  BY <1>1, CleanupFacts
<1> QED BY <1>2, SameBooksFacts

\* matchIncoming keeps it.
LEMMA MatchInv ==
    ASSUME NEW v, ShardInv(v), NEW o \in OrderSet, NEW useLimitPrice \in BOOLEAN
    PROVE  ShardInv(matchIncoming(v, o, useLimitPrice).v)
<1> DEFINE w == matchIncoming(v, o, useLimitPrice).v
<1>1. v \in Shards /\ Placed(v)
  BY DEF ShardInv
<1>2. w \in Shards /\ w[Own(o.side)] = v[Own(o.side)] /\ Thins(v, w, Opposite(o.side))
  BY <1>1, MatchFacts
<1> HIDE DEF w
<1>3. Thins(v, w, Own(o.side))
  BY <1>2 DEF Thins
<1>4. \A side \in Sides : Thins(v, w, side)
  BY <1>2, <1>3, SideFacts
<1>5. ShardInv(w)
  BY <1>2, <1>4, ThinnedFacts
<1> QED BY <1>5 DEF w

\* An order that reaches no order of another bot may rest.
LEMMA RestInv ==
    ASSUME NEW v, ShardInv(v), NEW o \in OrderSet,
           \A p \in Reached(o, TRUE) : \A x \in ToSet(v[Opposite(o.side)][p]) :
               isSelfCross(o.id, x.id)
    PROVE  ShardInv(addOrderToBook(v, o))
<1> DEFINE side == Own(o.side)
           other == Opposite(o.side)
           old == v[side][o.price]
           new == Append(old, o)
           w == WithLevel(v, side, o.price, new)
<1>0. v \in Shards /\ Placed(v) /\ NoCross(v)
  BY DEF ShardInv
<1>1. side \in Sides /\ other \in Sides /\ side # other /\ Sides = {side, other}
  BY SideFacts
<1>2. o.price \in Prices /\ o.side \in {"buy", "sell"}
  BY DEF OrderSet
<1> HIDE DEF side, other
<1>3. v[side] \in [Prices -> Seq(OrderSet)]
  BY <1>0, <1>1, BookFacts
<1>4. old \in Seq(OrderSet)
  BY <1>2, <1>3
<1>5. addOrderToBook(v, o) = w
  BY DEF addOrderToBook, WithLevel, side
<1> HIDE DEF old
<1>6. new \in Seq(OrderSet) /\ ToSet(new) = ToSet(old) \cup {o}
  BY <1>4, ToSetAppend
<1> HIDE DEF new
<1>7. /\ w \in Shards /\ w[side] = [v[side] EXCEPT ![o.price] = new]
      /\ \A t \in Sides \ {side} : w[t] = v[t]
  BY <1>0, <1>1, <1>2, <1>6, LevelFacts
<1>8. w[other] = v[other]
  BY <1>1, <1>7
<1> HIDE DEF w
<1>9. \A p \in Prices : \A x \in ToSet(w[side][p]) :
         x \in ToSet(v[side][p]) \/ (x = o /\ p = o.price)
  BY <1>2, <1>3, <1>6, <1>7 DEF old
<1>10. Placed(w)
  BY <1>0, <1>1, <1>8, <1>9 DEF Placed
<1>11. NoCross(w)
  <2> SUFFICES ASSUME NEW p \in Prices, NEW q \in Prices, NEW b \in ToSet(w.bids[p]),
                      NEW a \in ToSet(w.asks[q]), b.price >= a.price
               PROVE  isSelfCross(b.id, a.id)
    BY DEF NoCross
  <2>1. b.price = p /\ a.price = q
    BY <1>10 DEF Placed, Sides
  <2>2. CASE b \in ToSet(v.bids[p]) /\ a \in ToSet(v.asks[q])
    BY <1>0, <2>2 DEF NoCross
  <2>3. CASE b \notin ToSet(v.bids[p])
    <3>1. side = "bids" /\ other = "asks"
      BY <1>1, <1>8, <2>3 DEF Sides
    <3>2. o.side = "buy"
      BY <1>2, <3>1 DEF side, Own
    <3>3. b = o /\ a \in ToSet(v[other][q])
      BY <1>8, <1>9, <2>3, <3>1
    <3>4. q \in Reached(o, TRUE)
      BY <2>1, <3>2, <3>3 DEF Reached, Crosses
    <3> QED BY <3>3, <3>4 DEF other
  <2>4. CASE a \notin ToSet(v.asks[q])
    <3>1. side = "asks" /\ other = "bids"
      BY <1>1, <1>8, <2>4 DEF Sides
    <3>2. o.side = "sell"
      BY <1>2, <3>1 DEF side, Own
    <3>3. a = o /\ b \in ToSet(v[other][p])
      BY <1>8, <1>9, <2>4, <3>1
    <3>4. p \in Reached(o, TRUE)
      <4>1. o.price <= p
        BY <1>2, <2>1, <3>3, PricesFacts
      <4> QED BY <3>2, <4>1 DEF Reached, Crosses
    <3>5. isSelfCross(o.id, b.id)
      BY <3>3, <3>4 DEF other
    <3> QED BY <3>3, <3>5 DEF isSelfCross
  <2> QED BY <2>2, <2>3, <2>4
<1> QED BY <1>5, <1>7, <1>10, <1>11 DEF ShardInv

\* matchLimitOrder keeps it: what rests reaches no order of another bot.
LEMMA LimitInv ==
    ASSUME NEW v, ShardInv(v), NEW o \in OrderSet
    PROVE  ShardInv(matchLimitOrder(v, o))
<1> DEFINE m == matchIncoming(v, o, TRUE)
           rest == [o EXCEPT !.qty = m.left]
<1>1. v \in Shards /\ Placed(v)
  BY DEF ShardInv
<1>2. ShardInv(m.v)
  BY MatchInv
<1>3. m.left \in 0..o.qty
  BY <1>1, MatchFacts
<1>4. m.left > 0 => \A p \in Reached(o, TRUE) : \A x \in ToSet(m.v[Opposite(o.side)][p]) :
                       isSelfCross(o.id, x.id)
  BY <1>1, MatchFacts
<1>5. matchLimitOrder(v, o) = IF m.left = 0 THEN m.v ELSE addOrderToBook(m.v, rest)
  BY DEF matchLimitOrder
<1> HIDE DEF m
<1>6. CASE m.left = 0
  BY <1>2, <1>5, <1>6
<1>7. CASE m.left # 0
  <2>1. o.qty \in 1..MaxQty /\ MaxQty \in Nat
    BY ValidatorAssumption DEF OrderSet
  <2>2. m.left > 0 /\ m.left \in 1..MaxQty
    BY <1>3, <1>7, <2>1
  <2>3. rest \in OrderSet
    BY <2>2 DEF OrderSet
  <2>4. rest.side = o.side /\ rest.price = o.price /\ rest.id = o.id
    BY DEF OrderSet
  <2>5. Reached(rest, TRUE) = Reached(o, TRUE)
    BY <2>4 DEF Reached, Crosses
  <2> HIDE DEF rest
  <2>6. \A p \in Reached(rest, TRUE) : \A x \in ToSet(m.v[Opposite(rest.side)][p]) :
           isSelfCross(rest.id, x.id)
    BY <1>4, <2>2, <2>4, <2>5
  <2>7. ShardInv(addOrderToBook(m.v, rest))
    BY <1>2, <2>3, <2>6, RestInv
  <2> QED BY <1>5, <1>7, <2>7
<1> QED BY <1>6, <1>7

\* removeRestingOrder keeps it.
LEMMA RemoveInv ==
    ASSUME NEW v, ShardInv(v), NEW id \in Orders
    PROVE  ShardInv(removeRestingOrder(v, id))
<1> DEFINE bids == [p \in Prices |-> Without(v.bids[p], id)]
           asks == [p \in Prices |-> Without(v.asks[p], id)]
           w == [v EXCEPT !.bids = bids, !.asks = asks]
<1>0. v \in Shards
  BY DEF ShardInv
<1>1. removeRestingOrder(v, id) = w
  BY DEF removeRestingOrder
<1>2. v.bids \in [Prices -> Seq(OrderSet)] /\ v.asks \in [Prices -> Seq(OrderSet)]
  BY <1>0 DEF Shards
<1>3. \A p \in Prices : bids[p] \in Seq(OrderSet) /\ ToSet(bids[p]) \subseteq ToSet(v.bids[p])
  <2> TAKE p \in Prices
  <2>1. bids[p] = Without(v.bids[p], id) /\ v.bids[p] \in Seq(OrderSet)
    BY <1>2
  <2> QED BY <2>1, WithoutFacts
<1>4. \A p \in Prices : asks[p] \in Seq(OrderSet) /\ ToSet(asks[p]) \subseteq ToSet(v.asks[p])
  <2> TAKE p \in Prices
  <2>1. asks[p] = Without(v.asks[p], id) /\ v.asks[p] \in Seq(OrderSet)
    BY <1>2
  <2> QED BY <2>1, WithoutFacts
<1>5. bids \in [Prices -> Seq(OrderSet)] /\ asks \in [Prices -> Seq(OrderSet)]
  BY <1>3, <1>4
<1> HIDE DEF bids, asks
<1>6. w \in Shards /\ w.bids = bids /\ w.asks = asks
  BY <1>0, <1>5 DEF Shards
<1> HIDE DEF w
<1>7. Thins(v, w, "bids") /\ Thins(v, w, "asks")
  BY <1>3, <1>4, <1>6 DEF Thins
<1> QED BY <1>1, <1>6, <1>7, ThinnedFacts DEF Sides

\* ProcessOrder keeps it.
LEMMA OrderInv ==
    ASSUME NEW v, ShardInv(v), NEW o \in OrderSet PROVE ShardInv(ProcessOrder(v, o))
<1> DEFINE repeats == (IF IsPending(v, o.id) THEN 1 ELSE 0)
                      + (IF o.id \in Resting(v) THEN 1 ELSE 0)
           dups == v.duplicateOrders + repeats
           pend == {p \in v.pendingOrders : p.id # o.id} \cup {o}
           w == [v EXCEPT !.duplicateOrders = dups, !.pendingOrders = pend]
           u == [v EXCEPT !.pendingOrders = pend]
<1>0. v \in Shards
  BY DEF ShardInv
<1>1. repeats \in Nat
  OBVIOUS
<1>2. ProcessOrder(v, o) = w
  BY DEF ProcessOrder
<1> HIDE DEF repeats
<1>3. dups \in Nat /\ pend \in SUBSET OrderSet
  BY <1>0, <1>1 DEF Shards
<1> HIDE DEF dups, pend
<1>4. w \in Shards /\ w.bids = v.bids /\ w.asks = v.asks
  BY <1>0, <1>3 DEF Shards
<1> HIDE DEF w
<1>5. \A side \in Sides : w[side] = v[side]
  BY <1>4 DEF Sides
<1>6. \A side \in Sides : Thins(v, w, side)
  BY <1>5 DEF Thins
<1> QED BY <1>2, <1>4, <1>6, ThinnedFacts

\* A change outside the books.
LEMMA OutsideInv ==
    ASSUME NEW v, ShardInv(v), NEW w \in Shards, w.bids = v.bids, w.asks = v.asks
    PROVE  ShardInv(w)
<1>1. \A side \in Sides : w[side] = v[side]
  BY DEF Sides
<1>2. \A side \in Sides : Thins(v, w, side)
  BY <1>1 DEF Thins
<1> QED BY <1>2, ThinnedFacts

\* ProcessAck keeps it, whatever the status and the order.
LEMMA AckInv ==
    ASSUME NEW v, ShardInv(v), NEW id \in Orders, NEW status
    PROVE  ShardInv(ProcessAck(v, id, status))
<1> DEFINE order == CHOOSE o \in v.pendingOrders : o.id = id
           pend == v.pendingOrders \ {order}
           acked == [v EXCEPT !.pendingOrders = pend]
           acks == v.unknownAcks + 1
           faulty == acked.ackViolations + 1
           unknown == [v EXCEPT !.unknownAcks = acks]
           wrong == [acked EXCEPT !.ackViolations = faulty]
           next == CASE status = "cancelled" -> removeRestingOrder(v, id)
                     [] status # "cancelled" /\ ~IsPending(v, id) ->
                          IF status = "rejected" THEN v ELSE unknown
                     [] OTHER -> IF status # "accepted" THEN wrong
                                 ELSE IF order.type = "limit"
                                 THEN matchLimitOrder(acked, order)
                                 ELSE matchMarketOrder(acked, order)
<1>0. v \in Shards /\ v.pendingOrders \in SUBSET OrderSet
  BY DEF ShardInv, Shards
<1>1. ProcessAck(v, id, status) = checkCleanup(next, id)
  BY DEF ProcessAck
<1>2. ShardInv(unknown)
  <2>0. acks \in Nat
    BY <1>0 DEF Shards
  <2> HIDE DEF acks
  <2>1. unknown \in Shards /\ unknown.bids = v.bids /\ unknown.asks = v.asks
    BY <1>0, <2>0 DEF Shards
  <2> HIDE DEF unknown
  <2> QED BY <2>1, OutsideInv
<1>3. IsPending(v, id) => order \in OrderSet
  BY <1>0 DEF IsPending
<1>4. pend \in SUBSET OrderSet
  BY <1>0
<1> HIDE DEF order, pend
<1>5. ShardInv(acked)
  <2>1. acked \in Shards /\ acked.bids = v.bids /\ acked.asks = v.asks
    BY <1>0, <1>4 DEF Shards
  <2> HIDE DEF acked
  <2> QED BY <2>1, OutsideInv
<1> HIDE DEF acked, unknown
<1>6. ShardInv(wrong)
  <2>0. acked \in Shards
    BY <1>5 DEF ShardInv
  <2>2. faulty \in Nat
    BY <2>0 DEF Shards
  <2> HIDE DEF faulty
  <2>1. wrong \in Shards /\ wrong.bids = acked.bids /\ wrong.asks = acked.asks
    BY <2>0, <2>2 DEF Shards
  <2> HIDE DEF wrong
  <2> QED BY <1>5, <2>1, OutsideInv
<1> HIDE DEF wrong
<1>7. ShardInv(removeRestingOrder(v, id))
  BY RemoveInv
<1>8. IsPending(v, id) => ShardInv(matchLimitOrder(acked, order))
  BY <1>3, <1>5, LimitInv
<1>9. IsPending(v, id) => ShardInv(matchMarketOrder(acked, order))
  BY <1>3, <1>5, MatchInv DEF matchMarketOrder
<1>10. ShardInv(next)
  BY <1>2, <1>6, <1>7, <1>8, <1>9
<1> HIDE DEF next
<1> QED BY <1>1, <1>10, CleanupInv

\* ProcessFill keeps it.
LEMMA FillInv ==
    ASSUME NEW v, ShardInv(v), NEW id \in Orders, NEW fill \in FillSet
    PROVE  ShardInv(ProcessFill(v, id, fill))
<1> DEFINE fills == [v.actualFills EXCEPT ![id] = Append(@, fill)]
           w == [v EXCEPT !.actualFills = fills]
<1>0. v \in Shards /\ v.actualFills \in [Orders -> Seq(FillSet)]
  BY DEF ShardInv, Shards
<1>1. fills \in [Orders -> Seq(FillSet)]
  BY <1>0
<1>2. ProcessFill(v, id, fill) = checkCleanup(w, id)
  BY DEF ProcessFill
<1> HIDE DEF fills
<1>3. w \in Shards /\ w.bids = v.bids /\ w.asks = v.asks
  BY <1>0, <1>1 DEF Shards
<1> HIDE DEF w
<1> QED BY <1>2, <1>3, OutsideInv, CleanupInv

\* NewSymbolShard has it.
LEMMA NewShardInv == ShardInv(NewSymbolShard)
<1> DEFINE empty == [p \in Prices |-> <<>>]
           none == [o \in Orders |-> <<>>]
           v == NewSymbolShard
<1>1. empty \in [Prices -> Seq(OrderSet)] /\ none \in [Orders -> Seq(FillSet)]
  OBVIOUS
<1>2. \A p \in Prices : ToSet(empty[p]) = {}
  BY DEF ToSet
<1> HIDE DEF empty, none
<1>3. v \in Shards
  BY <1>1 DEF NewSymbolShard, Shards, empty, none
<1>4. v.bids = empty /\ v.asks = empty
  BY DEF NewSymbolShard, empty
<1> HIDE DEF v
<1>5. Placed(v) /\ NoCross(v)
  BY <1>2, <1>4 DEF Placed, NoCross, Sides
<1> QED BY <1>3, <1>5 DEF ShardInv, v

-----------------------------------------------------------------------------
(* The reference engine.                                                   *)

BookSet == [buyOrders : Seq(OrderSet), sellOrders : Seq(OrderSet)]
EngineAccs == [left : 0..MaxQty, orders : Seq(OrderSet), reports : Seq(ReportSet)]

\* The engine's reports are reports.
LEMMA ReportFacts ==
    ASSUME NEW id \in Orders, NEW qty \in Nat, NEW price \in Nat, NEW with \in Orders,
           NEW status \in {"accepted", "cancelled", "rejected"}
    PROVE  /\ Engine!FillReport(id, qty, price, with) \in ReportSet
           /\ Engine!Ack(id, status) \in ReportSet
  BY DEF Engine!FillReport, Engine!Ack, ReportSet

\* A step of the engine's loop stays in its range.
LEMMA MatchNextFacts ==
    ASSUME NEW o \in OrderSet, NEW acc \in EngineAccs, NEW ro \in OrderSet
    PROVE  Engine!MatchNext(o, acc, ro) \in EngineAccs
<1> DEFINE qty == IF ro.qty < acc.left THEN ro.qty ELSE acc.left
           part == [ro EXCEPT !.qty = @ - qty]
           one == Engine!FillReport(o.id, qty, ro.price, ro.id)
           two == Engine!FillReport(ro.id, qty, ro.price, o.id)
           reps == acc.reports \o <<one, two>>
           left == acc.left - qty
           ords == IF qty = ro.qty THEN acc.orders ELSE Append(acc.orders, part)
           kept == Append(acc.orders, ro)
<1>1. /\ acc.left \in 0..MaxQty /\ acc.orders \in Seq(OrderSet)
      /\ acc.reports \in Seq(ReportSet) /\ MaxQty \in Nat
  BY ValidatorAssumption DEF EngineAccs
<1>2. o.id \in Orders /\ ro.id \in Orders /\ ro.price \in Prices /\ ro.qty \in 1..MaxQty
  BY DEF OrderSet
<1>3. ro.price \in Nat
  BY <1>2, PricesFacts
<1>4. qty \in Nat /\ left \in 0..MaxQty /\ (qty # ro.qty => ro.qty - qty \in 1..MaxQty)
  BY <1>1, <1>2
<1>5. Engine!MatchNext(o, acc, ro) =
        IF acc.left = 0 \/ ~Engine!Tradable(o, ro)
        THEN [acc EXCEPT !.orders = kept]
        ELSE [left |-> left, orders |-> ords, reports |-> reps]
  BY DEF Engine!MatchNext
<1> HIDE DEF qty
<1>6. one \in ReportSet /\ two \in ReportSet
  BY <1>2, <1>3, <1>4, ReportFacts
<1>7. qty # ro.qty => part \in OrderSet
  BY <1>4 DEF OrderSet
<1> HIDE DEF part, one, two, left
<1>8. ords \in Seq(OrderSet) /\ kept \in Seq(OrderSet)
  BY <1>1, <1>7
<1>9. reps \in Seq(ReportSet)
  <2>1. <<one, two>> \in Seq(ReportSet)
    BY <1>6
  <2> QED BY <1>1, <2>1
<1> HIDE DEF ords, kept, reps
<1>10. [acc EXCEPT !.orders = kept] \in EngineAccs
  BY <1>8 DEF EngineAccs
<1>11. [left |-> left, orders |-> ords, reports |-> reps] \in EngineAccs
  BY <1>4, <1>8, <1>9 DEF EngineAccs
<1> QED BY <1>5, <1>10, <1>11

EngineBody(o, s) == [i \in 1..Len(s) |-> [acc \in EngineAccs |-> Engine!MatchNext(o, acc, s[i])]]

\* The loop over the first of the resting orders.
EngineBase(o) ==
    [left |-> o.qty, orders |-> <<>>, reports |-> <<Engine!Ack(o.id, "accepted")>>]
EngineSeq(o, s) == FoldLeft(LAMBDA acc, ro : Engine!MatchNext(o, acc, ro), EngineBase(o), s)

\* The engine's loop is over the other slice.
LEMMA MatchIsEngineSeq ==
    ASSUME NEW b, NEW o PROVE Engine!Match(b, o) = EngineSeq(o, b[Engine!Against(o.side)])
  BY DEF Engine!Match, EngineSeq, EngineBase, Engine!FoldLeft, Engine!MapThenFoldSet, Engine!Max,
         FoldLeft, MapThenFoldSet, Max

\* The engine's loop, one resting order after the other.
LEMMA EngineCourse ==
    ASSUME NEW o \in OrderSet, NEW s \in Seq(OrderSet)
    PROVE  \E g \in [0..Len(s) -> EngineAccs] :
              EngineSeq(o, s) = g[Len(s)] /\ IsCourse(g, Len(s), EngineBase(o), EngineBody(o, s))
<1> DEFINE n == Len(s)
           base == EngineBase(o)
           Step(f, d) == IF d = {} THEN base
                         ELSE Engine!MatchNext(o, f[d \ {Max(d)}], s[Max(d)])
           fold == CHOOSE f : f = [d \in SUBSET DOMAIN s |-> Step(f, d)]
           body == EngineBody(o, s)
<1>8. EngineSeq(o, s) = fold[DOMAIN s]
  BY DEF EngineSeq, FoldLeft, MapThenFoldSet
<1>1. n \in Nat /\ DOMAIN s = 1..n /\ \A i \in 1..n : s[i] \in OrderSet
  BY SeqFacts
<1>2. \A i \in 1..n, a \in EngineAccs : body[i][a] = Engine!MatchNext(o, a, s[i])
  BY DEF EngineBody
<1>3. SeqFoldData(n, EngineAccs, base, body)
  <2>1. base \in EngineAccs
    <3>1. Engine!Ack(o.id, "accepted") \in ReportSet
      BY DEF Engine!Ack, ReportSet, OrderSet
    <3>2. <<Engine!Ack(o.id, "accepted")>> \in Seq(ReportSet)
      BY <3>1
    <3>3. o.qty \in 0..MaxQty
      BY DEF OrderSet
    <3> QED BY <3>2, <3>3 DEF EngineAccs, EngineBase
  <2>2. \A i \in 1..n, a \in EngineAccs : Engine!MatchNext(o, a, s[i]) \in EngineAccs
    BY <1>1, MatchNextFacts
  <2>3. body \in [1..n -> [EngineAccs -> EngineAccs]]
    BY <2>2 DEF EngineBody
  <2> QED BY <1>1, <2>1, <2>3 DEF SeqFoldData
<1> HIDE DEF n, body, base
<1>4. PICK f : IsSeqFold(f, n, EngineAccs, base, body)
  BY <1>3, SeqFoldExists
<1>5. ASSUME NEW d \in Parts(n) PROVE f[d] = Step(f, d)
  <2>0. n \in Nat
    BY <1>1
  <2>1. d = {} => f[d] = base
    BY <1>4 DEF IsSeqFold
  <2>2. d # {} => f[d] = body[Max(d)][f[d \ {Max(d)}]]
    BY <1>4, <2>0, SeqFoldAt
  <2>3. d # {} => Max(d) \in 1..n /\ f[d \ {Max(d)}] \in EngineAccs
    BY <1>4, <2>0, SeqFoldAt
  <2> QED BY <1>2, <2>1, <2>2, <2>3
<1>6. f = [d \in SUBSET DOMAIN s |-> Step(f, d)]
  <2> HIDE DEF Step
  <2> QED BY <1>1, <1>4, <1>5 DEF IsSeqFold, Parts
<1>7. fold = [d \in SUBSET DOMAIN s |-> Step(fold, d)]
  <2> HIDE DEF Step
  <2> QED BY <1>6
<1>9. \A d \in Parts(n) : fold[d] = Step(fold, d)
  <2> HIDE DEF Step, fold
  <2> QED BY <1>1, <1>7 DEF Parts
<1> HIDE DEF fold
<1>10. Follows(fold, n, EngineAccs, base, body)
  <2>1. {} \in Parts(n) /\ n \in Nat
    BY <1>1 DEF Parts
  <2>2. fold[{}] = base
    BY <1>9, <2>1
  <2>3. ASSUME NEW d \in Parts(n), d # {}, fold[d \ {Max(d)}] \in EngineAccs
        PROVE  fold[d] = body[Max(d)][fold[d \ {Max(d)}]]
    <3>1. Max(d) \in 1..n
      BY <2>1, <2>3, MaxOfIndices
    <3>2. fold[d] = Step(fold, d)
      BY <1>9
    <3> QED BY <1>2, <2>3, <3>1, <3>2
  <2> QED BY <2>2, <2>3 DEF Follows
<1>11. PICK g \in [0..n -> EngineAccs] : fold[1..n] = g[n] /\ IsCourse(g, n, base, body)
  BY <1>3, <1>10, SeqFoldCourse
<1> QED BY <1>1, <1>8, <1>11 DEF n, body, base

\* So does the loop.
LEMMA EngineMatchFacts ==
    ASSUME NEW b \in BookSet, NEW o \in OrderSet
    PROVE  Engine!Match(b, o) \in EngineAccs
<1> DEFINE s == b[Engine!Against(o.side)]
<1>1. s \in Seq(OrderSet) /\ Engine!Match(b, o) = EngineSeq(o, s)
  BY MatchIsEngineSeq DEF BookSet, Engine!Against
<1> HIDE DEF s
<1>2. PICK g \in [0..Len(s) -> EngineAccs] : EngineSeq(o, s) = g[Len(s)]
  BY <1>1, EngineCourse
<1>3. Len(s) \in 0..Len(s)
  BY <1>1, SeqFacts
<1> QED BY <1>1, <1>2, <1>3

\* SelectInSeq returns an index.
LEMMA SelectFacts ==
    ASSUME NEW s \in Seq(OrderSet), NEW T
    PROVE  LET I == {i \in 1..Len(s) : s[i] \in T}
           IN  I # {} => Min(I) \in 1..Len(s)
<1> DEFINE I == {i \in 1..Len(s) : s[i] \in T}
<1>1. Len(s) \in Nat
  OBVIOUS
<1>2. IsFiniteSet(1..Len(s))
  BY <1>1, FS_Interval
<1>3. IsFiniteSet(I)
  BY <1>2, FS_Subset
<1>4. I \in SUBSET Int
  BY <1>1
<1>5. I # {} => Min(I) \in I
  <2> HIDE DEF I
  <2> QED BY <1>3, <1>4, MaxMinIn
<1> QED BY <1>5

\* The parts of a sequence around an index.
LEMMA PartFacts ==
    ASSUME NEW A, NEW s \in Seq(A), NEW i \in 1..Len(s)
    PROVE  /\ SubSeq(s, 1, i - 1) \in Seq(A) /\ SubSeq(s, i, Len(s)) \in Seq(A)
           /\ SubSeq(s, i + 1, Len(s)) \in Seq(A)
<1>1. Len(s) \in Nat /\ i \in Nat
  BY SeqFacts
<1>2. \A m \in 1..(Len(s) + 1), n \in 0..Len(s) : SubSeq(s, m, n) \in Seq(A)
  BY SubSeqProperties
<1> QED BY <1>1, <1>2

\* Insert adds an order to a slice.
LEMMA InsertFacts ==
    ASSUME NEW s \in Seq(OrderSet), NEW o \in OrderSet
    PROVE  Engine!Insert(s, o) \in Seq(OrderSet)
<1> DEFINE T == {ro \in OrderSet : IF o.side = "buy" THEN o.price > ro.price
                                                     ELSE o.price < ro.price}
           I == {i \in 1..Len(s) : s[i] \in T}
           k == Min(I)
<1>1. \A i \in 1..Len(s) : s[i] \in OrderSet
  BY SeqFacts
<1>2. I = {i \in 1..Len(s) : IF o.side = "buy" THEN o.price > s[i].price
                                                ELSE o.price < s[i].price}
  BY <1>1
<1>3. I # {} => k \in 1..Len(s)
  <2> HIDE DEF T
  <2> QED BY SelectFacts
<1>4. Engine!Insert(s, o) \in {Append(s, o), SubSeq(s, 1, k - 1) \o <<o>> \o SubSeq(s, k, Len(s))}
  <2> DEFINE J == {i \in 1..Len(s) : IF o.side = "buy" THEN o.price > s[i].price
                                                ELSE o.price < s[i].price}
  <2>1. Engine!Insert(s, o) =
          IF (IF J # {} THEN Min(J) ELSE 0) = 0 THEN Append(s, o)
          ELSE SubSeq(s, 1, (IF J # {} THEN Min(J) ELSE 0) - 1) \o <<o>>
               \o SubSeq(s, IF J # {} THEN Min(J) ELSE 0, Len(s))
    BY DEF Engine!Insert, Engine!SelectInSeq, Engine!InsertAt, Engine!Min, Min
  <2>2. J = I
    BY <1>2
  <2> HIDE DEF J, I
  <2> QED BY <2>1, <2>2
<1>5. Append(s, o) \in Seq(OrderSet)
  OBVIOUS
<1>6. I # {} => SubSeq(s, 1, k - 1) \o <<o>> \o SubSeq(s, k, Len(s)) \in Seq(OrderSet)
  <2> HIDE DEF k, I
  <2>1. ASSUME I # {}
        PROVE  SubSeq(s, 1, k - 1) \in Seq(OrderSet) /\ SubSeq(s, k, Len(s)) \in Seq(OrderSet)
    BY <1>3, <2>1, PartFacts
  <2>2. <<o>> \in Seq(OrderSet)
    OBVIOUS
  <2> DEFINE x == SubSeq(s, 1, k - 1)
             y == SubSeq(s, k, Len(s))
             z == <<o>>
  <2> HIDE DEF x, y, z
  <2>3. I # {} => x \o z \o y \in Seq(OrderSet)
    BY <2>1, <2>2 DEF x, y, z
  <2> QED BY <2>3 DEF x, y, z
<1>7. I = {} => Engine!Insert(s, o) = Append(s, o)
  <2> DEFINE J == {i \in 1..Len(s) : IF o.side = "buy" THEN o.price > s[i].price
                                                ELSE o.price < s[i].price}
  <2>1. J = {} => Engine!Insert(s, o) = Append(s, o)
    BY DEF Engine!Insert, Engine!SelectInSeq
  <2> QED BY <1>2, <2>1
<1> HIDE DEF I, k
<1> QED BY <1>4, <1>5, <1>6, <1>7

\* handleOrder for a cancel returns a book and reports.
LEMMA CancelFacts ==
    ASSUME NEW b \in BookSet, NEW id \in Orders
    PROVE  /\ Engine!HandleCancel(b, id).book \in BookSet
           /\ Engine!HandleCancel(b, id).reports \in Seq(ReportSet)
<1> DEFINE Gone(s) == Engine!RemoveFirstMatch(s, LAMBDA ro : ro.id = id)
           Removed(side) == [book |-> [b EXCEPT ![side] = Gone(@)],
                             reports |-> <<Engine!Ack(id, "cancelled")>>]
           Same == [book |-> b, reports |-> <<Engine!Ack(id, "rejected")>>]
<1>1. Engine!HandleCancel(b, id) \in {Removed("buyOrders"), Removed("sellOrders"), Same}
  BY DEF Engine!HandleCancel
<1>2. ASSUME NEW s \in Seq(OrderSet) PROVE Gone(s) \in Seq(OrderSet)
  <2> DEFINE T == {ro \in OrderSet : ro.id = id}
             I == {i \in 1..Len(s) : s[i] \in T}
             J == {i \in 1..Len(s) : s[i].id = id}
             k == Min(I)
  <2>1. \A i \in 1..Len(s) : s[i] \in OrderSet
    BY SeqFacts
  <2>2. I = J
    BY <2>1
  <2>3. I # {} => k \in 1..Len(s)
    <3> HIDE DEF T
    <3> QED BY SelectFacts
  <2>4. J = {} => Gone(s) = s
    BY DEF Engine!RemoveFirstMatch
  <2>5. J # {} => Gone(s) = SubSeq(s, 1, Min(J) - 1) \o SubSeq(s, Min(J) + 1, Len(s))
    BY DEF Engine!RemoveFirstMatch, Engine!RemoveAt, Engine!SelectInSeq, Engine!Min, Min
  <2>6. J # {} => Gone(s) = SubSeq(s, 1, k - 1) \o SubSeq(s, k + 1, Len(s))
    BY <2>2, <2>5
  <2> HIDE DEF J, I, k, Gone
  <2>7. J # {} => /\ SubSeq(s, 1, k - 1) \in Seq(OrderSet)
                  /\ SubSeq(s, k + 1, Len(s)) \in Seq(OrderSet)
    BY <2>2, <2>3, PartFacts
  <2> DEFINE x == SubSeq(s, 1, k - 1)
             y == SubSeq(s, k + 1, Len(s))
  <2>9. J # {} => x \in Seq(OrderSet) /\ y \in Seq(OrderSet)
    BY <2>7
  <2>10. J # {} => Gone(s) = x \o y
    BY <2>6
  <2> HIDE DEF x, y
  <2>11. J # {} => x \o y \in Seq(OrderSet)
    BY <2>9
  <2> DEFINE z == x \o y
  <2>12. (J # {} => z \in Seq(OrderSet)) /\ (J # {} => Gone(s) = z)
    BY <2>10, <2>11
  <2> HIDE DEF z
  <2>8. J # {} => Gone(s) \in Seq(OrderSet)
    BY <2>12
  <2> QED BY <2>4, <2>8
<1> HIDE DEF Gone
<1>3. Engine!Ack(id, "cancelled") \in ReportSet /\ Engine!Ack(id, "rejected") \in ReportSet
  BY DEF Engine!Ack, ReportSet
<1>4. /\ <<Engine!Ack(id, "cancelled")>> \in Seq(ReportSet)
      /\ <<Engine!Ack(id, "rejected")>> \in Seq(ReportSet)
  BY <1>3
<1>5. Gone(b.buyOrders) \in Seq(OrderSet) /\ Gone(b.sellOrders) \in Seq(OrderSet)
  BY <1>2 DEF BookSet
<1>6. [b EXCEPT !.buyOrders = Gone(@)] \in BookSet /\ [b EXCEPT !.sellOrders = Gone(@)] \in BookSet
  BY <1>5 DEF BookSet
<1> DEFINE Good(r) == r.book \in BookSet /\ r.reports \in Seq(ReportSet)
<1>7. Good(Removed("buyOrders"))
  BY <1>4, <1>6
<1>8. Good(Removed("sellOrders"))
  BY <1>4, <1>6
<1>9. Good(Same)
  BY <1>4
<1> HIDE DEF Removed, Same
<1>10. Good(Engine!HandleCancel(b, id))
  <2> HIDE DEF Good
  <2> QED BY <1>1, <1>7, <1>8, <1>9
<1> QED BY <1>10

\* handleOrder for an order returns a book and reports.
LEMMA HandleFacts ==
    ASSUME NEW b \in BookSet, NEW o \in OrderSet
    PROVE  /\ Engine!HandleOrder(b, o).book \in BookSet
           /\ Engine!HandleOrder(b, o).reports \in Seq(ReportSet)
<1> DEFINE end == Engine!Match(b, o)
           mine == Engine!BookOf(o.side)
           theirs == Engine!Against(o.side)
           rest == [o EXCEPT !.qty = end.left]
           matched == [b EXCEPT ![theirs] = end.orders]
           rested == [matched EXCEPT ![mine] = Engine!Insert(@, rest)]
           next == IF end.left > 0 /\ o.type = "limit" THEN rested ELSE matched
<1>1. Engine!HandleOrder(b, o) = [book |-> next, reports |-> end.reports]
  BY DEF Engine!HandleOrder
<1>2. end \in EngineAccs
  BY EngineMatchFacts
<1>3. mine \in {"buyOrders", "sellOrders"} /\ theirs \in {"buyOrders", "sellOrders"}
  BY DEF Engine!BookOf, Engine!Against
<1> HIDE DEF end, mine, theirs
<1>4. end.left \in 0..MaxQty /\ end.orders \in Seq(OrderSet) /\ end.reports \in Seq(ReportSet)
  BY <1>2 DEF EngineAccs
<1>5. matched \in BookSet
  BY <1>3, <1>4 DEF BookSet
<1>6. end.left > 0 => rest \in OrderSet
  <2>1. end.left > 0 => end.left \in 1..MaxQty
    BY <1>4, ValidatorAssumption
  <2> QED BY <2>1 DEF OrderSet
<1> HIDE DEF matched, rest
<1>7. matched[mine] \in Seq(OrderSet)
  BY <1>3, <1>5 DEF BookSet
<1> DEFINE ins == Engine!Insert(matched[mine], rest)
<1>8. end.left > 0 => ins \in Seq(OrderSet)
  BY <1>6, <1>7, InsertFacts
<1>9. rested = [matched EXCEPT ![mine] = ins]
  OBVIOUS
<1> HIDE DEF ins, rested
<1>10. end.left > 0 => rested \in BookSet
  BY <1>3, <1>5, <1>8, <1>9 DEF BookSet
<1> QED BY <1>1, <1>4, <1>5, <1>10

-----------------------------------------------------------------------------
(* The specification: types, and no foreign cross.                         *)

Messages == OrderSet \cup [id : Orders, type : {"cancel"}]

\* The inductive invariant: of the validator it needs that an order rests at
\* the level of its price.
IInv == TypeOK /\ Placed(shard) /\ OnlySelfCrosses

\* What a report says.
LEMMA FillReportFacts ==
    ASSUME NEW r \in ReportSet
    PROVE  /\ r.order \in Orders
           /\ r.status \in {"accepted", "cancelled", "rejected", "filled"}
           /\ r.status = "filled" =>
                /\ r \in [order : Orders, status : {"filled"}, qty : Nat, price : Nat,
                          with : Orders]
                /\ Fill(r) \in FillSet
  BY DEF ReportSet, Fill, FillSet

\* The first element of a sequence and the others.
LEMMA HeadTail ==
    ASSUME NEW A, NEW s \in Seq(A), s # <<>>
    PROVE  Head(s) \in A /\ Tail(s) \in Seq(A)
  OBVIOUS

\* Every order has a bot.
LEMMA BotIn == ASSUME NEW id \in Orders PROVE BotOf[id] \in Bots
  BY DEF Bots

\* Sending keeps the type of the inboxes.
LEMMA SendType ==
    ASSUME TypeOK, NEW bot \in Bots, NEW msg \in Messages, Send(bot, msg)
    PROVE  inbox' \in [Bots -> Seq(Messages)]
<1>1. inbox \in [Bots -> Seq(Messages)]
  BY DEF TypeOK, Messages
<1>2. Append(inbox[bot], msg) \in Seq(Messages)
  BY <1>1
<1> QED BY <1>1, <1>2 DEF Send

\* The invariant holds initially.
LEMMA InitInv == ASSUME Init PROVE IInv
<1>1. ShardInv(shard)
  BY NewShardInv DEF Init
<1>2. book \in [buyOrders : Seq(OrderSet), sellOrders : Seq(OrderSet)]
  BY DEF Init, Engine!EmptyBook
<1>3. cancels \in 0..MaxCancels /\ faults \in 0..MaxFaults
  BY JudgingAssumption DEF Init
<1>4. inbox \in [Bots -> Seq(Messages)] /\ reports \in Seq(ReportSet)
  BY DEF Init
<1>5. late \in Seq(ReportSet)
  BY DEF Init
<1>6. flushed \in BOOLEAN /\ overtaken \in BOOLEAN
  BY DEF Init
<1> QED BY <1>1, <1>2, <1>3, <1>4, <1>5, <1>6
        DEF Init, IInv, TypeOK, ShardInv, NoCross, OnlySelfCrosses, Messages

\* The rest of TypeOK.
OthersOK ==
    /\ sent \subseteq Orders /\ active \subseteq sent
    /\ path \in {"pretest", "fleet"}
    /\ cancels \in 0..MaxCancels
    /\ unpublished \subseteq OrderSet
    /\ inbox \in [Bots -> Seq(Messages)]
    /\ book \in BookSet
    /\ reports \in Seq(ReportSet)
    /\ accepted \subseteq Orders
    /\ faults \in 0..MaxFaults
    /\ misreported \in BOOLEAN
    /\ withheld \subseteq Orders
    /\ late \in Seq(ReportSet)
    /\ flushed \in BOOLEAN /\ overtaken \in BOOLEAN

\* The invariant in two parts.
LEMMA IInvParts == IInv <=> OthersOK /\ ShardInv(shard)
  BY DEF IInv, OthersOK, TypeOK, ShardInv, NoCross, OnlySelfCrosses, Messages, BookSet

\* The same after a step.
LEMMA IInvPartsPrime == OthersOK' /\ ShardInv(shard') => IInv'
  BY DEF IInv, OthersOK, TypeOK, ShardInv, NoCross, OnlySelfCrosses, Messages, BookSet

\* Each action keeps the invariant: SendOrder,
LEMMA SendOrderInv == ASSUME IInv, SendOrder PROVE IInv'
<1>1. OthersOK /\ ShardInv(shard)
  BY IInvParts
<1>0. PICK id \in Orders : \E o \in NextOrders(id) :
        /\ sent' = sent \cup {id}
        /\ active' = IF o.type = "limit" THEN active \cup {id} ELSE active
        /\ IF path = "pretest"
           THEN shard' = ProcessOrder(shard, o) /\ UNCHANGED unpublished
           ELSE unpublished' = unpublished \cup {o} /\ UNCHANGED shard
        /\ Send(BotOf[id], o)
  BY DEF SendOrder
<1>2. PICK o \in NextOrders(id) :
        /\ sent' = sent \cup {id}
        /\ active' = IF o.type = "limit" THEN active \cup {id} ELSE active
        /\ IF path = "pretest"
           THEN shard' = ProcessOrder(shard, o) /\ UNCHANGED unpublished
           ELSE unpublished' = unpublished \cup {o} /\ UNCHANGED shard
        /\ Send(BotOf[id], o)
  BY <1>0
<1>3. o \in OrderSet
  BY DEF NextOrders
<1>4. ShardInv(shard')
  <2>1. ShardInv(ProcessOrder(shard, o))
    BY <1>1, <1>3, OrderInv
  <2> QED BY <1>1, <1>2, <2>1
<1>5. inbox' \in [Bots -> Seq(Messages)]
  <2>1. BotOf[id] \in Bots
    BY BotIn
  <2>2. TypeOK
    BY DEF IInv
  <2> QED BY <1>2, <1>3, <2>1, <2>2, SendType DEF Messages
<1>6. unpublished' \subseteq OrderSet
  BY <1>1, <1>2, <1>3 DEF OthersOK
<1>7. sent' \subseteq Orders /\ active' \subseteq sent'
  BY <1>1, <1>2 DEF OthersOK
<1>8. OthersOK'
  BY <1>1, <1>5, <1>6, <1>7 DEF OthersOK, SendOrder, faultVars, lateVars
<1> QED BY <1>4, <1>8, IInvPartsPrime

\* SendCancel,
LEMMA SendCancelInv == ASSUME IInv, SendCancel PROVE IInv'
<1>1. OthersOK /\ ShardInv(shard)
  BY IInvParts
<1>2. PICK id \in active :
        active' = active \ {id} /\ Send(BotOf[id], [id |-> id, type |-> "cancel"])
  BY DEF SendCancel
<1>3. id \in Orders /\ [id |-> id, type |-> "cancel"] \in Messages
  BY <1>1 DEF OthersOK, Messages
<1>4. inbox' \in [Bots -> Seq(Messages)]
  <2>1. BotOf[id] \in Bots
    BY <1>3, BotIn
  <2>2. TypeOK
    BY DEF IInv
  <2> DEFINE msg == [id |-> id, type |-> "cancel"]
  <2> HIDE DEF msg
  <2>3. msg \in Messages /\ Send(BotOf[id], msg)
    BY <1>2, <1>3 DEF msg
  <2> QED BY <2>1, <2>2, <2>3, SendType
<1>5. cancels' \in 0..MaxCancels
  BY <1>1, JudgingAssumption DEF OthersOK, SendCancel
<1>6. OthersOK'
  BY <1>1, <1>2, <1>4, <1>5 DEF OthersOK, SendCancel, judgeVars, faultVars, lateVars
<1>7. shard' = shard
  BY DEF SendCancel, judgeVars
<1> QED BY <1>1, <1>6, <1>7, IInvPartsPrime

\* HandleMessage,
LEMMA HandleMessageInv == ASSUME IInv, NEW bot \in Bots, HandleMessage(bot) PROVE IInv'
<1>1. OthersOK /\ ShardInv(shard)
  BY IInvParts
<1> DEFINE msg == Head(inbox[bot])
           r == IF msg.type = "cancel" THEN Engine!HandleCancel(book, msg.id)
                ELSE Engine!HandleOrder(book, msg)
<1>2. inbox[bot] \in Seq(Messages) /\ inbox[bot] # <<>> /\ book \in BookSet
  BY <1>1 DEF OthersOK, HandleMessage
<1>3. msg \in Messages /\ Tail(inbox[bot]) \in Seq(Messages)
  BY <1>2, HeadTail
<1>4. /\ book' = r.book
      /\ \/ reports' = reports \o r.reports /\ withheld' = withheld
         \/ /\ r.reports # <<>> /\ reports' = reports \o Tail(r.reports)
            /\ withheld' = withheld \cup {msg.id}
  BY DEF HandleMessage
<1> HIDE DEF msg
<1>5. r.book \in BookSet /\ r.reports \in Seq(ReportSet)
  <2>1. CASE msg.type = "cancel"
    <3>1. msg.id \in Orders
      BY <1>3 DEF Messages, OrderSet
    <3>2. r = Engine!HandleCancel(book, msg.id)
      BY <2>1
    <3> HIDE DEF r
    <3> QED BY <1>2, <3>1, <3>2, CancelFacts
  <2>2. CASE msg.type # "cancel"
    <3>1. msg \in OrderSet
      BY <1>3, <2>2 DEF Messages
    <3>2. r = Engine!HandleOrder(book, msg)
      BY <2>2
    <3> HIDE DEF r
    <3> QED BY <1>2, <3>1, <3>2, HandleFacts
  <2> QED BY <2>1, <2>2
<1> HIDE DEF r
<1>6. reports' \in Seq(ReportSet)
  <2>1. reports \in Seq(ReportSet)
    BY <1>1 DEF OthersOK
  <2>2. PICK more \in Seq(ReportSet) : reports' = reports \o more
    <3>1. r.reports # <<>> => Tail(r.reports) \in Seq(ReportSet)
      BY <1>5, HeadTail
    <3> QED BY <1>4, <1>5, <3>1
  <2> QED BY <2>1, <2>2, ToSetConcat
<1>7. inbox' \in [Bots -> Seq(Messages)]
  <2>1. inbox \in [Bots -> Seq(Messages)] /\ inbox' = [inbox EXCEPT ![bot] = Tail(@)]
    BY <1>1 DEF OthersOK, HandleMessage
  <2> QED BY <1>3, <2>1
<1>10. withheld' \subseteq Orders
  <2>1. msg.id \in Orders
    BY <1>3 DEF Messages, OrderSet
  <2> QED BY <1>1, <1>4, <2>1 DEF OthersOK
<1>11. UNCHANGED <<botVars, judgeVars, faultVars, lateVars>>
  BY DEF HandleMessage
<1>8. OthersOK'
  BY <1>1, <1>4, <1>5, <1>6, <1>7, <1>10, <1>11
     DEF OthersOK, botVars, judgeVars, faultVars, lateVars
<1>9. shard' = shard
  BY DEF HandleMessage, judgeVars
<1> QED BY <1>1, <1>8, <1>9, IInvPartsPrime

\* Acknowledged keeps the validator's invariant.
LEMMA AckedInv ==
    ASSUME ShardInv(shard), NEW id \in Orders PROVE ShardInv(Acknowledged(id))
<1>1. ShardInv(ProcessAck(shard, id, "accepted"))
  BY AckInv
<1> QED BY <1>1 DEF Acknowledged

\* What every consumer does with the next report.
LEMMA NextReport ==
    ASSUME IInv, reports # <<>>
    PROVE  LET r == Head(reports)
           IN  /\ r \in ReportSet /\ r.order \in Orders /\ Tail(reports) \in Seq(ReportSet)
               /\ ShardInv(ProcessAck(shard, r.order, r.status))
               /\ r.status = "filled" =>
                    /\ ShardInv(ProcessFill(shard, r.order, Fill(r)))
                    /\ ShardInv(ProcessFill(Acknowledged(r.order), r.order, Fill(r)))
<1> DEFINE r == Head(reports)
<1>1. ShardInv(shard) /\ reports \in Seq(ReportSet)
  BY IInvParts DEF OthersOK
<1>2. r \in ReportSet /\ Tail(reports) \in Seq(ReportSet)
  BY <1>1, HeadTail
<1> HIDE DEF r
<1>3. r.order \in Orders /\ (r.status = "filled" => Fill(r) \in FillSet)
  BY <1>2, FillReportFacts
<1>4. ShardInv(Acknowledged(r.order))
  BY <1>1, <1>3, AckedInv
<1>5. ShardInv(ProcessAck(shard, r.order, r.status))
  BY <1>1, <1>3, AckInv
<1>6. r.status = "filled" => ShardInv(ProcessFill(shard, r.order, Fill(r)))
  BY <1>1, <1>3, FillInv
<1>7. r.status = "filled" => ShardInv(ProcessFill(Acknowledged(r.order), r.order, Fill(r)))
  BY <1>3, <1>4, FillInv
<1> QED BY <1>2, <1>3, <1>5, <1>6, <1>7 DEF r

\* processEvent,
LEMMA ProcessEventInv == ASSUME IInv, processEvent PROVE IInv'
<1> DEFINE r == Head(reports)
<1>1. OthersOK
  BY IInvParts
<1>2. /\ r.order \in Orders /\ Tail(reports) \in Seq(ReportSet)
      /\ ShardInv(ProcessAck(shard, r.order, r.status))
      /\ r.status = "filled" =>
           /\ ShardInv(ProcessFill(shard, r.order, Fill(r)))
           /\ ShardInv(ProcessFill(Acknowledged(r.order), r.order, Fill(r)))
  BY NextReport DEF processEvent
<1>3. /\ accepted' \in {accepted, accepted \cup {r.order}}
      /\ \/ shard' = ProcessAck(shard, r.order, r.status)
         \/ /\ r.status = "filled"
            /\ \/ shard' = ProcessFill(shard, r.order, Fill(r))
               \/ shard' = ProcessFill(Acknowledged(r.order), r.order, Fill(r))
  BY DEF processEvent
<1>4. reports' = Tail(reports) /\ UNCHANGED <<botVars, inbox, book, faultVars, withheld, lateVars>>
  BY DEF processEvent
<1> HIDE DEF r
<1>5. ShardInv(shard')
  BY <1>2, <1>3
<1>6. OthersOK'
  BY <1>1, <1>2, <1>3, <1>4 DEF OthersOK, botVars, faultVars, lateVars
<1> QED BY <1>5, <1>6, IInvPartsPrime

\* ConsumeEvent,
LEMMA ConsumeEventInv == ASSUME IInv, ConsumeEvent PROVE IInv'
<1> DEFINE r == Head(reports)
<1>1. OthersOK
  BY IInvParts
<1>2. /\ Tail(reports) \in Seq(ReportSet)
      /\ ShardInv(ProcessAck(shard, r.order, r.status))
      /\ r.status = "filled" => ShardInv(ProcessFill(shard, r.order, Fill(r)))
  BY NextReport DEF ConsumeEvent
<1>3. shard' = IF r.status = "filled" THEN ProcessFill(shard, r.order, Fill(r))
               ELSE ProcessAck(shard, r.order, r.status)
  BY DEF ConsumeEvent
<1>4. /\ reports' = Tail(reports)
      /\ UNCHANGED <<botVars, inbox, book, accepted, faultVars, withheld, late, flushed>>
  BY DEF ConsumeEvent
<1>7. overtaken' \in BOOLEAN
  BY DEF ConsumeEvent
<1> HIDE DEF r
<1>5. ShardInv(shard')
  BY <1>2, <1>3
<1>6. OthersOK'
  BY <1>1, <1>2, <1>4, <1>7 DEF OthersOK, botVars, faultVars
<1> QED BY <1>5, <1>6, IInvPartsPrime

\* A report that nextSeqID has passed is still a report.
LEMMA PassOverInv == ASSUME IInv, PassOver PROVE IInv'
<1>1. OthersOK /\ ShardInv(shard)
  BY IInvParts
<1>2. Head(reports) \in ReportSet /\ Tail(reports) \in Seq(ReportSet)
  BY <1>1, HeadTail DEF OthersOK, PassOver
<1>3. late' = Append(late, Head(reports)) /\ reports' = Tail(reports)
  BY DEF PassOver
<1>4. late' \in Seq(ReportSet) /\ reports' \in Seq(ReportSet)
  BY <1>1, <1>2, <1>3 DEF OthersOK
<1>5. UNCHANGED <<botVars, inbox, book, judgeVars, faultVars, withheld, flushed, overtaken>>
  BY DEF PassOver
<1>6. OthersOK' /\ shard' = shard
  BY <1>1, <1>4, <1>5 DEF OthersOK, botVars, judgeVars, faultVars
<1> QED BY <1>1, <1>6, IInvPartsPrime

\* The final flush hands over reports, and changes nothing else.
LEMMA FlushInv == ASSUME IInv, flushRemainingBuffer PROVE IInv'
<1>1. OthersOK /\ ShardInv(shard)
  BY IInvParts
<1>2. late' = <<>> /\ reports' = late \o reports /\ flushed' = TRUE
  BY DEF flushRemainingBuffer
<1>3. late' \in Seq(ReportSet) /\ reports' \in Seq(ReportSet)
  BY <1>1, <1>2, ToSetConcat DEF OthersOK
<1>4. UNCHANGED <<botVars, inbox, book, judgeVars, faultVars, withheld, overtaken>>
  BY DEF flushRemainingBuffer
<1>5. OthersOK' /\ shard' = shard
  BY <1>1, <1>2, <1>3, <1>4 DEF OthersOK, botVars, judgeVars, faultVars
<1> QED BY <1>1, <1>5, IInvPartsPrime

\* ConsumeOrderSent,
LEMMA ConsumeOrderSentInv == ASSUME IInv, ConsumeOrderSent PROVE IInv'
<1>1. OthersOK /\ ShardInv(shard)
  BY IInvParts
<1>2. PICK o \in unpublished :
        unpublished' = unpublished \ {o} /\ shard' = ProcessOrder(shard, o)
  BY DEF ConsumeOrderSent
<1>3. o \in OrderSet
  BY <1>1 DEF OthersOK
<1>4. ShardInv(shard')
  BY <1>1, <1>2, <1>3, OrderInv
<1>5. OthersOK'
  BY <1>1, <1>2 DEF OthersOK, ConsumeOrderSent, faultVars, lateVars
<1> QED BY <1>4, <1>5, IInvPartsPrime

\* A falsified fill is a report.
LEMMA FalsifiedFacts ==
    ASSUME NEW r \in ReportSet, r.status = "filled", NEW f \in Falsified(r)
    PROVE  f \in ReportSet
<1> DEFINE Fills == [order : Orders, status : {"filled"}, qty : Nat, price : Nat, with : Orders]
<1>1. r \in Fills
  BY FillReportFacts
<1>2. \A p \in Prices : p \in Nat
  BY PricesFacts
<1>3. f \in Fills
  <2>1. CASE f = [r EXCEPT !.qty = @ + 1]
    <3> DEFINE q == r.qty + 1
    <3>1. q \in Nat
      BY <1>1
    <3>2. f = [r EXCEPT !.qty = q]
      BY <2>1
    <3> HIDE DEF q
    <3> QED BY <1>1, <3>1, <3>2
  <2>2. ASSUME NEW p \in Prices, f = [r EXCEPT !.price = p] PROVE f \in Fills
    BY <1>1, <1>2, <2>2
  <2>3. ASSUME NEW o \in Orders, f = [r EXCEPT !.with = o] PROVE f \in Fills
    BY <1>1, <2>3
  <2> HIDE DEF Fills
  <2> QED BY <2>1, <2>2, <2>3 DEF Falsified
<1> QED BY <1>3 DEF ReportSet

\* and Misreport.
LEMMA MisreportInv == ASSUME IInv, Misreport PROVE IInv'
<1> DEFINE r == Head(reports)
<1>1. OthersOK /\ ShardInv(shard)
  BY IInvParts
<1>2. r \in ReportSet /\ Tail(reports) \in Seq(ReportSet) /\ reports \in Seq(ReportSet)
  BY <1>1, NextReport DEF Misreport, OthersOK
<1>3. \/ reports' = Tail(reports)
      \/ /\ r.status = "filled"
         /\ \/ reports' = <<r>> \o reports
            \/ \E f \in Falsified(r) : reports' = <<f>> \o Tail(reports)
  BY DEF Misreport
<1>4. misreported' = (misreported \/ r.status = "filled")
  BY DEF Misreport
<1> DEFINE rest == Tail(reports)
<1> HIDE DEF r
<1>5. reports' \in Seq(ReportSet)
  <2>1. ASSUME NEW f \in ReportSet, NEW s \in Seq(ReportSet) PROVE <<f>> \o s \in Seq(ReportSet)
    BY <2>1
  <2>2. CASE reports' = rest
    BY <1>2, <2>2
  <2>3. CASE reports' = <<r>> \o reports
    BY <1>2, <2>1, <2>3
  <2>4. ASSUME r.status = "filled", NEW f \in Falsified(r), reports' = <<f>> \o rest
        PROVE  reports' \in Seq(ReportSet)
    <3>1. f \in ReportSet
      BY <1>2, <2>4, FalsifiedFacts
    <3> HIDE DEF rest
    <3>2. rest \in Seq(ReportSet)
      BY <1>2 DEF rest
    <3> QED BY <2>1, <2>4, <3>1, <3>2
  <2> QED BY <1>3, <2>2, <2>3, <2>4
<1>6. faults' \in 0..MaxFaults
  BY <1>1, JudgingAssumption DEF OthersOK, Misreport
<1>7. misreported' \in BOOLEAN
  BY <1>4
<1>8. OthersOK'
  BY <1>1, <1>5, <1>6, <1>7 DEF OthersOK, Misreport, botVars, judgeVars, lateVars
<1>9. shard' = shard
  BY DEF Misreport, judgeVars
<1> QED BY <1>1, <1>8, <1>9, IInvPartsPrime

\* The inductive invariant holds in every reachable state.
THEOREM Inductive == Spec => []IInv
<1>1. Init => IInv
  BY InitInv
<1>2. IInv /\ [Next]_vars => IInv'
  <2> SUFFICES ASSUME IInv, [Next]_vars PROVE IInv'
    OBVIOUS
  <2>1. CASE SendOrder
    BY <2>1, SendOrderInv
  <2>2. CASE SendCancel
    BY <2>2, SendCancelInv
  <2>3. CASE \E b \in Bots : HandleMessage(b)
    BY <2>3, HandleMessageInv
  <2>4. CASE processEvent
    BY <2>4, ProcessEventInv
  <2>5. CASE Misreport
    BY <2>5, MisreportInv
  <2>6. CASE ConsumeOrderSent
    BY <2>6, ConsumeOrderSentInv
  <2>7. CASE ConsumeEvent
    BY <2>7, ConsumeEventInv
  <2>8. CASE PassOver
    BY <2>8, PassOverInv
  <2>9. CASE flushRemainingBuffer
    BY <2>9, FlushInv
  <2>10. CASE UNCHANGED vars
    <3>1. OthersOK /\ ShardInv(shard)
      BY IInvParts
    <3>2. OthersOK' /\ shard' = shard
      BY <2>10, <3>1 DEF OthersOK, vars, botVars, judgeVars, faultVars, lateVars
    <3> QED BY <3>1, <3>2, IInvPartsPrime
  <2> QED BY <2>1, <2>2, <2>3, <2>4, <2>5, <2>6, <2>7, <2>8, <2>9, <2>10
      DEF Next
<1> QED BY <1>1, <1>2, PTL DEF Spec

\* TypeOK: the validator and the engine never leave their types, whatever is
\* lost, repeated or falsified; in particular a partial fill leaves a positive
\* quantity in both books.
THEOREM TypeCorrect == Spec => []TypeOK
<1>1. IInv => TypeOK
  BY DEF IInv
<1> QED BY <1>1, Inductive, PTL

\* OnlySelfCrosses: matchLimitOrder lets an order rest only where it can trade
\* with no other bot's, and no later step, also after a lost acknowledgement,
\* makes two orders of different bots cross.
THEOREM NoForeignCross == Spec => []OnlySelfCrosses
<1>1. IInv => OnlySelfCrosses
  BY DEF IInv
<1> QED BY <1>1, Inductive, PTL

-----------------------------------------------------------------------------
(* Induction on sequences.                                                 *)

\* A set of sequences that contains the empty one, and with every sequence the
\* ones with one more element, contains all.
LEMMA SeqsInduction ==
    ASSUME NEW A, NEW T, <<>> \in T,
           \A s \in Seq(A), x \in A : s \in T => Append(s, x) \in T
    PROVE  \A s \in Seq(A) : s \in T
<1> DEFINE N == {n \in Nat : \A s \in Seq(A) : Len(s) = n => s \in T}
<1>1. 0 \in N
  <2>1. \A s \in Seq(A) : Len(s) = 0 => s = <<>>
    BY EmptySeq
  <2> QED BY <2>1
<1>2. ASSUME NEW n \in Nat, n \in N PROVE n + 1 \in N
  <2> SUFFICES ASSUME NEW s \in Seq(A), Len(s) = n + 1 PROVE s \in T
    OBVIOUS
  <2> DEFINE t == [i \in 1..n |-> s[i]]
             x == s[n + 1]
  <2>1. x \in A /\ \A i \in 1..n : s[i] \in A
    OBVIOUS
  <2>2. t \in Seq(A) /\ Len(t) = n
    BY <2>1, IsASeq
  <2>3. Append(t, x) = s
    <3>1. Append(t, x) \in Seq(A) /\ Len(Append(t, x)) = n + 1
      BY <2>1, <2>2
    <3>2. \A i \in 1..(n + 1) : Append(t, x)[i] = s[i]
      BY <2>2
    <3> HIDE DEF t, x
    <3> QED BY <3>1, <3>2, SeqEqual
  <2> HIDE DEF t, x
  <2>4. t \in T
    BY <1>2, <2>2
  <2> QED BY <2>1, <2>2, <2>3, <2>4
<1>3. \A n \in Nat : n \in N
  <2> HIDE DEF N
  <2> QED BY <1>1, <1>2, NatsInduction
<1>4. \A s \in Seq(A) : Len(s) \in Nat
  OBVIOUS
<1> QED BY <1>3, <1>4

\* Concatenation, as the proofs use it: associative, and Append is one.
LEMMA CatEmpty ==
    ASSUME NEW A, NEW s \in Seq(A) PROVE <<>> \o s = s /\ s \o <<>> = s
  BY ConcatEmptySeq

\* Concatenation stays in Seq(A).
LEMMA CatType ==
    ASSUME NEW A, NEW s \in Seq(A), NEW t \in Seq(A) PROVE s \o t \in Seq(A)
  OBVIOUS

\* So does a sequence of one.
LEMMA OneType == ASSUME NEW A, NEW x \in A PROVE <<x>> \in Seq(A)
  OBVIOUS

\* Concatenation is associative.
LEMMA CatAssoc ==
    ASSUME NEW A, NEW s \in Seq(A), NEW t \in Seq(A), NEW u \in Seq(A)
    PROVE  (s \o t) \o u = s \o (t \o u)
  BY ConcatAssociative

\* Append is a concatenation.
LEMMA AppendIsCat ==
    ASSUME NEW A, NEW s \in Seq(A), NEW x \in A PROVE Append(s, x) = s \o <<x>>
  BY AppendIsConcat

\* Append, then concatenate.
LEMMA AppendThenCat ==
    ASSUME NEW A, NEW s \in Seq(A), NEW x \in A, NEW t \in Seq(A)
    PROVE  Append(s, x) \o t = s \o (<<x>> \o t)
<1> DEFINE y == <<x>>
<1>1. y \in Seq(A) /\ Append(s, x) = s \o y
  BY AppendIsConcat
<1> HIDE DEF y
<1>2. (s \o y) \o t = s \o (y \o t)
  BY <1>1, ConcatAssociative
<1> QED BY <1>1, <1>2 DEF y

\* Concatenate, then append.
LEMMA CatThenAppend ==
    ASSUME NEW A, NEW s \in Seq(A), NEW t \in Seq(A), NEW x \in A
    PROVE  s \o Append(t, x) = Append(s \o t, x)
<1> DEFINE y == <<x>>
           u == s \o t
<1>1. y \in Seq(A) /\ u \in Seq(A)
  OBVIOUS
<1>2. Append(t, x) = t \o y /\ Append(u, x) = u \o y
  <2> HIDE DEF u
  <2> QED BY <1>1, AppendIsConcat
<1> HIDE DEF y
<1>3. (s \o t) \o y = s \o (t \o y)
  BY <1>1, ConcatAssociative
<1> QED BY <1>2, <1>3

SameSteps(n, A, b, c) == \A i \in 1..n : \A a \in A : b[i][a] = c[i][a]

\* Two courses that take the same steps from the same value agree.
LEMMA CoursesAgree ==
    ASSUME NEW n \in Nat, NEW m \in Nat, n <= m, NEW A, NEW g \in [0..n -> A], NEW h,
           NEW base, NEW b, NEW c, IsCourse(g, n, base, b), IsCourse(h, m, base, c),
           SameSteps(n, A, b, c)
    PROVE  g[n] = h[n]
<1> DEFINE T == {i \in 0..n : g[i] = h[i]}
<1>1. 0 \in T
  BY DEF IsCourse
<1>2. ASSUME NEW i \in 1..n, i - 1 \in T PROVE i \in T
  <2>1. i \in 1..m /\ i \in 0..n /\ i - 1 \in 0..n
    OBVIOUS
  <2>2. g[i] = b[i][g[i - 1]] /\ h[i] = c[i][h[i - 1]]
    BY <2>1 DEF IsCourse
  <2>3. g[i - 1] \in A /\ g[i - 1] = h[i - 1]
    BY <1>2, <2>1
  <2>4. b[i][g[i - 1]] = c[i][g[i - 1]]
    BY <2>3 DEF SameSteps
  <2> QED BY <2>1, <2>2, <2>3, <2>4
<1>3. \A i \in 0..n : i \in T
  <2> HIDE DEF T
  <2> QED BY <1>1, <1>2, RangeInduction
<1> QED BY <1>3

\* Only of nothing.
LEMMA OnlyEmpty == ASSUME NEW kept PROVE Only(<<>>, kept) = <<>>
<1> DEFINE e == <<>>
           A == {}
<1>1. e \in Seq(A) /\ Len(e) = 0
  OBVIOUS
<1> HIDE DEF e, A
<1>2. PICK g \in [0..Len(e) -> Seq(A)] :
         Only(e, kept) = g[Len(e)] /\ IsCourse(g, Len(e), <<>>, OnlyBody(A, e, kept))
  BY <1>1, OnlyCourse
<1>3. Only(e, kept) = <<>>
  BY <1>1, <1>2 DEF IsCourse
<1> QED BY <1>3 DEF e

\* Only, with one more element.
LEMMA OnlyAppend ==
    ASSUME NEW A, NEW s \in Seq(A), NEW x \in A, NEW kept
    PROVE  Only(Append(s, x), kept) =
             IF x \in kept THEN Append(Only(s, kept), x) ELSE Only(s, kept)
<1> DEFINE n == Len(s)
           m == n + 1
           t == Append(s, x)
           empty == <<>>
           B == Seq(A)
           b == OnlyBody(A, s, kept)
           c == OnlyBody(A, t, kept)
<1>2. /\ n \in Nat /\ m \in Nat /\ n <= m /\ t \in Seq(A) /\ Len(t) = m /\ t[m] = x
      /\ \A i \in 1..n : t[i] = s[i]
  OBVIOUS
<1>3. SameSteps(n, B, b, c)
  BY <1>2 DEF OnlyBody, SameSteps
<1>4. \A a \in B : c[m][a] = IF x \in kept THEN Append(a, x) ELSE a
  BY <1>2 DEF OnlyBody
<1> HIDE DEF t, b, c
<1>5. PICK g \in [0..n -> Seq(A)] : Only(s, kept) = g[n] /\ IsCourse(g, n, <<>>, b)
  BY OnlyCourse DEF b
<1>6. PICK h \in [0..m -> Seq(A)] : Only(t, kept) = h[m] /\ IsCourse(h, m, <<>>, c)
  BY <1>2, OnlyCourse DEF c
<1>7. g[n] = h[n]
  <2>2. IsCourse(g, n, empty, b) /\ IsCourse(h, m, empty, c) /\ g \in [0..n -> B]
    BY <1>5, <1>6
  <2> HIDE DEF n, empty, m, B
  <2> QED BY <1>2, <1>3, <2>2, CoursesAgree, ZenonT(60)
<1>8. h[m] = c[m][h[n]] /\ h[n] \in B
  <2>1. m \in 1..m /\ n \in 0..m /\ m - 1 = n
    BY <1>2
  <2> QED BY <1>6, <2>1 DEF IsCourse
<1> QED BY <1>4, <1>5, <1>6, <1>7, <1>8 DEF t

\* Only, on two sequences one after the other.
LEMMA OnlyConcat ==
    ASSUME NEW A, NEW s \in Seq(A), NEW t \in Seq(A), NEW kept
    PROVE  Only(s \o t, kept) = Only(s, kept) \o Only(t, kept)
<1> DEFINE T == {u \in Seq(A) : Only(s \o u, kept) = Only(s, kept) \o Only(u, kept)}
<1>0. \A u \in Seq(A) : Only(u, kept) \in Seq(A)
  BY OnlyFacts
<1>1. <<>> \in T
  <2> DEFINE a == Only(s, kept)
             e == <<>>
  <2>1. s \o e = s /\ e \in Seq(A)
    BY CatEmpty
  <2>2. a \in Seq(A) /\ Only(e, kept) = e
    BY <1>0, OnlyEmpty
  <2> HIDE DEF a
  <2>3. a \o e = a
    BY <2>2, CatEmpty
  <2> HIDE DEF e
  <2>4. Only(s \o e, kept) = a \o Only(e, kept)
    BY <2>1, <2>2, <2>3 DEF a
  <2>5. e \in T
    BY <2>1, <2>4 DEF a
  <2> QED BY <2>5 DEF e
<1>2. ASSUME NEW u \in Seq(A), NEW x \in A, u \in T PROVE Append(u, x) \in T
  <2> DEFINE a == Only(s, kept)
             c == Only(u, kept)
             su == s \o u
             ac == a \o c
             ux == Append(u, x)
  <2>1. s \o ux = Append(su, x)
    BY CatThenAppend
  <2>2. su \in Seq(A) /\ ux \in Seq(A) /\ a \in Seq(A) /\ c \in Seq(A)
    BY <1>0
  <2>3. Only(su, kept) = ac
    BY <1>2
  <2>4. Only(ux, kept) = IF x \in kept THEN Append(c, x) ELSE c
    BY OnlyAppend
  <2> HIDE DEF su
  <2>5. Only(Append(su, x), kept) = IF x \in kept THEN Append(Only(su, kept), x) ELSE Only(su, kept)
    BY <2>2, OnlyAppend
  <2> HIDE DEF a, c
  <2>6. a \o Append(c, x) = Append(ac, x)
    BY <2>2, CatThenAppend
  <2> HIDE DEF ux
  <2>7. Only(s \o ux, kept) = a \o Only(ux, kept)
    <3>1. CASE x \in kept
      <4>1. Only(s \o ux, kept) = Append(ac, x) /\ Only(ux, kept) = Append(c, x)
        BY <2>1, <2>3, <2>4, <2>5, <3>1
      <4> QED BY <2>6, <4>1
    <3>2. CASE x \notin kept
      BY <2>1, <2>3, <2>4, <2>5, <3>2
    <3> QED BY <3>1, <3>2
  <2>8. ux \in T
    BY <2>2, <2>7 DEF a
  <2> QED BY <2>8 DEF ux
<1>3. \A u \in Seq(A) : u \in T
  <2> HIDE DEF T
  <2> QED BY <1>1, <1>2, SeqsInduction
<1> QED BY <1>3

\* Only, on a sequence of which it keeps all, or nothing.
LEMMA OnlyAll ==
    ASSUME NEW A, NEW s \in Seq(A), NEW kept
    PROVE  /\ ToSet(s) \subseteq kept => Only(s, kept) = s
           /\ ToSet(s) \cap kept = {} => Only(s, kept) = <<>>
<1> DEFINE T == {u \in Seq(A) : /\ ToSet(u) \subseteq kept => Only(u, kept) = u
                                /\ ToSet(u) \cap kept = {} => Only(u, kept) = <<>>}
<1>1. <<>> \in T
  BY OnlyEmpty
<1>2. ASSUME NEW u \in Seq(A), NEW x \in A, u \in T PROVE Append(u, x) \in T
  <2>1. Append(u, x) \in Seq(A) /\ ToSet(Append(u, x)) = ToSet(u) \cup {x}
    BY ToSetAppend
  <2>2. Only(Append(u, x), kept) = IF x \in kept THEN Append(Only(u, kept), x) ELSE Only(u, kept)
    BY OnlyAppend
  <2> QED BY <1>2, <2>1, <2>2
<1>3. \A u \in Seq(A) : u \in T
  <2> HIDE DEF T
  <2> QED BY <1>1, <1>2, SeqsInduction
<1> QED BY <1>3

-----------------------------------------------------------------------------
(* The two loops, one order after the other.                               *)

\* The validator's loop with one maker more.
LEMMA MatchSeqEmpty ==
    ASSUME NEW v \in Shards, NEW o \in OrderSet PROVE MatchSeq(v, o, <<>>) = [v |-> v, left |-> o.qty]
<1> DEFINE e == <<>>
           first == [v |-> v, left |-> o.qty]
<1>1. e \in Seq(OrderSet) /\ Len(e) = 0
  OBVIOUS
<1> HIDE DEF e
<1>2. PICK g \in [0..Len(e) -> Accs] :
         MatchSeq(v, o, e) = g[Len(e)] /\ IsCourse(g, Len(e), first, MatchBody(o, e))
  BY <1>1, MatchCourse
<1>3. MatchSeq(v, o, e) = first
  <2> HIDE DEF first
  <2> QED BY <1>1, <1>2 DEF IsCourse
<1> QED BY <1>3 DEF e

\* One more maker is one more step of the validator's loop.
LEMMA MatchSeqAppend ==
    ASSUME NEW v \in Shards, NEW o \in OrderSet, NEW s \in Seq(OrderSet), NEW r \in OrderSet
    PROVE  /\ MatchSeq(v, o, s) \in Accs
           /\ MatchSeq(v, o, Append(s, r)) = MatchStep(o, MatchSeq(v, o, s), r)
<1> DEFINE n == Len(s)
           m == n + 1
           t == Append(s, r)
           first == [v |-> v, left |-> o.qty]
           b == MatchBody(o, s)
           c == MatchBody(o, t)
<1>1. /\ n \in Nat /\ m \in Nat /\ n <= m /\ t \in Seq(OrderSet) /\ Len(t) = m /\ t[m] = r
      /\ \A i \in 1..n : t[i] = s[i]
  OBVIOUS
<1>2. SameSteps(n, Accs, b, c)
  BY <1>1 DEF MatchBody, SameSteps
<1>3. \A a \in Accs : c[m][a] = MatchStep(o, a, r)
  BY <1>1 DEF MatchBody
<1> HIDE DEF t, b, c
<1>4. PICK g \in [0..n -> Accs] : MatchSeq(v, o, s) = g[n] /\ IsCourse(g, n, first, b)
  BY MatchCourse DEF b
<1>5. PICK h \in [0..m -> Accs] : MatchSeq(v, o, t) = h[m] /\ IsCourse(h, m, first, c)
  BY <1>1, MatchCourse DEF c
<1>6. g[n] = h[n]
  <2> HIDE DEF n, m, first
  <2> QED BY <1>1, <1>2, <1>4, <1>5, CoursesAgree
<1>7. h[m] = c[m][h[n]] /\ h[n] \in Accs
  <2>1. m \in 1..m /\ n \in 0..m /\ m - 1 = n
    BY <1>1
  <2> HIDE DEF n, m, first
  <2> QED BY <1>5, <2>1 DEF IsCourse
<1> HIDE DEF n, m, first
<1> QED BY <1>3, <1>4, <1>5, <1>6, <1>7 DEF t

\* The engine's loop with one resting order more.
LEMMA EngineSeqEmpty ==
    ASSUME NEW o \in OrderSet PROVE EngineSeq(o, <<>>) = EngineBase(o)
<1> DEFINE e == <<>>
           first == EngineBase(o)
<1>1. e \in Seq(OrderSet) /\ Len(e) = 0
  OBVIOUS
<1> HIDE DEF e
<1>2. PICK g \in [0..Len(e) -> EngineAccs] :
         EngineSeq(o, e) = g[Len(e)] /\ IsCourse(g, Len(e), first, EngineBody(o, e))
  BY <1>1, EngineCourse
<1>3. EngineSeq(o, e) = first
  <2> HIDE DEF first
  <2> QED BY <1>1, <1>2 DEF IsCourse
<1> QED BY <1>3 DEF e

\* One more resting order is one more step of the engine's loop.
LEMMA EngineSeqAppend ==
    ASSUME NEW o \in OrderSet, NEW s \in Seq(OrderSet), NEW r \in OrderSet
    PROVE  /\ EngineSeq(o, s) \in EngineAccs
           /\ EngineSeq(o, Append(s, r)) = Engine!MatchNext(o, EngineSeq(o, s), r)
<1> DEFINE n == Len(s)
           m == n + 1
           t == Append(s, r)
           first == EngineBase(o)
           b == EngineBody(o, s)
           c == EngineBody(o, t)
<1>1. /\ n \in Nat /\ m \in Nat /\ n <= m /\ t \in Seq(OrderSet) /\ Len(t) = m /\ t[m] = r
      /\ \A i \in 1..n : t[i] = s[i]
  OBVIOUS
<1>2. SameSteps(n, EngineAccs, b, c)
  BY <1>1 DEF EngineBody, SameSteps
<1>3. \A a \in EngineAccs : c[m][a] = Engine!MatchNext(o, a, r)
  BY <1>1 DEF EngineBody
<1> HIDE DEF t, b, c
<1>4. PICK g \in [0..n -> EngineAccs] : EngineSeq(o, s) = g[n] /\ IsCourse(g, n, first, b)
  BY EngineCourse DEF b
<1>5. PICK h \in [0..m -> EngineAccs] : EngineSeq(o, t) = h[m] /\ IsCourse(h, m, first, c)
  BY <1>1, EngineCourse DEF c
<1>6. g[n] = h[n]
  <2> HIDE DEF n, m, first
  <2> QED BY <1>1, <1>2, <1>4, <1>5, CoursesAgree
<1>7. h[m] = c[m][h[n]] /\ h[n] \in EngineAccs
  <2>1. m \in 1..m /\ n \in 0..m /\ m - 1 = n
    BY <1>1
  <2> HIDE DEF n, m, first
  <2> QED BY <1>5, <2>1 DEF IsCourse
<1> HIDE DEF n, m, first
<1> QED BY <1>3, <1>4, <1>5, <1>6, <1>7 DEF t

-----------------------------------------------------------------------------
(* The line of a side: its levels in priority order.                       *)

Levels == [Prices -> Seq(OrderSet)]

\* One side of a book in one sequence.
Line(levels, side) == InPriority(levels, side, Prices)

\* F goes through a sequence element by element.
IsHom(F) ==
    /\ F \in [Seq(OrderSet) -> Seq(OrderSet)] /\ F[<<>>] = <<>>
    /\ \A s, t \in Seq(OrderSet) : F[s \o t] = F[s] \o F[t]

\* The line of a side, best level first.
LEMMA LineSteps ==
    ASSUME NEW levels \in Levels, NEW side
    PROVE  \E f : IsQueue(f, levels, side, OrderSet, Prices) /\ Line(levels, side) = f[Prices]
<1> DEFINE ps == Prices
<1>1. ps \in SUBSET Prices /\ levels \in [Prices -> Seq(OrderSet)]
  BY DEF Levels
<1> HIDE DEF ps
<1>2. \E f : IsQueue(f, levels, side, OrderSet, ps) /\ InPriority(levels, side, ps) = f[ps]
  BY <1>1, PrioritySteps
<1> QED BY <1>2 DEF Line, ps

\* What commutes with concatenation may be applied level by level or to the line.
LEMMA HomLine ==
    ASSUME NEW F, IsHom(F), NEW levels \in Levels, NEW side, NEW image \in Levels,
           \A p \in Prices : image[p] = F[levels[p]]
    PROVE  Line(image, side) = F[Line(levels, side)]
<1>0. Prices \in SUBSET Prices /\ levels \in [Prices -> Seq(OrderSet)]
      /\ image \in [Prices -> Seq(OrderSet)]
  BY DEF Levels
<1>1. PICK f : IsQueue(f, levels, side, OrderSet, Prices) /\ Line(levels, side) = f[Prices]
  BY LineSteps
<1>2. PICK g : IsQueue(g, image, side, OrderSet, Prices) /\ Line(image, side) = g[Prices]
  BY LineSteps
<1> DEFINE T == {s \in SUBSET Prices : g[s] = F[f[s]]}
<1>3. {} \in T
  BY <1>1, <1>2 DEF IsQueue, IsHom
<1>4. ASSUME NEW s \in SUBSET Prices, s # {}
      PROVE  \E p \in s : s \ {p} \in T => s \in T
  <2> DEFINE b == Best(side, s)
             r == s \ {b}
  <2>1. b \in s /\ b \in Prices /\ r \in SUBSET Prices
    BY <1>4, BestIn
  <2>2. f[s] = levels[b] \o f[r] /\ f[r] \in Seq(OrderSet)
    BY <1>1, <1>4, <2>1 DEF IsQueue
  <2>3. g[s] = image[b] \o g[r]
    BY <1>2, <1>4, <2>1 DEF IsQueue
  <2> HIDE DEF b, r
  <2>4. levels[b] \in Seq(OrderSet) /\ image[b] = F[levels[b]]
    BY <1>0, <2>1
  <2>5. F[levels[b] \o f[r]] = F[levels[b]] \o F[f[r]]
    BY <2>2, <2>4 DEF IsHom
  <2>6. r \in T => s \in T
    BY <2>2, <2>3, <2>4, <2>5
  <2> QED BY <2>1, <2>6 DEF r
<1>5. \A s \in SUBSET Prices : s \in T
  <2>1. IsFiniteSet(Prices)
    BY PricesFacts
  <2> HIDE DEF T
  <2> QED BY <1>3, <1>4, <2>1, SubsetInduction
<1> QED BY <1>1, <1>2, <1>5

\* Only commutes with concatenation,
LEMMA OnlyHom ==
    ASSUME NEW kept PROVE IsHom([s \in Seq(OrderSet) |-> Only(s, kept)])
<1> DEFINE F == [s \in Seq(OrderSet) |-> Only(s, kept)]
<1>1. \A s \in Seq(OrderSet) : Only(s, kept) \in Seq(OrderSet)
  BY OnlyFacts
<1>2. F \in [Seq(OrderSet) -> Seq(OrderSet)] /\ \A s \in Seq(OrderSet) : F[s] = Only(s, kept)
  BY <1>1
<1>3. <<>> \in Seq(OrderSet) /\ \A s, t \in Seq(OrderSet) : s \o t \in Seq(OrderSet)
  OBVIOUS
<1> HIDE DEF F
<1>4. F[<<>>] = <<>>
  BY <1>2, <1>3, OnlyEmpty
<1>5. ASSUME NEW s \in Seq(OrderSet), NEW t \in Seq(OrderSet)
      PROVE  F[s \o t] = F[s] \o F[t]
  <2>1. Only(s \o t, kept) = Only(s, kept) \o Only(t, kept)
    BY OnlyConcat
  <2>2. F[s \o t] = Only(s \o t, kept)
    BY <1>2, <1>3
  <2> QED BY <1>2, <2>1, <2>2
<1>6. IsHom(F)
  BY <1>2, <1>4, <1>5 DEF IsHom
<1> QED BY <1>6 DEF F

\* ReplaceAll, on two sequences,
LEMMA ReplaceConcat ==
    ASSUME NEW s \in Seq(OrderSet), NEW t \in Seq(OrderSet), NEW r, NEW x \in OrderSet
    PROVE  ReplaceAll(s \o t, r, x) = ReplaceAll(s, r, x) \o ReplaceAll(t, r, x)
<1> DEFINE a == ReplaceAll(s, r, x)
           b == ReplaceAll(t, r, x)
           st == s \o t
           c == ReplaceAll(st, r, x)
           ab == a \o b
<1>1. st \in Seq(OrderSet) /\ Len(st) = Len(s) + Len(t) /\ Len(s) \in Nat /\ Len(t) \in Nat
  OBVIOUS
<1>2. /\ \A i \in 1..Len(s) : st[i] = s[i]
      /\ \A i \in 1..Len(t) : st[Len(s) + i] = t[i]
  BY ConcatProperties
<1> HIDE DEF st
<1>3. a \in Seq(OrderSet) /\ b \in Seq(OrderSet) /\ c \in Seq(OrderSet)
  BY <1>1, ReplaceFacts
<1>4. /\ Len(a) = Len(s) /\ \A i \in 1..Len(s) : a[i] = IF s[i] = r THEN x ELSE s[i]
      /\ Len(b) = Len(t) /\ \A i \in 1..Len(t) : b[i] = IF t[i] = r THEN x ELSE t[i]
      /\ Len(c) = Len(st) /\ \A i \in 1..Len(st) : c[i] = IF st[i] = r THEN x ELSE st[i]
  BY <1>1 DEF ReplaceAll
<1> HIDE DEF a, b, c
<1>5. ab \in Seq(OrderSet) /\ Len(ab) = Len(a) + Len(b)
  BY <1>3
<1>6. /\ \A i \in 1..Len(a) : ab[i] = a[i]
      /\ \A i \in 1..Len(b) : ab[Len(a) + i] = b[i]
  BY <1>3, ConcatProperties
<1> HIDE DEF ab
<1>7. ASSUME NEW i \in 1..Len(c) PROVE c[i] = ab[i]
  <2>1. CASE i <= Len(s)
    <3>1. i \in 1..Len(s) /\ i \in 1..Len(st) /\ i \in 1..Len(a)
      BY <1>1, <1>4, <2>1
    <3> QED BY <1>2, <1>4, <1>6, <3>1
  <2>2. CASE i > Len(s)
    <3> DEFINE j == i - Len(s)
    <3>1. j \in 1..Len(t) /\ j \in 1..Len(b) /\ i = Len(s) + j /\ i \in 1..Len(st)
      BY <1>1, <1>4, <2>2
    <3> HIDE DEF j
    <3>2. st[i] = t[j]
      BY <1>2, <3>1
    <3>3. i = Len(a) + j
      BY <1>4, <3>1
    <3>4. ab[i] = b[j]
      BY <1>6, <3>1, <3>3
    <3> QED BY <1>4, <3>1, <3>2, <3>4
  <2> QED BY <1>1, <1>4, <2>1, <2>2
<1>8. c = ab
  <2>1. Len(c) = Len(ab)
    BY <1>1, <1>4, <1>5
  <2> QED BY <1>3, <1>5, <1>7, <2>1, SeqEqual
<1> QED BY <1>8 DEF a, b, st, c, ab

\* on one without r and on r alone:
LEMMA ReplaceSame ==
    ASSUME NEW s \in Seq(OrderSet), NEW r, NEW x \in OrderSet
    PROVE  /\ r \notin ToSet(s) => ReplaceAll(s, r, x) = s
           /\ ReplaceAll(<<r>>, r, x) = <<x>>
           /\ ReplaceAll(<<>>, r, x) = <<>>
<1>1. Len(s) \in Nat /\ DOMAIN s = 1..Len(s)
  BY SeqFacts
<1>2. ASSUME r \notin ToSet(s) PROVE ReplaceAll(s, r, x) = s
  <2> DEFINE a == ReplaceAll(s, r, x)
  <2>1. a \in Seq(OrderSet)
    BY ReplaceFacts
  <2>2. Len(a) = Len(s) /\ \A i \in 1..Len(s) : a[i] = IF s[i] = r THEN x ELSE s[i]
    BY DEF ReplaceAll
  <2>3. \A i \in 1..Len(s) : s[i] # r
    BY <1>1, <1>2 DEF ToSet
  <2> HIDE DEF a
  <2>4. a = s
    BY <2>1, <2>2, <2>3, SeqEqual
  <2> QED BY <2>4 DEF a
<1>3. ReplaceAll(<<r>>, r, x) = <<x>>
  BY DEF ReplaceAll
<1>4. ReplaceAll(<<>>, r, x) = <<>>
  BY DEF ReplaceAll
<1> QED BY <1>2, <1>3, <1>4

\* it commutes with concatenation too.
LEMMA ReplaceHom ==
    ASSUME NEW r, NEW x \in OrderSet PROVE IsHom([s \in Seq(OrderSet) |-> ReplaceAll(s, r, x)])
<1> DEFINE F == [s \in Seq(OrderSet) |-> ReplaceAll(s, r, x)]
<1>1. \A s \in Seq(OrderSet) : ReplaceAll(s, r, x) \in Seq(OrderSet)
  BY ReplaceFacts
<1>2. F \in [Seq(OrderSet) -> Seq(OrderSet)] /\ \A s \in Seq(OrderSet) : F[s] = ReplaceAll(s, r, x)
  BY <1>1
<1>3. <<>> \in Seq(OrderSet) /\ \A s, t \in Seq(OrderSet) : s \o t \in Seq(OrderSet)
  OBVIOUS
<1> HIDE DEF F
<1>4. F[<<>>] = <<>>
  <2>1. ReplaceAll(<<>>, r, x) = <<>>
    BY <1>3, ReplaceSame
  <2> QED BY <1>2, <1>3, <2>1
<1>5. ASSUME NEW s \in Seq(OrderSet), NEW t \in Seq(OrderSet)
      PROVE  F[s \o t] = F[s] \o F[t]
  <2>1. ReplaceAll(s \o t, r, x) = ReplaceAll(s, r, x) \o ReplaceAll(t, r, x)
    BY ReplaceConcat
  <2>2. F[s \o t] = ReplaceAll(s \o t, r, x)
    BY <1>2, <1>3
  <2> QED BY <1>2, <2>1, <2>2
<1>6. IsHom(F)
  BY <1>2, <1>4, <1>5 DEF IsHom
<1> QED BY <1>6 DEF F

\* p is a strictly better price than q on this side of the book.
Better(side, p, q) == IF side = "asks" THEN p < q ELSE p > q

\* The best price is better than the others.
LEMMA BestFirst ==
    ASSUME NEW side, NEW s \in SUBSET Prices, s # {}, NEW p \in s \ {Best(side, s)}
    PROVE  Better(side, Best(side, s), p)
<1>1. IsFiniteSet(s)
  BY PricesFacts, FS_Subset
<1>2. s \in SUBSET Int
  BY PricesFacts
<1>3. Max(s) \in s /\ Max(s) >= p /\ Min(s) \in s /\ Min(s) <= p
  BY <1>1, <1>2, MaxMinIn
<1>4. Max(s) \in Int /\ Min(s) \in Int /\ p \in Int
  BY <1>2, <1>3
<1> QED BY <1>3, <1>4 DEF Best, Better

\* The best of a set is the best of any part of it that has it.
LEMMA BestOfPart ==
    ASSUME NEW side, NEW s \in SUBSET Prices, NEW t \in SUBSET s, Best(side, s) \in t
    PROVE  Best(side, t) = Best(side, s)
<1> DEFINE a == Best(side, s)
           b == Best(side, t)
<1>1. s # {} /\ t # {} /\ t \in SUBSET Prices
  OBVIOUS
<1>2. b \in t
  BY <1>1, BestIn
<1>3. b # a => Better(side, b, a)
  BY <1>1, BestFirst
<1>4. b # a => Better(side, a, b)
  BY <1>1, <1>2, BestFirst
<1>5. a \in Nat /\ b \in Nat
  BY <1>1, <1>2, PricesFacts
<1> HIDE DEF a, b
<1>6. a = b
  BY <1>3, <1>4, <1>5 DEF Better
<1> QED BY <1>6 DEF a, b

\* Levels without orders do not matter.
LEMMA EmptyLevels ==
    ASSUME NEW levels \in Levels, NEW all \in Levels, NEW side, NEW R \in SUBSET Prices,
           \A p \in Prices : all[p] = IF p \in R THEN levels[p] ELSE <<>>
    PROVE  InPriority(levels, side, R) = Line(all, side)
<1>0. levels \in [Prices -> Seq(OrderSet)]
  BY DEF Levels
<1>1. PICK f : IsQueue(f, levels, side, OrderSet, R) /\ InPriority(levels, side, R) = f[R]
  BY <1>0, PrioritySteps
<1>2. PICK g : IsQueue(g, all, side, OrderSet, Prices) /\ Line(all, side) = g[Prices]
  BY LineSteps
<1> DEFINE T == {s \in SUBSET Prices : g[s] = f[s \cap R]}
<1>3. {} \in T
  <2>1. g[{}] = <<>> /\ f[{}] = <<>>
    BY <1>1, <1>2 DEF IsQueue
  <2>2. {} \cap R = {}
    OBVIOUS
  <2> QED BY <2>1, <2>2
<1>4. ASSUME NEW s \in SUBSET Prices, s # {}
      PROVE  \E p \in s : s \ {p} \in T => s \in T
  <2> DEFINE b == Best(side, s)
             r == s \ {b}
             t == s \cap R
  <2>1. b \in s /\ b \in Prices /\ r \in SUBSET Prices /\ t \in SUBSET R /\ t \in SUBSET s
    BY <1>4, BestIn
  <2>2. g[s] = all[b] \o g[r] /\ g[r] \in Seq(OrderSet)
    BY <1>2, <1>4, <2>1 DEF IsQueue
  <2>3. CASE b \in R
    <3>1. b \in t /\ r \cap R = t \ {b}
      BY <2>1, <2>3
    <3>2. Best(side, t) = b
      BY <2>1, <3>1, BestOfPart
    <3>3. f[t] = levels[b] \o f[t \ {b}]
      BY <1>1, <2>1, <3>1, <3>2 DEF IsQueue
    <3>4. all[b] = levels[b]
      BY <2>1, <2>3
    <3>5. r \in T => s \in T
      <4> HIDE DEF b
      <4> QED BY <2>1, <2>2, <3>1, <3>3, <3>4
    <3> QED BY <2>1, <3>5
  <2>4. CASE b \notin R
    <3>1. r \cap R = t
      BY <2>4
    <3>2. all[b] = <<>>
      BY <2>1, <2>4
    <3> DEFINE gr == g[r]
    <3>3. gr \in Seq(OrderSet) /\ g[s] = <<>> \o gr
      BY <2>2, <3>2
    <3> HIDE DEF gr
    <3>4. g[s] = gr
      BY <3>3, CatEmpty
    <3>5. r \in T => s \in T
      BY <2>1, <3>1, <3>4 DEF gr
    <3> QED BY <2>1, <3>5
  <2> QED BY <2>3, <2>4
<1>5. \A s \in SUBSET Prices : s \in T
  <2>1. IsFiniteSet(Prices)
    BY PricesFacts
  <2> HIDE DEF T
  <2> QED BY <1>3, <1>4, <2>1, SubsetInduction
<1>6. Prices \cap R = R
  OBVIOUS
<1> QED BY <1>1, <1>2, <1>5, <1>6

\* Only depends on the elements of the sequence alone.
LEMMA OnlySame ==
    ASSUME NEW A, NEW s \in Seq(A), NEW kept, NEW also,
           \A x \in ToSet(s) : x \in kept <=> x \in also
    PROVE  Only(s, kept) = Only(s, also)
<1> DEFINE Alike(u) == \A x \in ToSet(u) : x \in kept <=> x \in also
           T == {u \in Seq(A) : Alike(u) => Only(u, kept) = Only(u, also)}
<1>1. <<>> \in T
  <2>1. Only(<<>>, kept) = <<>> /\ Only(<<>>, also) = <<>>
    BY OnlyEmpty
  <2> QED BY <2>1
<1>2. ASSUME NEW u \in Seq(A), NEW x \in A, u \in T PROVE Append(u, x) \in T
  <2>1. Append(u, x) \in Seq(A) /\ ToSet(Append(u, x)) = ToSet(u) \cup {x}
    BY ToSetAppend
  <2>2. Only(Append(u, x), kept) = IF x \in kept THEN Append(Only(u, kept), x) ELSE Only(u, kept)
    BY OnlyAppend
  <2>3. Only(Append(u, x), also) = IF x \in also THEN Append(Only(u, also), x) ELSE Only(u, also)
    BY OnlyAppend
  <2>4. ASSUME Alike(Append(u, x)) PROVE Only(Append(u, x), kept) = Only(Append(u, x), also)
    <3>1. Alike(u) /\ (x \in kept <=> x \in also)
      BY <2>1, <2>4
    <3>2. Only(u, kept) = Only(u, also)
      BY <1>2, <3>1
    <3> QED BY <2>2, <2>3, <3>1, <3>2
  <2> HIDE DEF Alike
  <2> QED BY <2>1, <2>4
<1>3. \A u \in Seq(A) : u \in T
  <2> HIDE DEF T
  <2> QED BY <1>1, <1>2, SeqsInduction
<1> QED BY <1>3

LevelsPlaced(levels) == \A p \in Prices : \A x \in ToSet(levels[p]) : x.price = p

\* The resting orders with which the engine lets o trade.
Makable(o) == {r \in OrderSet : Engine!Tradable(o, r)}

\* The orders the validator's loops come to are those of the line with which
\* the engine lets the order trade, in the same order.
LEMMA MakersLine ==
    ASSUME NEW v \in Shards, NEW o \in OrderSet, LevelsPlaced(v[Opposite(o.side)])
    PROVE  Makers(v, o, o.type = "limit")
             = Only(Line(v[Opposite(o.side)], Opposite(o.side)), Makable(o))
<1> DEFINE side == Opposite(o.side)
           levels == v[side]
           R == Reached(o, o.type = "limit")
           some == [p \in Prices |-> Only(levels[p], Foreign(o))]
           all == [p \in Prices |-> Only(levels[p], Makable(o))]
           F == [s \in Seq(OrderSet) |-> Only(s, Makable(o))]
<1>1. levels \in [Prices -> Seq(OrderSet)]
  BY SideFacts, BookFacts
<1>2. levels \in Levels
  BY <1>1 DEF Levels
<1>3. R \in SUBSET Prices
  BY DEF Reached
<1>4. LevelsPlaced(levels)
  OBVIOUS
<1>5. Makers(v, o, o.type = "limit") = InPriority(some, side, R)
  BY DEF Makers
<1>6. o.side \in {"buy", "sell"} /\ o.type \in {"limit", "market"} /\ o.price \in Nat
      /\ o.id \in Orders
  <2>1. o.price \in Prices
    BY DEF OrderSet
  <2> QED BY <2>1, PricesFacts DEF OrderSet
<1>7. \A p \in Prices : p \in R <=> (o.type = "limit" => Crosses(o, p))
  BY DEF Reached
<1> HIDE DEF side, levels, R
<1>8. \A p \in Prices : /\ Only(levels[p], Foreign(o)) \in Seq(OrderSet)
                        /\ Only(levels[p], Makable(o)) \in Seq(OrderSet)
                        /\ levels[p] \in Seq(OrderSet)
  <2> TAKE p \in Prices
  <2>1. levels[p] \in Seq(OrderSet)
    BY <1>1
  <2> QED BY <2>1, OnlyFacts
<1>9. some \in Levels /\ all \in Levels
  BY <1>8 DEF Levels
<1>10. ASSUME NEW p \in Prices PROVE all[p] = IF p \in R THEN some[p] ELSE <<>>
  <2>1. levels[p] \in Seq(OrderSet)
    BY <1>8
  <2>2. \A x \in ToSet(levels[p]) : x \in OrderSet /\ x.price = p
    <3>1. \A x \in ToSet(levels[p]) : x \in OrderSet
      BY <2>1, SeqFacts DEF ToSet
    <3> QED BY <1>4, <3>1 DEF LevelsPlaced
  <2>3. \A x \in ToSet(levels[p]) : x \in Makable(o) <=> p \in R /\ x \in Foreign(o)
    <3> TAKE x \in ToSet(levels[p])
    <3>1. x \in OrderSet /\ x.price = p /\ p \in Nat
      BY <2>2, PricesFacts
    <3>2. x \in Foreign(o) <=> BotOf[x.id] # BotOf[o.id]
      BY <3>1 DEF Foreign, isSelfCross
    <3>3. p \in R <=> (o.type = "limit" => IF o.side = "buy" THEN x.price <= o.price
                                           ELSE x.price >= o.price)
      BY <1>6, <1>7, <3>1 DEF Crosses
    <3> QED BY <3>1, <3>2, <3>3 DEF Makable, Engine!Tradable
  <2>4. CASE p \in R
    <3>1. \A x \in ToSet(levels[p]) : x \in Makable(o) <=> x \in Foreign(o)
      BY <2>3, <2>4
    <3> DEFINE level == levels[p]
    <3>2. level \in Seq(OrderSet) /\ \A x \in ToSet(level) : x \in Makable(o) <=> x \in Foreign(o)
      BY <2>1, <3>1
    <3> HIDE DEF level
    <3>3. Only(level, Makable(o)) = Only(level, Foreign(o))
      BY <3>2, OnlySame
    <3> QED BY <2>4, <3>3 DEF level
  <2>5. CASE p \notin R
    <3>1. ToSet(levels[p]) \cap Makable(o) = {}
      BY <2>3, <2>5
    <3>2. Only(levels[p], Makable(o)) = <<>>
      BY <2>1, <3>1, OnlyAll
    <3> QED BY <2>5, <3>2
  <2> QED BY <2>4, <2>5
<1>11. InPriority(some, side, R) = Line(all, side)
  <2> HIDE DEF some, all
  <2> QED BY <1>3, <1>9, <1>10, EmptyLevels
<1>12. IsHom(F)
  <2> DEFINE K == Makable(o)
  <2> HIDE DEF K
  <2>1. IsHom([s \in Seq(OrderSet) |-> Only(s, K)])
    BY OnlyHom
  <2> QED BY <2>1 DEF K
<1>13. \A p \in Prices : all[p] = F[levels[p]]
  BY <1>8
<1>14. Line(levels, side) \in Seq(OrderSet)
  <2> DEFINE ps == Prices
  <2>1. ps \in SUBSET Prices
    OBVIOUS
  <2> HIDE DEF ps
  <2>2. InPriority(levels, side, ps) \in Seq(OrderSet)
    BY <1>1, <2>1, PriorityFacts
  <2> QED BY <2>2 DEF Line, ps
<1>15. F[Line(levels, side)] = Only(Line(levels, side), Makable(o))
  BY <1>14
<1>16. Line(all, side) = F[Line(levels, side)]
  <2> HIDE DEF F, all
  <2> QED BY <1>2, <1>9, <1>12, <1>13, HomLine
<1> QED BY <1>5, <1>11, <1>15, <1>16 DEF side, levels

-----------------------------------------------------------------------------
(* Ids.                                                                    *)

IdsOf(s) == {x.id : x \in ToSet(s)}

\* No two orders of s have the same id.
Distinct(s) == \A i, j \in DOMAIN s : s[i].id = s[j].id => i = j

\* The ids of two sequences.
LEMMA IdsConcat ==
    ASSUME NEW A, NEW s \in Seq(A), NEW t \in Seq(A)
    PROVE  IdsOf(s \o t) = IdsOf(s) \cup IdsOf(t)
<1>1. ToSet(s \o t) = ToSet(s) \cup ToSet(t)
  BY ToSetConcat
<1> QED BY <1>1 DEF IdsOf

\* One element.
LEMMA OneFacts ==
    ASSUME NEW x PROVE ToSet(<<x>>) = {x} /\ IdsOf(<<x>>) = {x.id} /\ Distinct(<<x>>)
<1>1. ToSet(<<x>>) = {x}
  BY DEF ToSet
<1>2. Distinct(<<x>>)
  BY DEF Distinct
<1> QED BY <1>1, <1>2 DEF IdsOf

\* No element.
LEMMA EmptyFacts == ToSet(<<>>) = {} /\ IdsOf(<<>>) = {} /\ Distinct(<<>>)
  BY DEF ToSet, IdsOf, Distinct

\* Two sequences with distinct ids and none in common.
LEMMA DistinctConcat ==
    ASSUME NEW A, NEW s \in Seq(A), NEW t \in Seq(A)
    PROVE  Distinct(s \o t) <=> Distinct(s) /\ Distinct(t) /\ IdsOf(s) \cap IdsOf(t) = {}
<1> DEFINE u == s \o t
           n == Len(s)
           m == Len(t)
<1>1. u \in Seq(A) /\ Len(u) = n + m /\ n \in Nat /\ m \in Nat
  OBVIOUS
<1>2. /\ \A i \in 1..n : u[i] = s[i]
      /\ \A i \in 1..m : u[n + i] = t[i]
  BY ConcatProperties
<1>3. DOMAIN u = 1..(n + m) /\ DOMAIN s = 1..n /\ DOMAIN t = 1..m
  BY <1>1, SeqFacts
<1> HIDE DEF u, n, m
<1>4. ASSUME Distinct(u) PROVE Distinct(s) /\ Distinct(t) /\ IdsOf(s) \cap IdsOf(t) = {}
  <2>1. Distinct(s)
    <3> SUFFICES ASSUME NEW i \in 1..n, NEW j \in 1..n, s[i].id = s[j].id PROVE i = j
      BY <1>3 DEF Distinct
    <3>1. i \in DOMAIN u /\ j \in DOMAIN u /\ u[i] = s[i] /\ u[j] = s[j]
      BY <1>1, <1>2, <1>3
    <3> QED BY <1>4, <3>1 DEF Distinct
  <2>2. Distinct(t)
    <3> SUFFICES ASSUME NEW i \in 1..m, NEW j \in 1..m, t[i].id = t[j].id PROVE i = j
      BY <1>3 DEF Distinct
    <3>1. n + i \in DOMAIN u /\ n + j \in DOMAIN u /\ u[n + i] = t[i] /\ u[n + j] = t[j]
      BY <1>1, <1>2, <1>3
    <3>2. n + i = n + j
      BY <1>4, <3>1 DEF Distinct
    <3> QED BY <1>1, <3>2
  <2>3. ASSUME NEW i \in 1..n, NEW j \in 1..m PROVE s[i].id # t[j].id
    <3>1. i \in DOMAIN u /\ n + j \in DOMAIN u /\ u[i] = s[i] /\ u[n + j] = t[j] /\ i # n + j
      BY <1>1, <1>2, <1>3
    <3> QED BY <1>4, <3>1 DEF Distinct
  <2>4. IdsOf(s) \cap IdsOf(t) = {}
    BY <1>3, <2>3 DEF IdsOf, ToSet
  <2> QED BY <2>1, <2>2, <2>4
<1>5. ASSUME Distinct(s), Distinct(t), IdsOf(s) \cap IdsOf(t) = {} PROVE Distinct(u)
  <2> SUFFICES ASSUME NEW i \in 1..(n + m), NEW j \in 1..(n + m), u[i].id = u[j].id PROVE i = j
    BY <1>3 DEF Distinct
  <2>1. \A k \in 1..n, l \in 1..m : s[k].id # t[l].id
    BY <1>3, <1>5 DEF IdsOf, ToSet
  <2>2. CASE i \in 1..n /\ j \in 1..n
    BY <1>2, <1>3, <1>5, <2>2 DEF Distinct
  <2>3. ASSUME NEW k \in 1..(n + m), k \notin 1..n
        PROVE  k - n \in 1..m /\ u[k] = t[k - n] /\ k \in Int
    <3> DEFINE l == k - n
    <3>1. l \in 1..m /\ k = n + l
      BY <1>1, <2>3
    <3> HIDE DEF l
    <3>2. u[k] = t[l]
      BY <1>2, <3>1
    <3> QED BY <3>1, <3>2 DEF l
  <2>4. CASE i \in 1..n /\ j \notin 1..n
    BY <1>2, <2>1, <2>3, <2>4
  <2>5. CASE i \notin 1..n /\ j \in 1..n
    BY <1>2, <2>1, <2>3, <2>5
  <2>6. CASE i \notin 1..n /\ j \notin 1..n
    <3>1. i - n = j - n
      BY <1>3, <1>5, <2>3, <2>6 DEF Distinct
    <3> QED BY <1>1, <2>3, <2>6, <3>1
  <2> QED BY <2>2, <2>4, <2>5, <2>6
<1> QED BY <1>4, <1>5 DEF u

\* Orders of a Distinct sequence with one id are one.
LEMMA DistinctIds ==
    ASSUME NEW s, Distinct(s), NEW x \in ToSet(s), NEW y \in ToSet(s), x.id = y.id
    PROVE  x = y
  BY DEF Distinct, ToSet

\* The line has the orders of the levels.
LEMMA LineFacts ==
    ASSUME NEW levels \in Levels, NEW side
    PROVE  /\ Line(levels, side) \in Seq(OrderSet)
           /\ \A x : x \in ToSet(Line(levels, side)) <=> \E p \in Prices : x \in ToSet(levels[p])
<1> DEFINE ps == Prices
<1>1. ps \in SUBSET Prices /\ levels \in [Prices -> Seq(OrderSet)]
  BY DEF Levels
<1> HIDE DEF ps
<1>2. /\ InPriority(levels, side, ps) \in Seq(OrderSet)
      /\ ToSet(InPriority(levels, side, ps)) = UNION {ToSet(levels[p]) : p \in ps}
  BY <1>1, PriorityFacts
<1> QED BY <1>2 DEF Line, ps

\* Without removes an order that is there once, and nothing else.
LEMMA WithoutOne ==
    ASSUME NEW s \in Seq(OrderSet), NEW r \in OrderSet, NEW t \in Seq(OrderSet),
           Distinct(s \o (<<r>> \o t))
    PROVE  /\ Without(s \o (<<r>> \o t), r.id) = s \o t
           /\ \A x \in OrderSet : ReplaceAll(s \o (<<r>> \o t), r, x) = s \o (<<x>> \o t)
<1> DEFINE one == <<r>>
           rt == one \o t
           kept == {x \in OrderSet : x.id # r.id}
<1>1. one \in Seq(OrderSet) /\ IdsOf(one) = {r.id}
  BY OneFacts
<1>2. rt \in Seq(OrderSet)
  BY <1>1
<1>3. Only(one, kept) = <<>>
  <2>1. ToSet(one) \cap kept = {}
    BY OneFacts
  <2> HIDE DEF kept, one
  <2> QED BY <1>1, <2>1, OnlyAll
<1>4. Distinct(s \o rt)
  OBVIOUS
<1>4a. Distinct(rt) <=> Distinct(one) /\ Distinct(t) /\ IdsOf(one) \cap IdsOf(t) = {}
  <2> HIDE DEF one
  <2> QED BY <1>1, DistinctConcat
<1>4b. IdsOf(rt) = IdsOf(one) \cup IdsOf(t)
  <2> HIDE DEF one
  <2> QED BY <1>1, IdsConcat
<1> HIDE DEF rt
<1>5. Distinct(s) /\ Distinct(rt) /\ IdsOf(s) \cap IdsOf(rt) = {}
  BY <1>2, <1>4, DistinctConcat
<1>6. r.id \notin IdsOf(s) /\ r.id \notin IdsOf(t)
  BY <1>1, <1>4a, <1>4b, <1>5
<1>7. ToSet(s) \subseteq OrderSet /\ ToSet(t) \subseteq OrderSet
  BY SeqFacts DEF ToSet
<1>8. ToSet(s) \subseteq kept /\ ToSet(t) \subseteq kept
  BY <1>6, <1>7 DEF IdsOf
<1>9. r \notin ToSet(s) /\ r \notin ToSet(t)
  BY <1>6 DEF IdsOf
<1> HIDE DEF kept, one
<1>10. Only(s, kept) = s /\ Only(t, kept) = t
  BY <1>8, OnlyAll
<1>11. Only(s \o rt, kept) = Only(s, kept) \o Only(rt, kept)
  BY <1>2, OnlyConcat
<1>12. Only(rt, kept) = Only(one, kept) \o Only(t, kept)
  BY <1>1, OnlyConcat DEF rt
<1>13. <<>> \o t = t
  BY CatEmpty
<1>14. Only(s \o rt, kept) = s \o t
  BY <1>3, <1>10, <1>11, <1>12, <1>13
<1>15. ASSUME NEW x \in OrderSet PROVE ReplaceAll(s \o rt, r, x) = s \o (<<x>> \o t)
  <2>1. ReplaceAll(s, r, x) = s /\ ReplaceAll(t, r, x) = t
    BY <1>9, ReplaceSame
  <2>2. ReplaceAll(one, r, x) = <<x>>
    BY ReplaceSame DEF one
  <2>3. ReplaceAll(s \o rt, r, x) = ReplaceAll(s, r, x) \o ReplaceAll(rt, r, x)
    BY <1>2, ReplaceConcat
  <2>4. ReplaceAll(rt, r, x) = ReplaceAll(one, r, x) \o ReplaceAll(t, r, x)
    BY <1>1, ReplaceConcat DEF rt
  <2> QED BY <2>1, <2>2, <2>3, <2>4
<1> QED BY <1>14, <1>15 DEF Without, kept, rt, one

-----------------------------------------------------------------------------
(* The two loops agree.                                                    *)

\* r is between s and t in the line, and only there.
InLine(levels, side, s, r, t) ==
    /\ LevelsPlaced(levels) /\ Line(levels, side) = s \o (<<r>> \o t)
    /\ Distinct(s \o (<<r>> \o t))

\* The line once qty of r was traded.
LineLeft(levels, side, s, r, qty, t) ==
    /\ LevelsPlaced(levels)
    /\ Line(levels, side) = IF qty = r.qty THEN s \o t
                            ELSE s \o (<<[r EXCEPT !.qty = @ - qty]>> \o t)

\* A trade, in the line: the resting order leaves it, or its rest takes its place.
LEMMA TradeLine ==
    ASSUME NEW v \in Shards, NEW o \in OrderSet, NEW r \in OrderSet, NEW qty \in 1..r.qty,
           NEW s \in Seq(OrderSet), NEW t \in Seq(OrderSet),
           InLine(v[Opposite(o.side)], Opposite(o.side), s, r, t)
    PROVE  LineLeft(TradeWith(v, o, r, qty)[Opposite(o.side)], Opposite(o.side), s, r, qty, t)
<1> DEFINE side == Opposite(o.side)
           w == TradeWith(v, o, r, qty)
           part == [r EXCEPT !.qty = @ - qty]
           levels == v[side]
           image == w[side]
           line == s \o (<<r>> \o t)
           kept == {x \in OrderSet : x.id # r.id}
<1>1. Traded(v, o, r, qty, w)
  BY TradeFacts
<1>2. r.price \in Prices /\ side \in Sides /\ r.qty \in 1..MaxQty /\ MaxQty \in Nat
  BY SideFacts, ValidatorAssumption DEF OrderSet
<1>3. part.price = r.price /\ (qty # r.qty => part \in OrderSet)
  <2> DEFINE rest == r.qty - qty
  <2>1. qty # r.qty => rest \in 1..MaxQty
    BY <1>2
  <2>2. part = [r EXCEPT !.qty = rest]
    OBVIOUS
  <2> HIDE DEF part, rest
  <2> QED BY <2>1, <2>2 DEF OrderSet
<1> HIDE DEF w, part
<1>4. /\ w \in Shards
      /\ image = [levels EXCEPT ![r.price] = TradedLevel(@, r, qty)]
      /\ \A p \in Prices \ {r.price} : image[p] = levels[p]
      /\ qty = r.qty => \A x : x \in ToSet(image[r.price])
                           <=> x \in ToSet(levels[r.price]) /\ x.id # r.id
      /\ qty # r.qty => ToSet(image[r.price]) \subseteq ToSet(levels[r.price]) \cup {part}
  BY <1>1 DEF Traded, part
<1>5. TradedLevel(levels[r.price], r, qty) = IF qty = r.qty THEN Without(levels[r.price], r.id)
                                             ELSE ReplaceAll(levels[r.price], r, part)
  BY DEF TradedLevel, part
<1>6. LevelsPlaced(levels) /\ Line(levels, side) = line /\ Distinct(line)
  BY DEF InLine
<1> HIDE DEF side, image, levels
<1>7. levels \in Levels /\ image \in Levels
  BY <1>2, <1>4, BookFacts DEF Levels, levels, image
<1>8. LevelsPlaced(image)
  BY <1>3, <1>4, <1>6 DEF LevelsPlaced
<1>9. image[r.price] = TradedLevel(levels[r.price], r, qty)
  BY <1>2, <1>4, <1>7 DEF Levels
<1>10. r \in ToSet(line)
  <2> DEFINE one == <<r>>
             rt == one \o t
  <2>1. one \in Seq(OrderSet) /\ r \in ToSet(one)
    BY OneFacts
  <2> HIDE DEF one
  <2>2. rt \in Seq(OrderSet) /\ ToSet(rt) = ToSet(one) \cup ToSet(t)
    BY <2>1, ToSetConcat
  <2> HIDE DEF rt
  <2>3. ToSet(s \o rt) = ToSet(s) \cup ToSet(rt)
    BY <2>2, ToSetConcat
  <2> QED BY <2>1, <2>2, <2>3 DEF rt, one
<1>11. \A x : x \in ToSet(line) <=> \E p \in Prices : x \in ToSet(levels[p])
  BY <1>6, <1>7, LineFacts
<1> HIDE DEF line
<1>12. ASSUME NEW p \in Prices \ {r.price}, NEW x \in ToSet(levels[p]) PROVE x.id # r.id
  <2>1. x \in ToSet(line) /\ x.price = p
    BY <1>6, <1>11 DEF LevelsPlaced
  <2>2. x.id = r.id => x = r
    BY <1>6, <1>10, <2>1, DistinctIds
  <2> QED BY <2>1, <2>2
<1>13. \A p \in Prices : levels[p] \in Seq(OrderSet) /\ ToSet(levels[p]) \subseteq OrderSet
  <2> TAKE p \in Prices
  <2> DEFINE level == levels[p]
  <2>1. level \in Seq(OrderSet)
    BY <1>7 DEF Levels
  <2> HIDE DEF level
  <2>2. ToSet(level) \subseteq OrderSet
    BY <2>1, SeqFacts DEF ToSet
  <2> QED BY <2>1, <2>2 DEF level
<1>14. CASE qty = r.qty
  <2> DEFINE F == [q \in Seq(OrderSet) |-> Only(q, kept)]
  <2>1. IsHom(F)
    <3> HIDE DEF kept
    <3> QED BY OnlyHom
  <2>2. ASSUME NEW p \in Prices PROVE image[p] = F[levels[p]]
    <3>1. levels[p] \in Seq(OrderSet)
      BY <1>13
    <3>2. CASE p = r.price
      BY <1>5, <1>9, <1>14, <3>1, <3>2 DEF Without
    <3>3. CASE p # r.price
      <4>1. ToSet(levels[p]) \subseteq kept
        BY <1>12, <1>13, <3>3
      <4>2. Only(levels[p], kept) = levels[p]
        <5> HIDE DEF kept
        <5> QED BY <3>1, <4>1, OnlyAll
      <4> QED BY <1>4, <3>1, <3>3, <4>2
    <3> QED BY <3>2, <3>3
  <2>3. Line(image, side) = F[Line(levels, side)]
    <3> HIDE DEF F
    <3> QED BY <1>7, <2>1, <2>2, HomLine
  <2>4. Line(levels, side) \in Seq(OrderSet)
    BY <1>7, LineFacts
  <2>5. Line(image, side) = Without(line, r.id)
    BY <1>6, <2>3, <2>4 DEF Without
  <2>6. Without(line, r.id) = s \o t
    BY <1>6, WithoutOne DEF line
  <2> QED BY <1>8, <1>14, <2>5, <2>6 DEF LineLeft, image, w, side
<1>15. CASE qty # r.qty
  <2> DEFINE F == [q \in Seq(OrderSet) |-> ReplaceAll(q, r, part)]
  <2>0. part \in OrderSet
    BY <1>3, <1>15
  <2>1. IsHom(F)
    BY <2>0, ReplaceHom
  <2>2. ASSUME NEW p \in Prices PROVE image[p] = F[levels[p]]
    <3>1. levels[p] \in Seq(OrderSet)
      BY <1>13
    <3>2. CASE p = r.price
      BY <1>5, <1>9, <1>15, <3>1, <3>2
    <3>3. CASE p # r.price
      <4>1. r \notin ToSet(levels[p])
        BY <1>12, <3>3
      <4>2. ReplaceAll(levels[p], r, part) = levels[p]
        BY <2>0, <3>1, <4>1, ReplaceSame
      <4> QED BY <1>4, <3>1, <3>3, <4>2
    <3> QED BY <3>2, <3>3
  <2>3. Line(image, side) = F[Line(levels, side)]
    <3> HIDE DEF F
    <3> QED BY <1>7, <2>1, <2>2, HomLine
  <2>4. Line(levels, side) \in Seq(OrderSet)
    BY <1>7, LineFacts
  <2>5. Line(image, side) = ReplaceAll(line, r, part)
    BY <1>6, <2>3, <2>4
  <2>6. ReplaceAll(line, r, part) = s \o (<<part>> \o t)
    BY <1>6, <2>0, WithoutOne, ZenonT(60) DEF line
  <2> QED BY <1>8, <1>15, <2>5, <2>6 DEF LineLeft, image, w, side, part
<1> QED BY <1>14, <1>15

\* The engine's loop at one resting order, case by case.
LEMMA MatchNextCases ==
    ASSUME NEW o \in OrderSet, NEW acc \in EngineAccs, NEW r \in OrderSet
    PROVE  LET q == Smallest(r.qty, acc.left)
               e == Engine!MatchNext(o, acc, r)
           IN  /\ acc.left = 0 \/ r \notin Makable(o) =>
                    e.left = acc.left /\ e.reports = acc.reports /\ e.orders = Append(acc.orders, r)
               /\ acc.left # 0 /\ r \in Makable(o) =>
                    /\ e.left = acc.left - q
                    /\ e.orders = IF q = r.qty THEN acc.orders
                                  ELSE Append(acc.orders, [r EXCEPT !.qty = @ - q])
                    /\ e.reports = acc.reports \o
                         <<Engine!FillReport(o.id, q, r.price, r.id),
                           Engine!FillReport(r.id, q, r.price, o.id)>>
                    /\ q \in 1..r.qty
                    /\ q # r.qty => [r EXCEPT !.qty = @ - q] \in OrderSet
<1> DEFINE q == Smallest(r.qty, acc.left)
           part == [r EXCEPT !.qty = @ - q]
           reps == acc.reports \o <<Engine!FillReport(o.id, q, r.price, r.id),
                                    Engine!FillReport(r.id, q, r.price, o.id)>>
           ords == IF q = r.qty THEN acc.orders ELSE Append(acc.orders, part)
           kept == Append(acc.orders, r)
           e == Engine!MatchNext(o, acc, r)
<1>1. e = IF acc.left = 0 \/ ~Engine!Tradable(o, r) THEN [acc EXCEPT !.orders = kept]
          ELSE [left |-> acc.left - q, orders |-> ords, reports |-> reps]
  BY DEF Engine!MatchNext, Smallest
<1>2. r \in Makable(o) <=> Engine!Tradable(o, r)
  BY DEF Makable
<1>3. acc.left \in 0..MaxQty /\ MaxQty \in Nat /\ r.qty \in 1..MaxQty
  BY ValidatorAssumption DEF EngineAccs, OrderSet
<1>4. acc.left # 0 => q \in 1..r.qty
  BY <1>3 DEF Smallest
<1>5. q \in 1..r.qty /\ q # r.qty => part \in OrderSet
  BY <1>3 DEF OrderSet
<1> HIDE DEF q, part, reps, ords, kept, e
<1>6. acc.left = 0 \/ r \notin Makable(o) =>
        e.left = acc.left /\ e.reports = acc.reports /\ e.orders = kept
  BY <1>1, <1>2 DEF EngineAccs
<1>7. acc.left # 0 /\ r \in Makable(o) =>
        e.left = acc.left - q /\ e.orders = ords /\ e.reports = reps
  BY <1>1, <1>2
<1> QED BY <1>4, <1>5, <1>6, <1>7 DEF q, part, reps, ords, kept, e

\* The orders of t are distinct and are orders of s, as far as their ids go.
Within(t, s) == Distinct(t) /\ IdsOf(t) \subseteq IdsOf(s)

\* An order is replaced by one of the same id, or taken out.
LEMMA WithinSame ==
    ASSUME NEW s \in Seq(OrderSet), NEW r \in OrderSet, NEW x \in OrderSet, NEW t \in Seq(OrderSet),
           Distinct(s \o (<<r>> \o t)), x.id = r.id
    PROVE  Within(s \o (<<x>> \o t), s \o (<<r>> \o t)) /\ Within(s \o t, s \o (<<r>> \o t))
<1> DEFINE one == <<r>>
           two == <<x>>
           rt == one \o t
           xt == two \o t
<1>1. one \in Seq(OrderSet) /\ two \in Seq(OrderSet)
  OBVIOUS
<1>2. IdsOf(one) = {r.id} /\ IdsOf(two) = {r.id} /\ Distinct(one) /\ Distinct(two)
  BY OneFacts
<1>3. Distinct(s \o rt)
  OBVIOUS
<1> HIDE DEF one, two
<1>4. rt \in Seq(OrderSet) /\ xt \in Seq(OrderSet)
  BY <1>1
<1>5. IdsOf(rt) = IdsOf(one) \cup IdsOf(t) /\ IdsOf(xt) = IdsOf(two) \cup IdsOf(t)
  BY <1>1, IdsConcat
<1>6. /\ Distinct(rt) <=> Distinct(one) /\ Distinct(t) /\ IdsOf(one) \cap IdsOf(t) = {}
      /\ Distinct(xt) <=> Distinct(two) /\ Distinct(t) /\ IdsOf(two) \cap IdsOf(t) = {}
  BY <1>1, DistinctConcat
<1> HIDE DEF rt, xt
<1>7. /\ IdsOf(s \o rt) = IdsOf(s) \cup IdsOf(rt) /\ IdsOf(s \o xt) = IdsOf(s) \cup IdsOf(xt)
      /\ IdsOf(s \o t) = IdsOf(s) \cup IdsOf(t)
  BY <1>4, IdsConcat
<1>8. /\ Distinct(s \o rt) <=> Distinct(s) /\ Distinct(rt) /\ IdsOf(s) \cap IdsOf(rt) = {}
      /\ Distinct(s \o xt) <=> Distinct(s) /\ Distinct(xt) /\ IdsOf(s) \cap IdsOf(xt) = {}
      /\ Distinct(s \o t) <=> Distinct(s) /\ Distinct(t) /\ IdsOf(s) \cap IdsOf(t) = {}
  BY <1>4, DistinctConcat
<1>9. Distinct(s \o xt) /\ Distinct(s \o t)
  BY <1>2, <1>3, <1>5, <1>6, <1>8
<1>10. IdsOf(s \o xt) \subseteq IdsOf(s \o rt) /\ IdsOf(s \o t) \subseteq IdsOf(s \o rt)
  BY <1>2, <1>5, <1>7
<1> QED BY <1>9, <1>10 DEF Within, rt, xt, one, two

\* Within is transitive.
LEMMA WithinTrans ==
    ASSUME NEW s, NEW t, NEW u, Within(s, t), Within(t, u) PROVE Within(s, u)
  BY DEF Within

\* The engine's loop adds no order to the slice it goes through.
LEMMA EngineKeeps ==
    ASSUME NEW o \in OrderSet, NEW t \in Seq(OrderSet), NEW u \in Seq(OrderSet), Distinct(t \o u)
    PROVE  Within(EngineSeq(o, t).orders \o u, t \o u)
<1> DEFINE Good(s) == \A w \in Seq(OrderSet) :
                         Distinct(s \o w) => Within(EngineSeq(o, s).orders \o w, s \o w)
           T == {s \in Seq(OrderSet) : Good(s)}
<1>1. <<>> \in T
  <2>1. EngineSeq(o, <<>>).orders = <<>>
    BY EngineSeqEmpty DEF EngineBase
  <2> DEFINE e == <<>>
  <2>2. e \in Seq(OrderSet) /\ EngineSeq(o, e).orders = e
    BY <2>1
  <2> HIDE DEF e
  <2>3. Good(e)
    BY <2>2 DEF Within
  <2>4. e \in T
    BY <2>2, <2>3
  <2> QED BY <2>4 DEF e
<1>2. ASSUME NEW s \in Seq(OrderSet), NEW r \in OrderSet, s \in T PROVE Append(s, r) \in T
  <2> DEFINE sr == Append(s, r)
             acc == EngineSeq(o, s)
             e == EngineSeq(o, sr)
             q == Smallest(r.qty, acc.left)
             part == [r EXCEPT !.qty = @ - q]
  <2>1. sr \in Seq(OrderSet)
    OBVIOUS
  <2>2. acc \in EngineAccs /\ e = Engine!MatchNext(o, acc, r)
    BY EngineSeqAppend
  <2> HIDE DEF acc, sr, e
  <2>3. /\ acc.left = 0 \/ r \notin Makable(o) => e.orders = Append(acc.orders, r)
        /\ acc.left # 0 /\ r \in Makable(o) =>
             /\ e.orders = IF q = r.qty THEN acc.orders ELSE Append(acc.orders, part)
             /\ q # r.qty => part \in OrderSet
    BY <2>2, MatchNextCases
  <2>4. part.id = r.id
    <3> HIDE DEF q
    <3> QED BY DEF OrderSet
  <2> DEFINE ords == acc.orders
  <2>5. ords \in Seq(OrderSet)
    BY <2>2 DEF EngineAccs
  <2> HIDE DEF ords, e, q, part
  <2>6. ASSUME NEW w \in Seq(OrderSet), Distinct(sr \o w)
        PROVE  Within(e.orders \o w, sr \o w)
    <3> DEFINE rw == <<r>> \o w
    <3>1. rw \in Seq(OrderSet)
      OBVIOUS
    <3>2. sr \o w = s \o rw
      BY AppendThenCat DEF sr
    <3> HIDE DEF rw
    <3>3. Within(ords \o rw, s \o rw)
      BY <1>2, <2>6, <3>1, <3>2 DEF acc, ords
    <3>4. Distinct(ords \o rw)
      BY <3>3 DEF Within
    <3>5. Append(ords, r) \o w = ords \o rw
      BY <2>5, AppendThenCat DEF rw
    <3>6. CASE e.orders = Append(ords, r)
      BY <3>2, <3>3, <3>5, <3>6
    <3>7. CASE e.orders = ords
      <4>1. Within(ords \o w, ords \o rw)
        BY <2>5, <3>4, WithinSame DEF rw
      <4>2. Within(ords \o w, s \o rw)
        BY <3>3, <4>1, WithinTrans
      <4> QED BY <3>2, <3>7, <4>2
    <3>8. CASE e.orders = Append(ords, part) /\ part \in OrderSet
      <4>1. Append(ords, part) \o w = ords \o (<<part>> \o w)
        BY <2>5, <3>8, AppendThenCat
      <4>2. Within(ords \o (<<part>> \o w), ords \o rw)
        BY <2>4, <2>5, <3>4, <3>8, WithinSame DEF rw
      <4> DEFINE z == ords \o (<<part>> \o w)
      <4> HIDE DEF z
      <4>3. Within(z, ords \o rw)
        BY <4>2 DEF z
      <4>4. Within(z, s \o rw)
        BY <3>3, <4>3, WithinTrans
      <4> QED BY <3>2, <3>8, <4>1, <4>4 DEF z
    <3> QED BY <2>3, <3>6, <3>7, <3>8 DEF ords
  <2>7. Good(sr)
    BY <2>6 DEF e
  <2>8. sr \in T
    BY <2>1, <2>7
  <2> QED BY <2>8 DEF sr
<1>3. \A s \in Seq(OrderSet) : s \in T
  <2> HIDE DEF T
  <2> QED BY <1>1, <1>2, SeqsInduction
<1> QED BY <1>3

\* After the first orders t of a line, of which u is the rest, both loops have
\* the same quantity left and the same line.
Agree(v, o, t, u) ==
    LET a == MatchSeq(v, o, Only(t, Makable(o)))
        e == EngineSeq(o, t)
        side == Opposite(o.side)
    IN  /\ a.left = e.left /\ LevelsPlaced(a.v[side])
        /\ Line(a.v[side], side) = e.orders \o u

\* One more resting order keeps the loops in agreement.
LEMMA AgreeStep ==
    ASSUME NEW v \in Shards, NEW o \in OrderSet, NEW t \in Seq(OrderSet), NEW r \in OrderSet,
           NEW u \in Seq(OrderSet), Distinct(t \o (<<r>> \o u)), Agree(v, o, t, <<r>> \o u)
    PROVE  Agree(v, o, Append(t, r), u)
<1> DEFINE K == Makable(o)
           side == Opposite(o.side)
           tr == Append(t, r)
           ms == Only(t, K)
           a == MatchSeq(v, o, ms)
           b == MatchSeq(v, o, Only(tr, K))
           acc == EngineSeq(o, t)
           e == EngineSeq(o, tr)
           q == Smallest(r.qty, acc.left)
           part == [r EXCEPT !.qty = @ - q]
           ords == acc.orders
           ru == <<r>> \o u
<1>1. ms \in Seq(OrderSet)
  BY OnlyFacts
<1>2. Only(tr, K) = IF r \in K THEN Append(ms, r) ELSE ms
  <2> HIDE DEF K
  <2> QED BY OnlyAppend
<1>3. a \in Accs /\ MatchSeq(v, o, Append(ms, r)) = MatchStep(o, a, r)
  <2> HIDE DEF ms
  <2> QED BY <1>1, MatchSeqAppend
<1>4. acc \in EngineAccs /\ e = Engine!MatchNext(o, acc, r)
  BY EngineSeqAppend
<1>5. ru \in Seq(OrderSet)
  OBVIOUS
<1>6. a.left = acc.left /\ LevelsPlaced(a.v[side]) /\ Line(a.v[side], side) = ords \o ru
  BY DEF Agree
<1>7. Distinct(ords \o ru)
  <2>1. Distinct(t \o ru)
    OBVIOUS
  <2> HIDE DEF ru
  <2>2. Within(ords \o ru, t \o ru)
    BY <1>5, <2>1, EngineKeeps
  <2> QED BY <2>2 DEF Within
<1>8. b = IF r \in K THEN MatchStep(o, a, r) ELSE a
  BY <1>2, <1>3
<1> HIDE DEF K, ms, a, b, acc, e, tr
<1>9. ords \in Seq(OrderSet)
  BY <1>4 DEF EngineAccs
<1>10. /\ acc.left = 0 \/ r \notin K => e.left = acc.left /\ e.orders = Append(ords, r)
       /\ acc.left # 0 /\ r \in K =>
            /\ e.left = acc.left - q
            /\ e.orders = IF q = r.qty THEN ords ELSE Append(ords, part)
            /\ q \in 1..r.qty
            /\ q # r.qty => part \in OrderSet
  BY <1>4, MatchNextCases, ZenonT(60) DEF K
<1> HIDE DEF ords, part, q
<1>11. SUFFICES /\ b.left = e.left /\ LevelsPlaced(b.v[side])
                /\ Line(b.v[side], side) = e.orders \o u
  BY DEF Agree, a, b, acc, e, tr, K
<1>12. CASE acc.left = 0 \/ r \notin K
  <2>1. b = a
    BY <1>6, <1>8, <1>12 DEF MatchStep
  <2>2. Append(ords, r) \o u = ords \o ru
    BY <1>9, AppendThenCat
  <2> HIDE DEF ru
  <2> QED BY <1>6, <1>10, <1>12, <2>1, <2>2
<1>13. CASE acc.left # 0 /\ r \in K
  <2> DEFINE w == TradeWith(a.v, o, r, q)
  <2>1. b = [v |-> w, left |-> a.left - q]
    BY <1>6, <1>8, <1>13 DEF MatchStep, q
  <2>2. q \in 1..r.qty /\ a.v \in Shards
    BY <1>3, <1>10, <1>13 DEF Accs
  <2>3. /\ LevelsPlaced(w[side])
        /\ Line(w[side], side) = IF q = r.qty THEN ords \o u ELSE ords \o (<<part>> \o u)
    <3> DEFINE x == a.v
    <3>1. x \in Shards /\ InLine(x[side], side, ords, r, u)
      BY <1>6, <1>7, <2>2 DEF InLine
    <3> HIDE DEF x
    <3>2. LineLeft(TradeWith(x, o, r, q)[side], side, ords, r, q, u)
      BY <1>9, <2>2, <3>1, TradeLine
    <3> QED BY <3>2 DEF LineLeft, part, x
  <2>4. q # r.qty => Append(ords, part) \o u = ords \o (<<part>> \o u)
    BY <1>9, <1>10, <1>13, AppendThenCat
  <2> HIDE DEF w
  <2> QED BY <1>6, <1>10, <1>13, <2>1, <2>3, <2>4
<1> QED BY <1>12, <1>13

\* The validator's loop and the engine's, on the same line.
LEMMA LoopsAgree ==
    ASSUME NEW v \in Shards, NEW o \in OrderSet, LevelsPlaced(v[Opposite(o.side)]),
           Distinct(Line(v[Opposite(o.side)], Opposite(o.side)))
    PROVE  LET side == Opposite(o.side)
               a == matchIncoming(v, o, o.type = "limit")
               e == EngineSeq(o, Line(v[side], side))
           IN  a.left = e.left /\ Line(a.v[side], side) = e.orders
<1> DEFINE side == Opposite(o.side)
           S == Line(v[side], side)
           Good(s) == \A w \in Seq(OrderSet) : s \o w = S => Agree(v, o, s, w)
           T == {s \in Seq(OrderSet) : Good(s)}
<1>0. v[side] \in Levels
  BY SideFacts, BookFacts DEF Levels
<1>1. S \in Seq(OrderSet)
  BY <1>0, LineFacts
<1>2. <<>> \in T
  <2> DEFINE e == <<>>
  <2>1. e \in Seq(OrderSet) /\ Only(e, Makable(o)) = <<>>
    BY OnlyEmpty
  <2>2. MatchSeq(v, o, <<>>) = [v |-> v, left |-> o.qty]
    BY MatchSeqEmpty
  <2>3. EngineSeq(o, e) = EngineBase(o)
    BY EngineSeqEmpty
  <2>4. ASSUME NEW w \in Seq(OrderSet), e \o w = S PROVE Agree(v, o, e, w)
    <3>1. MatchSeq(v, o, Only(e, Makable(o))) = [v |-> v, left |-> o.qty]
      BY <2>1, <2>2
    <3>2. EngineSeq(o, e).left = o.qty /\ EngineSeq(o, e).orders = e
      BY <2>3 DEF EngineBase
    <3> HIDE DEF e
    <3> QED BY <2>4, <3>1, <3>2 DEF Agree
  <2> HIDE DEF e
  <2>5. Good(e)
    BY <2>4
  <2>6. e \in T
    BY <2>1, <2>5
  <2> QED BY <2>6 DEF e
<1>3. ASSUME NEW s \in Seq(OrderSet), NEW r \in OrderSet, s \in T PROVE Append(s, r) \in T
  <2> DEFINE sr == Append(s, r)
  <2>1. sr \in Seq(OrderSet)
    OBVIOUS
  <2>2. ASSUME NEW w \in Seq(OrderSet), sr \o w = S PROVE Agree(v, o, sr, w)
    <3>1. sr \o w = s \o (<<r>> \o w)
      BY AppendThenCat
    <3>2. <<r>> \o w \in Seq(OrderSet)
      OBVIOUS
    <3>3. Agree(v, o, s, <<r>> \o w)
      BY <1>3, <2>2, <3>1, <3>2
    <3>4. Distinct(s \o (<<r>> \o w))
      BY <2>2, <3>1
    <3> QED BY <3>3, <3>4, AgreeStep
  <2> HIDE DEF sr
  <2>3. Good(sr)
    BY <2>2
  <2>4. sr \in T
    BY <2>1, <2>3
  <2> QED BY <2>4 DEF sr
<1>4. \A s \in Seq(OrderSet) : s \in T
  <2> HIDE DEF T
  <2> QED BY <1>2, <1>3, SeqsInduction
<1> DEFINE e == <<>>
<1>5. e \in Seq(OrderSet) /\ S \o e = S
  BY <1>1, CatEmpty
<1>6. Agree(v, o, S, e)
  <2> HIDE DEF S, e
  <2> QED BY <1>1, <1>4, <1>5
<1>7. EngineSeq(o, S).orders \in Seq(OrderSet)
  <2> HIDE DEF S
  <2>1. EngineSeq(o, S) \in EngineAccs
    BY <1>1, EngineSeqAppend
  <2> QED BY <2>1 DEF EngineAccs
<1>8. EngineSeq(o, S).orders \o e = EngineSeq(o, S).orders
  <2> HIDE DEF S
  <2> QED BY <1>7, CatEmpty
<1>9. matchIncoming(v, o, o.type = "limit") = MatchSeq(v, o, Only(S, Makable(o)))
  <2>1. Makers(v, o, o.type = "limit") = Only(S, Makable(o))
    BY MakersLine
  <2> QED BY <2>1, MatchIsSeq
<1> QED BY <1>6, <1>8, <1>9 DEF Agree

-----------------------------------------------------------------------------
(* An order that rests.                                                    *)

\* The condition at which the engine's search for a place stops.
Worse(o, x) == IF o.side = "buy" THEN o.price > x.price ELSE o.price < x.price

\* The two parts of a concatenation.
LEMMA CatParts ==
    ASSUME NEW A, NEW s \in Seq(A), NEW t \in Seq(A)
    PROVE  /\ SubSeq(s \o t, 1, Len(s)) = s
           /\ SubSeq(s \o t, Len(s) + 1, Len(s \o t)) = t
<1> DEFINE u == s \o t
           n == Len(s)
           m == Len(t)
           a == SubSeq(u, 1, n)
           b == SubSeq(u, n + 1, Len(u))
<1>1. u \in Seq(A) /\ Len(u) = n + m /\ n \in Nat /\ m \in Nat
  OBVIOUS
<1>2. /\ \A i \in 1..n : u[i] = s[i]
      /\ \A i \in 1..m : u[n + i] = t[i]
  BY ConcatProperties
<1> HIDE DEF u
<1>3. a \in Seq(A) /\ Len(a) = n /\ \A i \in 1..n : a[i] = u[i]
  <2>1. n + 1 \in 1..(Len(u) + 1) /\ 1 \in 1..(Len(u) + 1) /\ n \in 0..Len(u) /\ n + 1 - 1 = n
    BY <1>1
  <2> QED BY <1>1, <2>1, SubSeqProperties
<1>4. b \in Seq(A) /\ Len(b) = m /\ \A i \in 1..m : b[i] = u[n + i]
  <2>1. n + 1 \in 1..(Len(u) + 1) /\ Len(u) \in 0..Len(u)
    BY <1>1
  <2> DEFINE k == n + 1
             l == Len(u)
  <2>2. k \in 1..(Len(u) + 1) /\ l \in 0..Len(u)
    BY <2>1
  <2>3. SubSeq(u, k, l) \in Seq(A)
    <3> HIDE DEF k, l
    <3> QED BY <1>1, <2>2, SubSeqProperties
  <2>4. Len(SubSeq(u, k, l)) = IF k <= l THEN l - k + 1 ELSE 0
    <3> HIDE DEF k, l
    <3> QED BY <1>1, <2>2, SubSeqProperties
  <2>5. \A i \in 1..(l - k + 1) : SubSeq(u, k, l)[i] = u[k + i - 1]
    <3> HIDE DEF k, l
    <3> QED BY <1>1, <2>2, SubSeqProperties
  <2>6. l - k + 1 = m /\ \A i \in 1..m : k + i - 1 = n + i
    BY <1>1
  <2> QED BY <1>1, <2>3, <2>4, <2>5, <2>6
<1> HIDE DEF a, b
<1>5. a = s /\ b = t
  <2>1. Len(s) = n /\ Len(t) = m
    OBVIOUS
  <2>2. \A i \in 1..n : a[i] = s[i]
    BY <1>2, <1>3
  <2>3. \A i \in 1..m : b[i] = t[i]
    BY <1>2, <1>4
  <2> HIDE DEF n, m
  <2>4. a = s
    BY <1>3, <2>1, <2>2, SeqEqual
  <2>5. b = t
    BY <1>4, <2>1, <2>3, SeqEqual
  <2> QED BY <2>4, <2>5
<1> QED BY <1>5 DEF a, b, u

\* An order goes between those that are not worse and those that are.
LEMMA InsertSplit ==
    ASSUME NEW s \in Seq(OrderSet), NEW t \in Seq(OrderSet), NEW o \in OrderSet,
           \A x \in ToSet(s) : ~Worse(o, x), \A x \in ToSet(t) : Worse(o, x)
    PROVE  Engine!Insert(s \o t, o) = s \o (<<o>> \o t)
<1> DEFINE u == s \o t
           n == Len(s)
           m == Len(t)
           J == {i \in 1..Len(u) : IF o.side = "buy" THEN o.price > u[i].price
                                                     ELSE o.price < u[i].price}
           k == n + 1
<1>1. u \in Seq(OrderSet) /\ Len(u) = n + m /\ n \in Nat /\ m \in Nat
  OBVIOUS
<1>2. /\ \A i \in 1..n : u[i] = s[i]
      /\ \A i \in 1..m : u[n + i] = t[i]
  BY ConcatProperties
<1>3. SubSeq(u, 1, n) = s /\ SubSeq(u, k, Len(u)) = t
  BY CatParts
<1>4. DOMAIN s = 1..n /\ DOMAIN t = 1..m
  BY SeqFacts
<1> HIDE DEF u
<1>5. Engine!Insert(u, o) =
        IF (IF J # {} THEN Min(J) ELSE 0) = 0 THEN Append(u, o)
        ELSE SubSeq(u, 1, (IF J # {} THEN Min(J) ELSE 0) - 1) \o <<o>>
             \o SubSeq(u, IF J # {} THEN Min(J) ELSE 0, Len(u))
  BY DEF Engine!Insert, Engine!SelectInSeq, Engine!InsertAt, Engine!Min, Min
<1>6. J = k..(n + m)
  <2>1. J = {i \in 1..(n + m) : Worse(o, u[i])}
    BY <1>1 DEF Worse
  <2>2. \A i \in 1..n : ~Worse(o, u[i])
    BY <1>2, <1>4 DEF ToSet
  <2>3. ASSUME NEW i \in k..(n + m) PROVE Worse(o, u[i])
    <3> DEFINE l == i - n
    <3>1. l \in 1..m /\ i = n + l
      BY <1>1
    <3> HIDE DEF l
    <3>2. u[i] = t[l]
      BY <1>2, <3>1
    <3> QED BY <1>4, <3>1, <3>2 DEF ToSet
  <2> HIDE DEF J, n, m
  <2>4. \A i \in 1..(n + m) : i \in 1..n \/ i \in k..(n + m)
    BY <1>1
  <2>5. k..(n + m) \subseteq 1..(n + m)
    BY <1>1
  <2> QED BY <2>1, <2>2, <2>3, <2>4, <2>5
<1> HIDE DEF J, n, m
<1> DEFINE one == <<o>>
<1>7. one \in Seq(OrderSet)
  OBVIOUS
<1>8. CASE m = 0
  <2>1. J = {}
    BY <1>1, <1>6, <1>8
  <2>2. Engine!Insert(u, o) = Append(u, o)
    BY <1>5, <2>1
  <2>3. t = <<>>
    BY <1>8 DEF m
  <2> DEFINE e == <<>>
  <2> HIDE DEF e
  <2>4. s \o e = s /\ one \o e = one
    <3> HIDE DEF one
    <3> QED BY <1>7, CatEmpty DEF e
  <2>5. u = s
    BY <2>3, <2>4 DEF u, e
  <2>6. Append(s, o) = s \o one
    BY AppendIsCat
  <2>7. one \o t = one
    BY <2>3, <2>4 DEF e
  <2> QED BY <2>2, <2>5, <2>6, <2>7 DEF u
<1>9. CASE m # 0
  <2>1. J # {} /\ J \in SUBSET Int /\ IsFiniteSet(J) /\ k \in J /\ \A i \in J : k <= i
    <3>1. IsFiniteSet(k..(n + m))
      BY <1>1, FS_Interval
    <3>2. k \in k..(n + m) /\ k..(n + m) \in SUBSET Int /\ \A i \in k..(n + m) : k <= i
      BY <1>1, <1>9
    <3> HIDE DEF k
    <3> QED BY <1>6, <3>1, <3>2
  <2>2. Min(J) \in J /\ Min(J) <= k
    BY <2>1, MaxMinIn
  <2>3. Min(J) = k /\ k # 0 /\ k - 1 = n
    <3>1. k \in Int /\ k # 0 /\ k - 1 = n
      BY <1>1
    <3>2. k <= Min(J) /\ Min(J) \in Int
      BY <2>1, <2>2
    <3> HIDE DEF k
    <3>3. Min(J) = k
      BY <2>2, <3>1, <3>2
    <3> QED BY <3>1, <3>3
  <2>4. Engine!Insert(u, o) = SubSeq(u, 1, n) \o one \o SubSeq(u, k, Len(u))
    BY <1>5, <2>1, <2>3
  <2> HIDE DEF one, k
  <2>5. Engine!Insert(u, o) = s \o one \o t
    BY <1>3, <2>4
  <2>6. (s \o one) \o t = s \o (one \o t)
    BY <1>7, CatAssoc
  <2> QED BY <2>5, <2>6 DEF u, one
<1> QED BY <1>8, <1>9

\* t is s with o between the orders that are not worse and those that are.
PutIn(s, t, o) ==
    \E a, b \in Seq(OrderSet) :
        /\ s = a \o b /\ t = a \o (<<o>> \o b)
        /\ \A x \in ToSet(a) : ~Worse(o, x)
        /\ \A x \in ToSet(b) : Worse(o, x)

\* Insert puts an order in like that.
LEMMA PutInIsInsert ==
    ASSUME NEW s, NEW t, NEW o \in OrderSet, PutIn(s, t, o) PROVE t = Engine!Insert(s, o)
<1>1. PICK a \in Seq(OrderSet), b \in Seq(OrderSet) :
         /\ s = a \o b /\ t = a \o (<<o>> \o b)
         /\ \A x \in ToSet(a) : ~Worse(o, x)
         /\ \A x \in ToSet(b) : Worse(o, x)
  BY DEF PutIn
<1>2. Engine!Insert(a \o b, o) = a \o (<<o>> \o b)
  BY <1>1, InsertSplit
<1> QED BY <1>1, <1>2

\* Better levels stay in front.
LEMMA PutInBehind ==
    ASSUME NEW level \in Seq(OrderSet), NEW s, NEW t, NEW o \in OrderSet, PutIn(s, t, o),
           \A x \in ToSet(level) : ~Worse(o, x)
    PROVE  PutIn(level \o s, level \o t, o)
<1>1. PICK a \in Seq(OrderSet), b \in Seq(OrderSet) :
         /\ s = a \o b /\ t = a \o (<<o>> \o b)
         /\ \A x \in ToSet(a) : ~Worse(o, x)
         /\ \A x \in ToSet(b) : Worse(o, x)
  BY DEF PutIn
<1> DEFINE la == level \o a
           ob == <<o>> \o b
<1>2. la \in Seq(OrderSet) /\ ToSet(la) = ToSet(level) \cup ToSet(a)
  BY ToSetConcat
<1>3. ob \in Seq(OrderSet)
  OBVIOUS
<1>4. level \o (a \o b) = la \o b
  BY CatAssoc
<1>5. level \o (a \o ob) = la \o ob
  <2> HIDE DEF ob
  <2> QED BY <1>3, CatAssoc, SMTT(30)
<1> HIDE DEF la
<1>6. \A x \in ToSet(la) : ~Worse(o, x)
  BY <1>1, <1>2
<1>7. level \o s = la \o b /\ level \o t = la \o (<<o>> \o b)
  BY <1>1, <1>4, <1>5
<1> QED BY <1>1, <1>2, <1>6, <1>7 DEF PutIn

\* Worse, as an order of prices.
LEMMA WorseBetter ==
    ASSUME NEW o \in OrderSet, NEW x
    PROVE  Worse(o, x) <=> Better(Own(o.side), o.price, x.price)
  BY DEF Worse, Better, Own, OrderSet

\* Better is a strict order.
LEMMA BetterOrder ==
    ASSUME NEW side, NEW p \in Prices, NEW q \in Prices, Better(side, p, q)
    PROVE  ~Better(side, q, p) /\ p # q
  BY PricesFacts DEF Better

\* addOrderToBook appends to a level where Insert searches the slice.
LEMMA RestLine ==
    ASSUME NEW levels \in Levels, LevelsPlaced(levels), NEW o \in OrderSet, NEW image,
           image = [levels EXCEPT ![o.price] = Append(@, o)]
    PROVE  Line(image, Own(o.side)) = Engine!Insert(Line(levels, Own(o.side)), o)
<1> DEFINE side == Own(o.side)
           best == o.price
           old == levels[best]
           new == Append(old, o)
<1>1. best \in Prices /\ levels \in [Prices -> Seq(OrderSet)]
  BY DEF OrderSet, Levels
<1>2. old \in Seq(OrderSet) /\ image = [levels EXCEPT ![best] = new]
  BY <1>1
<1>2a. new \in Seq(OrderSet)
  <2> HIDE DEF old
  <2> QED BY <1>2
<1>3. image \in Levels /\ image[best] = new /\ \A p \in Prices \ {best} : image[p] = levels[p]
  <2> HIDE DEF new
  <2> QED BY <1>1, <1>2, <1>2a DEF Levels
<1>4. PICK f : IsQueue(f, levels, side, OrderSet, Prices) /\ Line(levels, side) = f[Prices]
  BY LineSteps
<1>5. PICK g : IsQueue(g, image, side, OrderSet, Prices) /\ Line(image, side) = g[Prices]
  BY <1>3, LineSteps
<1>6. \A x : Worse(o, x) <=> Better(side, best, x.price)
  BY WorseBetter
<1> HIDE DEF side, best
<1> DEFINE From(s) == \A x \in ToSet(f[s]) : x.price \in s
           Good(s) == /\ From(s) /\ (best \notin s => g[s] = f[s])
                      /\ best \in s => PutIn(f[s], g[s], o)
           T == {s \in SUBSET Prices : Good(s)}
<1>7. {} \in T
  <2>1. f[{}] = <<>> /\ g[{}] = <<>>
    BY <1>4, <1>5 DEF IsQueue
  <2>2. From({})
    BY <2>1, EmptyFacts
  <2> QED BY <2>1, <2>2
<1>8. ASSUME NEW s \in SUBSET Prices, s # {}
      PROVE  \E p \in s : s \ {p} \in T => s \in T
  <2> DEFINE b == Best(side, s)
             r == s \ {b}
             level == levels[b]
             fr == f[r]
             gr == g[r]
  <2>1. b \in s /\ b \in Prices /\ r \in SUBSET Prices
    BY <1>8, BestIn
  <2>2. f[s] = level \o fr /\ fr \in Seq(OrderSet)
    BY <1>4, <1>8, <2>1 DEF IsQueue
  <2>3. g[s] = image[b] \o gr
    BY <1>5, <1>8, <2>1 DEF IsQueue
  <2>4. \A p \in r : Better(side, b, p)
    BY <1>8, BestFirst
  <2>5. level \in Seq(OrderSet) /\ \A x \in ToSet(level) : x.price = b
    BY <1>1, <2>1 DEF LevelsPlaced
  <2> HIDE DEF b, level, fr, gr
  <2>6. ToSet(f[s]) = ToSet(level) \cup ToSet(fr)
    BY <2>2, <2>5, ToSetConcat
  <2>7. SUFFICES ASSUME r \in T PROVE s \in T
    BY <2>1
  <2>8. Good(r)
    BY <2>7
  <2>9. From(s)
    BY <2>1, <2>5, <2>6, <2>8 DEF fr
  <2>10. ASSUME best \notin s PROVE g[s] = f[s]
    <3>1. b # best /\ best \notin r
      BY <2>1, <2>10
    <3>2. image[b] = level /\ gr = fr
      BY <1>3, <2>1, <2>8, <3>1 DEF level, fr, gr
    <3> QED BY <2>2, <2>3, <3>2
  <2>11. ASSUME best \in s, b = best PROVE PutIn(f[s], g[s], o)
    <3>1. gr = fr
      BY <2>8, <2>11 DEF gr, fr
    <3>2. image[b] = Append(level, o)
      BY <1>3, <2>11 DEF level
    <3>3. g[s] = level \o (<<o>> \o fr)
      <4>1. Append(level, o) \o fr = level \o (<<o>> \o fr)
        BY <2>2, <2>5, AppendThenCat
      <4> QED BY <2>3, <3>1, <3>2, <4>1
    <3>4. \A x \in ToSet(level) : ~Worse(o, x)
      <4>1. ~Better(side, best, best)
        BY <1>1, PricesFacts DEF Better
      <4> QED BY <1>6, <2>5, <2>11, <4>1
    <3>5. \A x \in ToSet(fr) : Worse(o, x)
      BY <1>6, <2>4, <2>8, <2>11 DEF fr
    <3> QED BY <2>2, <2>5, <3>3, <3>4, <3>5 DEF PutIn
  <2>12. ASSUME best \in s, b # best PROVE PutIn(f[s], g[s], o)
    <3>1. best \in r /\ PutIn(fr, gr, o)
      BY <2>8, <2>12 DEF fr, gr
    <3>2. image[b] = level
      BY <1>3, <2>1, <2>12 DEF level
    <3>3. ~Better(side, best, b)
      BY <1>1, <2>1, <2>4, <3>1, BetterOrder
    <3>4. \A x \in ToSet(level) : ~Worse(o, x)
      BY <1>6, <2>5, <3>3
    <3>5. PutIn(level \o fr, level \o gr, o)
      BY <2>5, <3>1, <3>4, PutInBehind
    <3> QED BY <2>2, <2>3, <3>2, <3>5
  <2> HIDE DEF From, r
  <2> QED BY <2>9, <2>10, <2>11, <2>12
<1>9. \A s \in SUBSET Prices : s \in T
  <2>1. IsFiniteSet(Prices)
    BY PricesFacts
  <2> HIDE DEF T
  <2> QED BY <1>7, <1>8, <2>1, SubsetInduction
<1>10. PutIn(f[Prices], g[Prices], o)
  BY <1>1, <1>9
<1>11. g[Prices] = Engine!Insert(f[Prices], o)
  BY <1>10, PutInIsInsert
<1> QED BY <1>4, <1>5, <1>11 DEF side

\* The elements behind index k.
LEMMA FromIndex ==
    ASSUME NEW A, NEW s \in Seq(A), NEW k \in 0..Len(s)
    PROVE  LET c == SubSeq(s, k + 1, Len(s))
           IN  c \in Seq(A) /\ Len(c) = Len(s) - k /\ \A i \in 1..(Len(s) - k) : c[i] = s[k + i]
<1> DEFINE l == k + 1
           m == Len(s)
           c == SubSeq(s, l, m)
<1>1. l \in 1..(Len(s) + 1) /\ m \in 0..Len(s) /\ m \in Nat /\ k \in 0..m /\ l = k + 1 /\ Len(s) = m
  OBVIOUS
<1> HIDE DEF l, m
<1>2. c \in Seq(A)
  BY <1>1, SubSeqProperties
<1>3. Len(c) = IF l <= m THEN m - l + 1 ELSE 0
  BY <1>1, SubSeqProperties
<1>4. \A i \in 1..(m - l + 1) : c[i] = s[l + i - 1]
  BY <1>1, SubSeqProperties
<1> HIDE DEF c
<1>5. Len(c) = m - k
  BY <1>1, <1>3
<1>6. ASSUME NEW i \in 1..(m - k) PROVE c[i] = s[k + i]
  <2>1. i \in 1..(m - l + 1) /\ l + i - 1 = k + i
    BY <1>1
  <2>2. c[i] = s[l + i - 1]
    BY <1>4, <2>1
  <2> QED BY <2>1, <2>2
<1> QED BY <1>2, <1>5, <1>6 DEF c, l, m

\* The elements of a concatenation.
LEMMA CatAt ==
    ASSUME NEW A, NEW s \in Seq(A), NEW t \in Seq(A), NEW u, u = s \o t
    PROVE  /\ u \in Seq(A) /\ Len(u) = Len(s) + Len(t)
           /\ \A i \in 1..Len(s) : u[i] = s[i]
           /\ \A i \in 1..Len(t) : u[Len(s) + i] = t[i]
<1>1. u \in Seq(A) /\ Len(u) = Len(s) + Len(t)
  OBVIOUS
<1>2. /\ \A i \in 1..Len(s) : (s \o t)[i] = s[i]
      /\ \A i \in 1..Len(t) : (s \o t)[Len(s) + i] = t[i]
  BY ConcatProperties
<1> QED BY <1>1, <1>2

\* A sequence around its element k,
LEMMA SplitAt ==
    ASSUME NEW A, NEW s \in Seq(A), NEW k \in 1..Len(s)
    PROVE  s = SubSeq(s, 1, k - 1) \o (<<s[k]>> \o SubSeq(s, k + 1, Len(s)))
<1> DEFINE a == SubSeq(s, 1, k - 1)
           c == SubSeq(s, k + 1, Len(s))
           one == <<s[k]>>
           rc == one \o c
           u == a \o rc
           n == Len(s)
<1>0. n \in Nat /\ k \in 1..n /\ Len(s) = n /\ s[k] \in A
  BY SeqFacts
<1>1. a \in Seq(A)
  BY PartFacts
<1>2. Len(a) = k - 1 /\ \A i \in 1..(k - 1) : a[i] = s[i]
  <2>1. 1 \in 1..(Len(s) + 1) /\ k - 1 \in 0..Len(s) /\ k \in Nat
    BY <1>0
  <2> QED BY <2>1, SubSeqProperties
<1>3. c \in Seq(A) /\ Len(c) = n - k /\ \A i \in 1..(n - k) : c[i] = s[k + i]
  <2>1. k \in 0..Len(s)
    OBVIOUS
  <2> QED BY <2>1, FromIndex
<1>4. one \in Seq(A) /\ Len(one) = 1 /\ one[1] = s[k]
  BY <1>0
<1>4a. rc = one \o c /\ u = a \o rc
  OBVIOUS
<1>4b. a \in Seq(A) /\ c \in Seq(A) /\ one \in Seq(A)
  BY <1>1, <1>3, <1>4
<1> HIDE DEF a, c, one, n, rc, u
<1>5. /\ rc \in Seq(A) /\ Len(rc) = Len(one) + Len(c)
      /\ \A i \in 1..Len(one) : rc[i] = one[i]
      /\ \A i \in 1..Len(c) : rc[Len(one) + i] = c[i]
  BY <1>4a, <1>4b, CatAt
<1>6. /\ u \in Seq(A) /\ Len(u) = Len(a) + Len(rc)
      /\ \A i \in 1..Len(a) : u[i] = a[i]
      /\ \A i \in 1..Len(rc) : u[Len(a) + i] = rc[i]
  BY <1>4a, <1>4b, <1>5, CatAt
<1>7. Len(rc) = n - k + 1 /\ Len(u) = n
  BY <1>0, <1>2, <1>3, <1>4, <1>5, <1>6
<1>8. ASSUME NEW i \in 1..n PROVE u[i] = s[i]
  <2>1. CASE i < k
    <3>1. i \in 1..(k - 1) /\ i \in 1..Len(a)
      BY <1>0, <1>2, <2>1
    <3> QED BY <1>2, <1>6, <3>1
  <2>2. CASE i = k
    <3>1. 1 \in 1..Len(rc) /\ Len(a) + 1 = i /\ 1 \in 1..Len(one)
      BY <1>0, <1>2, <1>4, <1>7, <2>2
    <3>2. u[i] = rc[1] /\ rc[1] = one[1]
      BY <1>5, <1>6, <3>1
    <3> QED BY <1>4, <2>2, <3>2
  <2>3. CASE i > k
    <3> DEFINE l == i - k
               j == Len(one) + l
    <3>1. l \in 1..Len(c) /\ l \in 1..(n - k) /\ i = k + l /\ j \in 1..Len(rc) /\ Len(a) + j = i
      BY <1>0, <1>2, <1>3, <1>4, <1>7, <2>3
    <3> HIDE DEF l
    <3>2. rc[j] = c[l]
      BY <1>5, <3>1
    <3> HIDE DEF j
    <3>3. u[i] = rc[j]
      BY <1>6, <3>1
    <3>4. c[l] = s[i]
      BY <1>3, <3>1
    <3> QED BY <3>2, <3>3, <3>4
  <2> QED BY <1>0, <2>1, <2>2, <2>3
<1>9. u = s
  BY <1>0, <1>6, <1>7, <1>8, SeqEqual
<1> QED BY <1>9 DEF u, rc, one, a, c

\* Removing the first order with an id from distinct orders leaves those
\* without it.
LEMMA RemoveIsWithout ==
    ASSUME NEW s \in Seq(OrderSet), Distinct(s), NEW id
    PROVE  Engine!RemoveFirstMatch(s, LAMBDA ro : ro.id = id) = Without(s, id)
<1> DEFINE J == {i \in 1..Len(s) : s[i].id = id}
           gone == Engine!RemoveFirstMatch(s, LAMBDA ro : ro.id = id)
           k == Min(J)
           kept == {x \in OrderSet : x.id # id}
<1>0. Len(s) \in Nat /\ DOMAIN s = 1..Len(s) /\ \A i \in 1..Len(s) : s[i] \in OrderSet
  BY SeqFacts
<1>1. J = {} => gone = s
  BY DEF Engine!RemoveFirstMatch
<1>2. J # {} => gone = SubSeq(s, 1, k - 1) \o SubSeq(s, k + 1, Len(s))
  BY DEF Engine!RemoveFirstMatch, Engine!RemoveAt, Engine!SelectInSeq, Engine!Min, Min
<1> HIDE DEF gone
<1>3. CASE J = {}
  <2>1. ToSet(s) \subseteq kept
    BY <1>0, <1>3 DEF ToSet
  <2>2. Only(s, kept) = s
    <3> HIDE DEF kept
    <3> QED BY <2>1, OnlyAll
  <2> QED BY <1>1, <1>3, <2>2 DEF Without, gone
<1>4. CASE J # {}
  <2>1. k \in J
    <3>1. IsFiniteSet(1..Len(s)) /\ J \subseteq 1..Len(s) /\ J \in SUBSET Int
      BY <1>0, FS_Interval
    <3>2. IsFiniteSet(J)
      BY <3>1, FS_Subset
    <3> HIDE DEF J
    <3> QED BY <1>4, <3>1, <3>2, MaxMinIn
  <2> HIDE DEF k
  <2>2. k \in 1..Len(s) /\ s[k].id = id /\ s[k] \in OrderSet
    BY <1>0, <2>1
  <2> DEFINE a == SubSeq(s, 1, k - 1)
             c == SubSeq(s, k + 1, Len(s))
             r == s[k]
  <2>3. a \in Seq(OrderSet) /\ c \in Seq(OrderSet)
    BY <2>2, PartFacts
  <2>4. s = a \o (<<r>> \o c)
    BY <2>2, SplitAt
  <2>5. gone = a \o c
    BY <1>2, <1>4
  <2> HIDE DEF a, c, r
  <2>6. Without(a \o (<<r>> \o c), r.id) = a \o c
    <3>1. Distinct(a \o (<<r>> \o c)) /\ r \in OrderSet
      BY <2>2, <2>4 DEF r
    <3> QED BY <2>3, <3>1, WithoutOne
  <2> QED BY <2>2, <2>4, <2>5, <2>6 DEF gone, r
<1> QED BY <1>3, <1>4

\* and in front of it.
LEMMA CutAt ==
    ASSUME NEW A, NEW s \in Seq(A), NEW k \in 1..Len(s)
    PROVE  s = SubSeq(s, 1, k - 1) \o SubSeq(s, k, Len(s))
<1> DEFINE a == SubSeq(s, 1, k - 1)
           c == SubSeq(s, k, Len(s))
           u == a \o c
           n == Len(s)
           h == k - 1
<1>0. n \in Nat /\ k \in 1..n /\ Len(s) = n
  BY SeqFacts
<1>1. a \in Seq(A) /\ c \in Seq(A)
  BY PartFacts
<1>2. Len(a) = h /\ \A i \in 1..h : a[i] = s[i]
  <2>1. 1 \in 1..(Len(s) + 1) /\ k - 1 \in 0..Len(s) /\ k \in Nat
    BY <1>0
  <2> QED BY <2>1, SubSeqProperties
<1>3. h \in 0..n /\ h + 1 = k
  BY <1>0
<1>4. Len(c) = n - h /\ \A i \in 1..(n - h) : c[i] = s[h + i]
  <2> HIDE DEF h
  <2>1. LET d == SubSeq(s, h + 1, Len(s))
        IN  Len(d) = Len(s) - h /\ \A i \in 1..(Len(s) - h) : d[i] = s[h + i]
    BY <1>3, FromIndex
  <2> QED BY <1>3, <2>1
<1>4a. u = a \o c
  OBVIOUS
<1> HIDE DEF a, c, n, u, h
<1>5. /\ u \in Seq(A) /\ Len(u) = Len(a) + Len(c)
      /\ \A i \in 1..Len(a) : u[i] = a[i]
      /\ \A i \in 1..Len(c) : u[Len(a) + i] = c[i]
  BY <1>1, <1>4a, CatAt
<1>6. Len(u) = n
  BY <1>0, <1>2, <1>3, <1>4, <1>5
<1>7. ASSUME NEW i \in 1..n PROVE u[i] = s[i]
  <2>1. CASE i <= h
    BY <1>0, <1>2, <1>3, <1>5, <2>1
  <2>2. CASE i > h
    <3> DEFINE l == i - h
    <3>1. l \in 1..(n - h) /\ l \in 1..Len(c) /\ i = h + l /\ i = Len(a) + l
      BY <1>0, <1>2, <1>3, <1>4, <2>2
    <3> HIDE DEF l
    <3>2. u[i] = c[l]
      BY <1>5, <3>1
    <3>3. c[l] = s[i]
      BY <1>4, <3>1
    <3> QED BY <3>2, <3>3
  <2> QED BY <1>0, <1>3, <2>1, <2>2
<1>8. u = s
  BY <1>0, <1>5, <1>6, <1>7, SeqEqual
<1> QED BY <1>8 DEF u, a, c

\* Insert puts the order somewhere into the slice.
LEMMA InsertShape ==
    ASSUME NEW s \in Seq(OrderSet), NEW o \in OrderSet
    PROVE  \E a, b \in Seq(OrderSet) : s = a \o b /\ Engine!Insert(s, o) = a \o (<<o>> \o b)
<1> DEFINE J == {i \in 1..Len(s) : IF o.side = "buy" THEN o.price > s[i].price
                                                     ELSE o.price < s[i].price}
           k == Min(J)
           one == <<o>>
<1>0. Len(s) \in Nat
  BY SeqFacts
<1>1. Engine!Insert(s, o) =
        IF (IF J # {} THEN Min(J) ELSE 0) = 0 THEN Append(s, o)
        ELSE SubSeq(s, 1, (IF J # {} THEN Min(J) ELSE 0) - 1) \o <<o>>
             \o SubSeq(s, IF J # {} THEN Min(J) ELSE 0, Len(s))
  BY DEF Engine!Insert, Engine!SelectInSeq, Engine!InsertAt, Engine!Min, Min
<1>2. one \in Seq(OrderSet)
  OBVIOUS
<1>3. CASE J = {}
  <2> DEFINE e == <<>>
  <2>1. Engine!Insert(s, o) = Append(s, o)
    BY <1>1, <1>3
  <2>2. Append(s, o) = s \o one
    BY AppendIsCat
  <2>3. e \in Seq(OrderSet)
    OBVIOUS
  <2> HIDE DEF one
  <2>4. s = s \o e /\ one \o e = one
    BY <1>2, CatEmpty
  <2> HIDE DEF e
  <2>5. Engine!Insert(s, o) = s \o (one \o e)
    BY <2>1, <2>2, <2>4
  <2> QED BY <2>3, <2>4, <2>5 DEF one
<1>4. CASE J # {}
  <2>1. k \in J
    <3>1. IsFiniteSet(1..Len(s)) /\ J \subseteq 1..Len(s) /\ J \in SUBSET Int
      BY <1>0, FS_Interval
    <3>2. IsFiniteSet(J)
      BY <3>1, FS_Subset
    <3> HIDE DEF J
    <3> QED BY <1>4, <3>1, <3>2, MaxMinIn
  <2>2. k \in 1..Len(s) /\ k # 0
    BY <1>0, <2>1
  <2> DEFINE a == SubSeq(s, 1, k - 1)
             b == SubSeq(s, k, Len(s))
  <2>3. Engine!Insert(s, o) = a \o one \o b
    BY <1>1, <1>4, <2>2
  <2> HIDE DEF k, one
  <2>4. a \in Seq(OrderSet) /\ b \in Seq(OrderSet)
    BY <2>2, PartFacts
  <2>5. s = a \o b
    BY <2>2, CutAt
  <2> HIDE DEF a, b
  <2>6. (a \o one) \o b = a \o (one \o b)
    BY <1>2, <2>4, CatAssoc
  <2> QED BY <2>3, <2>4, <2>5, <2>6 DEF one
<1> QED BY <1>3, <1>4

\* Insert adds one id.
LEMMA InsertIds ==
    ASSUME NEW s \in Seq(OrderSet), NEW o \in OrderSet, Distinct(s), o.id \notin IdsOf(s)
    PROVE  Distinct(Engine!Insert(s, o)) /\ IdsOf(Engine!Insert(s, o)) = IdsOf(s) \cup {o.id}
<1> DEFINE one == <<o>>
<1>1. PICK a \in Seq(OrderSet), b \in Seq(OrderSet) :
         s = a \o b /\ Engine!Insert(s, o) = a \o (<<o>> \o b)
  BY InsertShape
<1>2. one \in Seq(OrderSet) /\ IdsOf(one) = {o.id} /\ Distinct(one)
  BY OneFacts
<1> DEFINE ob == one \o b
<1> HIDE DEF one
<1>3. ob \in Seq(OrderSet)
  BY <1>2
<1>4. /\ IdsOf(ob) = IdsOf(one) \cup IdsOf(b)
      /\ Distinct(ob) <=> Distinct(one) /\ Distinct(b) /\ IdsOf(one) \cap IdsOf(b) = {}
  BY <1>2, IdsConcat, DistinctConcat
<1> HIDE DEF ob
<1>5. /\ IdsOf(a \o b) = IdsOf(a) \cup IdsOf(b)
      /\ IdsOf(a \o ob) = IdsOf(a) \cup IdsOf(ob)
  BY <1>3, IdsConcat
<1>6. /\ Distinct(a \o b) <=> Distinct(a) /\ Distinct(b) /\ IdsOf(a) \cap IdsOf(b) = {}
      /\ Distinct(a \o ob) <=> Distinct(a) /\ Distinct(ob) /\ IdsOf(a) \cap IdsOf(ob) = {}
  BY <1>3, DistinctConcat
<1>7. Engine!Insert(s, o) = a \o ob
  BY <1>1 DEF ob, one
<1>8. Distinct(a \o ob)
  BY <1>1, <1>2, <1>4, <1>5, <1>6
<1>9. IdsOf(a \o ob) = IdsOf(s) \cup {o.id}
  BY <1>1, <1>2, <1>4, <1>5
<1> QED BY <1>7, <1>8, <1>9

\* Only keeps ids distinct.
LEMMA OnlyDistinct ==
    ASSUME NEW s \in Seq(OrderSet), NEW kept, Distinct(s)
    PROVE  Within(Only(s, kept), s)
<1> DEFINE Good(u) == Distinct(u) => Distinct(Only(u, kept))
           T == {u \in Seq(OrderSet) : Good(u)}
<1>1. <<>> \in T
  BY OnlyEmpty
<1>2. ASSUME NEW u \in Seq(OrderSet), NEW x \in OrderSet, u \in T PROVE Append(u, x) \in T
  <2> DEFINE ux == Append(u, x)
             one == <<x>>
             ku == Only(u, kept)
  <2>1. ux \in Seq(OrderSet) /\ ux = u \o one
    BY AppendIsCat
  <2>2. one \in Seq(OrderSet) /\ IdsOf(one) = {x.id} /\ Distinct(one)
    BY OneFacts
  <2>3. ku \in Seq(OrderSet) /\ ToSet(ku) \subseteq ToSet(u)
    BY OnlyFacts
  <2>4. Only(ux, kept) = IF x \in kept THEN Append(ku, x) ELSE ku
    BY OnlyAppend
  <2> HIDE DEF ku
  <2>5. Append(ku, x) = ku \o one
    BY <2>3, AppendIsCat
  <2> HIDE DEF one, ux
  <2>6. Distinct(u \o one) <=> Distinct(u) /\ Distinct(one) /\ IdsOf(u) \cap IdsOf(one) = {}
    BY <2>2, DistinctConcat
  <2>7. Distinct(ku \o one) <=> Distinct(ku) /\ Distinct(one) /\ IdsOf(ku) \cap IdsOf(one) = {}
    BY <2>2, <2>3, DistinctConcat
  <2>8. IdsOf(ku) \subseteq IdsOf(u)
    BY <2>3 DEF IdsOf
  <2>9. Good(u)
    BY <1>2
  <2>10. Good(ux)
    BY <2>1, <2>2, <2>4, <2>5, <2>6, <2>7, <2>8, <2>9 DEF ku
  <2>11. ux \in T
    BY <2>1, <2>10
  <2> QED BY <2>11 DEF ux
<1>3. \A u \in Seq(OrderSet) : u \in T
  <2> HIDE DEF T
  <2> QED BY <1>1, <1>2, SeqsInduction
<1>4. Distinct(Only(s, kept))
  BY <1>3
<1>5. ToSet(Only(s, kept)) \subseteq ToSet(s)
  BY OnlyFacts
<1> QED BY <1>4, <1>5 DEF Within, IdsOf

-----------------------------------------------------------------------------
(* The two books agree.                                                    *)

\* The validator's book in the engine's form.
Form(v) == [buyOrders |-> Line(v.bids, "bids"), sellOrders |-> Line(v.asks, "asks")]

BookIds(b) == IdsOf(b.buyOrders) \cup IdsOf(b.sellOrders)

\* No two orders of the book have the same id.
Proper(b) == /\ Distinct(b.buyOrders) /\ Distinct(b.sellOrders)
             /\ IdsOf(b.buyOrders) \cap IdsOf(b.sellOrders) = {}

\* Form returns a book, with the validator's sides as its slices.
LEMMA FormFacts ==
    ASSUME NEW v \in Shards
    PROVE  /\ Form(v) \in BookSet
           /\ \A o \in OrderSet :
                /\ Form(v)[Engine!Against(o.side)] = Line(v[Opposite(o.side)], Opposite(o.side))
                /\ Form(v)[Engine!BookOf(o.side)] = Line(v[Own(o.side)], Own(o.side))
<1>1. v.bids \in Levels /\ v.asks \in Levels
  BY DEF Shards, Levels
<1>2. Line(v.bids, "bids") \in Seq(OrderSet) /\ Line(v.asks, "asks") \in Seq(OrderSet)
  BY <1>1, LineFacts
<1>3. Form(v) \in BookSet
  BY <1>2 DEF Form, BookSet
<1>4. ASSUME NEW o \in OrderSet
      PROVE  /\ Form(v)[Engine!Against(o.side)] = Line(v[Opposite(o.side)], Opposite(o.side))
             /\ Form(v)[Engine!BookOf(o.side)] = Line(v[Own(o.side)], Own(o.side))
  BY DEF Form, Engine!Against, Engine!BookOf, Opposite, Own, OrderSet
<1> QED BY <1>3, <1>4

\* A book is its two slices.
LEMMA BookEqual ==
    ASSUME NEW b \in BookSet, NEW c \in BookSet, NEW o \in OrderSet,
           b[Engine!Against(o.side)] = c[Engine!Against(o.side)],
           b[Engine!BookOf(o.side)] = c[Engine!BookOf(o.side)]
    PROVE  b = c
<1>1. b.buyOrders = c.buyOrders /\ b.sellOrders = c.sellOrders
  BY DEF Engine!Against, Engine!BookOf, OrderSet
<1> QED BY <1>1 DEF BookSet

\* The slices of a book.
LEMMA SliceFacts ==
    ASSUME NEW b \in BookSet, NEW o \in OrderSet
    PROVE  b[Engine!Against(o.side)] \in Seq(OrderSet) /\ b[Engine!BookOf(o.side)] \in Seq(OrderSet)
  BY DEF BookSet, Engine!Against, Engine!BookOf, OrderSet

\* Replacing one slice leaves the other,
LEMMA WithAgainst ==
    ASSUME NEW b \in BookSet, NEW o \in OrderSet, NEW s, NEW c,
           c = [b EXCEPT ![Engine!Against(o.side)] = s]
    PROVE  c[Engine!Against(o.side)] = s /\ c[Engine!BookOf(o.side)] = b[Engine!BookOf(o.side)]
  BY DEF BookSet, Engine!Against, Engine!BookOf, OrderSet

\* whichever it is.
LEMMA WithMine ==
    ASSUME NEW b \in BookSet, NEW o \in OrderSet, NEW s, NEW c,
           c = [b EXCEPT ![Engine!BookOf(o.side)] = s]
    PROVE  c[Engine!BookOf(o.side)] = s /\ c[Engine!Against(o.side)] = b[Engine!Against(o.side)]
  BY DEF BookSet, Engine!Against, Engine!BookOf, OrderSet

\* HandleOrder, slice by slice.
LEMMA HandleSlices ==
    ASSUME NEW b \in BookSet, NEW o \in OrderSet
    PROVE  LET r == Engine!HandleOrder(b, o)
               e == EngineSeq(o, b[Engine!Against(o.side)])
               rests == e.left > 0 /\ o.type = "limit"
           IN  /\ e \in EngineAccs
               /\ r.book \in BookSet /\ r.reports = e.reports
               /\ r.book[Engine!Against(o.side)] = e.orders
               /\ r.book[Engine!BookOf(o.side)] =
                    IF rests THEN Engine!Insert(b[Engine!BookOf(o.side)], [o EXCEPT !.qty = e.left])
                    ELSE b[Engine!BookOf(o.side)]
<1> DEFINE mine == Engine!BookOf(o.side)
           theirs == Engine!Against(o.side)
           e == EngineSeq(o, b[theirs])
           r == Engine!HandleOrder(b, o)
           matched == [b EXCEPT ![theirs] = e.orders]
           ins == Engine!Insert(matched[mine], [o EXCEPT !.qty = e.left])
           rested == [matched EXCEPT ![mine] = ins]
           next == IF e.left > 0 /\ o.type = "limit" THEN rested ELSE matched
<1>1. Engine!Match(b, o) = e /\ e \in EngineAccs
  BY MatchIsEngineSeq, EngineMatchFacts
<1>2. r = [book |-> next, reports |-> e.reports]
  <2> DEFINE m == Engine!Match(b, o)
             m2 == [b EXCEPT ![theirs] = m.orders]
             n2 == IF m.left > 0 /\ o.type = "limit"
                   THEN [m2 EXCEPT ![mine] = Engine!Insert(@, [o EXCEPT !.qty = m.left])]
                   ELSE m2
  <2>1. r = [book |-> n2, reports |-> m.reports]
    BY DEF Engine!HandleOrder
  <2>2. m = e
    BY <1>1
  <2> HIDE DEF m, e, r
  <2> QED BY <2>1, <2>2
<1>3. r.book \in BookSet
  BY HandleFacts
<1>4. matched[mine] = b[mine] /\ matched[theirs] = e.orders
  <2>1. matched = [b EXCEPT ![Engine!Against(o.side)] = e.orders]
    OBVIOUS
  <2> HIDE DEF e, matched
  <2> QED BY <2>1, WithAgainst
<1>5. matched \in BookSet
  <2>1. e.orders \in Seq(OrderSet)
    BY <1>1 DEF EngineAccs
  <2> HIDE DEF e
  <2> QED BY <2>1 DEF BookSet, Engine!Against
<1> HIDE DEF e, r, matched
<1>6. rested[mine] = ins /\ rested[theirs] = matched[theirs]
  <2>1. rested = [matched EXCEPT ![Engine!BookOf(o.side)] = ins]
    OBVIOUS
  <2> HIDE DEF ins, rested
  <2> QED BY <1>5, <2>1 DEF BookSet, Engine!Against, Engine!BookOf, OrderSet
<1>7. r.book = next /\ r.reports = e.reports
  BY <1>2
<1> HIDE DEF rested
<1> QED BY <1>1, <1>3, <1>4, <1>6, <1>7 DEF e, r

\* What becomes of the validator when an order is accepted.
Accept(v, o) == IF o.type = "limit" THEN matchLimitOrder(v, o) ELSE matchMarketOrder(v, o)

\* The validator's book after an accepted order is the engine's.
LEMMA OrderAgrees ==
    ASSUME NEW v, ShardInv(v), NEW o \in OrderSet, Proper(Form(v))
    PROVE  Form(Accept(v, o)) = Engine!HandleOrder(Form(v), o).book
<1> DEFINE side == Opposite(o.side)
           own == Own(o.side)
           theirs == Engine!Against(o.side)
           mine == Engine!BookOf(o.side)
           a == matchIncoming(v, o, o.type = "limit")
           S == Line(v[side], side)
           e == EngineSeq(o, S)
           rest == [o EXCEPT !.qty = e.left]
           w == Accept(v, o)
           r == Engine!HandleOrder(Form(v), o)
<1>1. v \in Shards /\ Placed(v)
  BY DEF ShardInv
<1>2. LevelsPlaced(v[side]) /\ LevelsPlaced(v[own]) /\ side \in Sides /\ own \in Sides /\ own # side
  BY <1>1, SideFacts DEF Placed, LevelsPlaced
<1>3. /\ Form(v) \in BookSet /\ Form(v)[theirs] = S /\ Form(v)[mine] = Line(v[own], own)
  BY <1>1, FormFacts
<1>4. Distinct(S)
  <2>1. Distinct(Form(v)[theirs])
    BY DEF Proper, Engine!Against
  <2> QED BY <1>3, <2>1
<1>5. a.left = e.left /\ Line(a.v[side], side) = e.orders
  BY <1>1, <1>2, <1>4, LoopsAgree
<1>6. a.v \in Shards /\ a.v[own] = v[own]
  BY <1>1, MatchFacts
<1>7. /\ e \in EngineAccs
      /\ r.book \in BookSet
      /\ r.book[theirs] = e.orders
      /\ r.book[mine] = IF e.left > 0 /\ o.type = "limit"
                        THEN Engine!Insert(Line(v[own], own), rest)
                        ELSE Line(v[own], own)
  <2> DEFINE f == Form(v)
  <2> HIDE DEF f
  <2>1. f \in BookSet /\ f[theirs] = S /\ f[mine] = Line(v[own], own)
    BY <1>3 DEF f
  <2> HIDE DEF S
  <2> QED BY <2>1, HandleSlices DEF f
<1>8. ShardInv(w)
  BY LimitInv, MatchInv DEF Accept, matchMarketOrder
<1>9. w = IF o.type = "limit" /\ a.left # 0 THEN addOrderToBook(a.v, [o EXCEPT !.qty = a.left])
          ELSE a.v
  BY DEF Accept, matchLimitOrder, matchMarketOrder
<1>10. e.left \in 0..MaxQty /\ MaxQty \in Nat
  BY <1>7, ValidatorAssumption DEF EngineAccs
<1>11. w \in Shards
  BY <1>8 DEF ShardInv
<1>12. Form(w) \in BookSet /\ Form(w)[theirs] = Line(w[side], side)
       /\ Form(w)[mine] = Line(w[own], own)
  BY <1>11, FormFacts
<1> HIDE DEF a, e, w, r, S
<1>13. CASE o.type = "limit" /\ a.left # 0
  <2> DEFINE old == a.v[own][rest.price]
             new == Append(old, rest)
  <2>1. rest \in OrderSet /\ rest.price = o.price /\ rest.side = o.side
    <3>1. e.left \in 1..MaxQty
      BY <1>5, <1>10, <1>13
    <3> QED BY <3>1 DEF OrderSet
  <2>2. w = WithLevel(a.v, own, rest.price, new)
    BY <1>5, <1>9, <1>13, <2>1 DEF addOrderToBook, WithLevel
  <2> HIDE DEF rest
  <2>3. a.v[own] \in Levels /\ rest.price \in Prices
    BY <1>2, <1>6, <2>1, BookFacts DEF Levels, OrderSet
  <2>3a. old \in Seq(OrderSet)
    BY <2>3 DEF Levels
  <2>4. new \in Seq(OrderSet)
    <3> HIDE DEF old
    <3> QED BY <2>1, <2>3a
  <2>5. w[own] = [a.v[own] EXCEPT ![rest.price] = new] /\ w[side] = a.v[side]
    <3> HIDE DEF new
    <3> QED BY <1>2, <1>6, <2>2, <2>3, <2>4, LevelFacts
  <2>6. Line(w[own], own) = Engine!Insert(Line(v[own], own), rest)
    <3> DEFINE levels == v[own]
               image == w[own]
    <3>1. levels \in Levels /\ LevelsPlaced(levels)
          /\ image = [levels EXCEPT ![rest.price] = Append(@, rest)]
      BY <1>2, <1>6, <2>3, <2>5
    <3> HIDE DEF levels, image
    <3>2. Line(image, Own(rest.side)) = Engine!Insert(Line(levels, Own(rest.side)), rest)
      BY <2>1, <3>1, RestLine
    <3> QED BY <2>1, <3>2 DEF levels, image
  <2>7. Form(w)[theirs] = r.book[theirs] /\ Form(w)[mine] = r.book[mine]
    <3>1. e.left > 0
      BY <1>5, <1>10, <1>13
    <3> QED BY <1>5, <1>7, <1>12, <1>13, <2>5, <2>6, <3>1
  <2>8. Form(w) = r.book
    BY <1>7, <1>12, <2>7, BookEqual
  <2> QED BY <2>8 DEF w, r
<1>14. CASE ~(o.type = "limit" /\ a.left # 0)
  <2>1. w = a.v
    BY <1>9, <1>14
  <2>2. ~(e.left > 0 /\ o.type = "limit")
    BY <1>5, <1>10, <1>14
  <2>3. Form(w)[theirs] = r.book[theirs] /\ Form(w)[mine] = r.book[mine]
    BY <1>5, <1>6, <1>7, <1>12, <2>1, <2>2
  <2>4. Form(w) = r.book
    BY <1>7, <1>12, <2>3, BookEqual
  <2> QED BY <2>4 DEF w, r
<1> QED BY <1>13, <1>14

\* The book without an order.
WithoutBook(b, id) ==
    [buyOrders |-> Without(b.buyOrders, id), sellOrders |-> Without(b.sellOrders, id)]

\* Without changes nothing when the id is not there.
LEMMA WithoutAbsent ==
    ASSUME NEW s \in Seq(OrderSet), NEW id, id \notin IdsOf(s) PROVE Without(s, id) = s
<1> DEFINE kept == {x \in OrderSet : x.id # id}
<1>1. \A x \in ToSet(s) : x \in OrderSet
  BY SeqFacts DEF ToSet
<1>2. ToSet(s) \subseteq kept
  BY <1>1 DEF IdsOf
<1> HIDE DEF kept
<1>3. Only(s, kept) = s
  BY <1>2, OnlyAll
<1> QED BY <1>3 DEF kept, Without

\* The search of HandleCancel finds the ids of the slice.
LEMMA RestsIn ==
    ASSUME NEW s \in Seq(OrderSet), NEW id
    PROVE  (\E i \in DOMAIN s : s[i].id = id) <=> id \in IdsOf(s)
  BY SeqFacts DEF IdsOf, ToSet

\* HandleCancel takes the order out of the slice it rests in.
LEMMA CancelBook ==
    ASSUME NEW b \in BookSet, Proper(b), NEW id \in Orders
    PROVE  LET r == Engine!HandleCancel(b, id)
           IN  /\ r.book = WithoutBook(b, id)
               /\ id \in BookIds(b) => r.reports = <<Engine!Ack(id, "cancelled")>>
               /\ id \notin BookIds(b) => r.book = b /\ r.reports = <<Engine!Ack(id, "rejected")>>
<1> DEFINE r == Engine!HandleCancel(b, id)
           buys == b.buyOrders
           sells == b.sellOrders
           nb == Engine!RemoveFirstMatch(b["buyOrders"], LAMBDA ro : ro.id = id)
           ns == Engine!RemoveFirstMatch(b["sellOrders"], LAMBDA ro : ro.id = id)
<1>1. buys \in Seq(OrderSet) /\ sells \in Seq(OrderSet) /\ Distinct(buys) /\ Distinct(sells)
      /\ IdsOf(buys) \cap IdsOf(sells) = {} /\ b = [buyOrders |-> buys, sellOrders |-> sells]
  BY DEF BookSet, Proper
<1>2. nb = Without(buys, id) /\ ns = Without(sells, id)
  BY <1>1, RemoveIsWithout
<1>3. r = IF \E i \in DOMAIN b["buyOrders"] : b["buyOrders"][i].id = id
          THEN [book |-> [b EXCEPT !["buyOrders"] = nb], reports |-> <<Engine!Ack(id, "cancelled")>>]
          ELSE IF \E i \in DOMAIN b["sellOrders"] : b["sellOrders"][i].id = id
          THEN [book |-> [b EXCEPT !["sellOrders"] = ns], reports |-> <<Engine!Ack(id, "cancelled")>>]
          ELSE [book |-> b, reports |-> <<Engine!Ack(id, "rejected")>>]
  BY DEF Engine!HandleCancel
<1> HIDE DEF r, nb, ns
<1>4. (\E i \in DOMAIN buys : buys[i].id = id) <=> id \in IdsOf(buys)
  BY <1>1, RestsIn
<1>5. (\E i \in DOMAIN sells : sells[i].id = id) <=> id \in IdsOf(sells)
  BY <1>1, RestsIn
<1>6. /\ id \notin IdsOf(buys) => Without(buys, id) = buys
      /\ id \notin IdsOf(sells) => Without(sells, id) = sells
  BY <1>1, WithoutAbsent
<1>7. CASE id \in IdsOf(buys)
  <2>1. r = [book |-> [b EXCEPT !["buyOrders"] = nb], reports |-> <<Engine!Ack(id, "cancelled")>>]
    BY <1>3, <1>4, <1>7
  <2>2. id \notin IdsOf(sells)
    BY <1>1, <1>7
  <2>3. r.book = [buyOrders |-> nb, sellOrders |-> sells]
    BY <1>1, <2>1
  <2> QED BY <1>2, <1>6, <1>7, <2>1, <2>2, <2>3 DEF WithoutBook, BookIds, r
<1>8. CASE id \notin IdsOf(buys) /\ id \in IdsOf(sells)
  <2>1. r = [book |-> [b EXCEPT !["sellOrders"] = ns], reports |-> <<Engine!Ack(id, "cancelled")>>]
    BY <1>3, <1>4, <1>5, <1>8
  <2>3. r.book = [buyOrders |-> buys, sellOrders |-> ns]
    BY <1>1, <2>1
  <2> QED BY <1>2, <1>6, <1>8, <2>1, <2>3 DEF WithoutBook, BookIds, r
<1>9. CASE id \notin IdsOf(buys) /\ id \notin IdsOf(sells)
  <2>1. r = [book |-> b, reports |-> <<Engine!Ack(id, "rejected")>>]
    BY <1>3, <1>4, <1>5, <1>9
  <2> QED BY <1>1, <1>6, <1>9, <2>1 DEF WithoutBook, BookIds, r
<1> QED BY <1>7, <1>8, <1>9

\* Taking an order out keeps a book proper.
LEMMA WithoutProper ==
    ASSUME NEW b \in BookSet, Proper(b), NEW id
    PROVE  /\ WithoutBook(b, id) \in BookSet /\ Proper(WithoutBook(b, id))
           /\ BookIds(WithoutBook(b, id)) \subseteq BookIds(b)
<1> DEFINE kept == {x \in OrderSet : x.id # id}
<1>1. b.buyOrders \in Seq(OrderSet) /\ b.sellOrders \in Seq(OrderSet)
  BY DEF BookSet
<1> HIDE DEF kept
<1>2. Within(Only(b.buyOrders, kept), b.buyOrders) /\ Within(Only(b.sellOrders, kept), b.sellOrders)
  BY <1>1, OnlyDistinct DEF Proper
<1>3. Within(Without(b.buyOrders, id), b.buyOrders) /\ Within(Without(b.sellOrders, id), b.sellOrders)
  BY <1>2 DEF Without, kept
<1>4. Without(b.buyOrders, id) \in Seq(OrderSet) /\ Without(b.sellOrders, id) \in Seq(OrderSet)
  BY <1>1, WithoutFacts
<1> QED BY <1>3, <1>4 DEF WithoutBook, BookSet, Proper, BookIds, Within

\* The validator takes a cancelled order out of its book.
LEMMA CancelAgrees ==
    ASSUME NEW v \in Shards, NEW id \in Orders
    PROVE  Form(removeRestingOrder(v, id)) = WithoutBook(Form(v), id)
<1> DEFINE kept == {x \in OrderSet : x.id # id}
           F == [s \in Seq(OrderSet) |-> Only(s, kept)]
           w == removeRestingOrder(v, id)
<1>1. v.bids \in Levels /\ v.asks \in Levels
  BY DEF Shards, Levels
<1>2. IsHom(F)
  <2> HIDE DEF kept
  <2> QED BY OnlyHom
<1>3. ASSUME NEW levels \in Levels, NEW side, NEW image,
             image = [p \in Prices |-> Without(levels[p], id)]
      PROVE  Line(image, side) = Without(Line(levels, side), id)
  <2>1. \A p \in Prices : levels[p] \in Seq(OrderSet)
    BY DEF Levels
  <2>2. \A p \in Prices : Without(levels[p], id) \in Seq(OrderSet)
    BY <2>1, WithoutFacts
  <2>3. image \in Levels
    BY <1>3, <2>2 DEF Levels
  <2>4. \A p \in Prices : image[p] = F[levels[p]]
    BY <1>3, <2>1 DEF Without
  <2>5. Line(levels, side) \in Seq(OrderSet)
    BY LineFacts
  <2>6. F[Line(levels, side)] = Without(Line(levels, side), id)
    BY <2>5 DEF Without
  <2> HIDE DEF F
  <2>7. Line(image, side) = F[Line(levels, side)]
    BY <1>2, <2>3, <2>4, HomLine
  <2> QED BY <2>6, <2>7
<1>4. /\ w.bids = [p \in Prices |-> Without(v.bids[p], id)]
      /\ w.asks = [p \in Prices |-> Without(v.asks[p], id)]
  BY DEF removeRestingOrder, Shards
<1> HIDE DEF w, F
<1>5. Line(w.bids, "bids") = Without(Line(v.bids, "bids"), id)
  BY <1>1, <1>3, <1>4
<1>6. Line(w.asks, "asks") = Without(Line(v.asks, "asks"), id)
  BY <1>1, <1>3, <1>4
<1> QED BY <1>5, <1>6 DEF Form, WithoutBook, w

\* Proper and BookIds, seen from an order.
LEMMA ProperSlices ==
    ASSUME NEW b \in BookSet, NEW o \in OrderSet
    PROVE  LET s == b[Engine!Against(o.side)]
               t == b[Engine!BookOf(o.side)]
           IN  /\ Proper(b) <=> Distinct(s) /\ Distinct(t) /\ IdsOf(s) \cap IdsOf(t) = {}
               /\ BookIds(b) = IdsOf(s) \cup IdsOf(t)
  BY DEF Proper, BookIds, Engine!Against, Engine!BookOf, OrderSet

\* HandleOrder keeps the ids of a book distinct, and adds at most the order's own.
LEMMA HandleKeeps ==
    ASSUME NEW b \in BookSet, Proper(b), NEW o \in OrderSet, o.id \notin BookIds(b)
    PROVE  LET c == Engine!HandleOrder(b, o).book
           IN  Proper(c) /\ BookIds(c) \subseteq BookIds(b) \cup {o.id}
<1> DEFINE s == b[Engine!Against(o.side)]
           t == b[Engine!BookOf(o.side)]
           e == EngineSeq(o, s)
           c == Engine!HandleOrder(b, o).book
           cs == c[Engine!Against(o.side)]
           ct == c[Engine!BookOf(o.side)]
           rest == [o EXCEPT !.qty = e.left]
<1>1. s \in Seq(OrderSet) /\ t \in Seq(OrderSet)
  BY SliceFacts
<1>2. Distinct(s) /\ Distinct(t) /\ IdsOf(s) \cap IdsOf(t) = {} /\ BookIds(b) = IdsOf(s) \cup IdsOf(t)
  BY ProperSlices
<1>3. /\ e \in EngineAccs /\ c \in BookSet /\ cs = e.orders
      /\ ct = IF e.left > 0 /\ o.type = "limit" THEN Engine!Insert(t, rest) ELSE t
  BY HandleSlices
<1>4. Within(e.orders, s)
  <2> HIDE DEF s, e
  <2>1. \A u \in Seq(OrderSet) : u = <<>> /\ Distinct(s \o u) => Within(EngineSeq(o, s).orders \o u, s \o u)
    BY <1>1, EngineKeeps
  <2>2. <<>> \in Seq(OrderSet)
    OBVIOUS
  <2>3. s \o <<>> = s
    BY <1>1, CatEmpty
  <2>4. EngineSeq(o, s).orders \o <<>> = EngineSeq(o, s).orders
    BY <1>3, CatEmpty DEF EngineAccs, e
  <2> QED BY <1>2, <2>1, <2>2, <2>3, <2>4 DEF e
<1>5. Distinct(ct) /\ IdsOf(ct) \subseteq IdsOf(t) \cup {o.id}
  <2>1. CASE e.left > 0 /\ o.type = "limit"
    <3>1. e.left \in 1..MaxQty
      BY <1>3, <2>1, ValidatorAssumption DEF EngineAccs
    <3> HIDE DEF s, e, t
    <3>2. rest \in OrderSet /\ rest.id = o.id
      BY <3>1 DEF OrderSet
    <3>3. ct = Engine!Insert(t, rest)
      BY <1>3, <2>1
    <3>4. rest.id \notin IdsOf(t)
      BY <1>2, <3>2
    <3> HIDE DEF rest
    <3>5. Distinct(Engine!Insert(t, rest)) /\ IdsOf(Engine!Insert(t, rest)) = IdsOf(t) \cup {rest.id}
      BY <1>1, <1>2, <3>2, <3>4, InsertIds
    <3> QED BY <3>2, <3>3, <3>5
  <2>2. CASE ~(e.left > 0 /\ o.type = "limit")
    BY <1>2, <1>3, <2>2
  <2> QED BY <2>1, <2>2
<1>6. Distinct(cs) /\ IdsOf(cs) \subseteq IdsOf(s)
  BY <1>3, <1>4 DEF Within
<1>7. IdsOf(cs) \cap IdsOf(ct) = {}
  <2> HIDE DEF s, t, cs, ct
  <2> QED BY <1>2, <1>5, <1>6
<1>8. Proper(c) /\ BookIds(c) = IdsOf(cs) \cup IdsOf(ct)
  <2> HIDE DEF c
  <2> QED BY <1>3, <1>5, <1>6, <1>7, ProperSlices
<1> HIDE DEF s, t, cs, ct
<1> QED BY <1>2, <1>5, <1>6, <1>8

\* The reports on an order: its acknowledgement, then fills of it and of ids.
Answers(rs, id, ids) ==
    /\ rs \in Seq(ReportSet) /\ Len(rs) \in Nat /\ Len(rs) >= 1
    /\ rs[1].order = id /\ rs[1].status = "accepted"
    /\ \A i \in 2..Len(rs) : rs[i].status = "filled" /\ rs[i].order \in ids \cup {id}

\* Two more fills.
LEMMA AnswersMore ==
    ASSUME NEW rs, NEW id \in Orders, NEW ids, NEW more, NEW x \in ReportSet, NEW y \in ReportSet,
           Answers(rs, id, ids), ids \subseteq more,
           x.status = "filled", y.status = "filled", x.order = id, y.order \in more
    PROVE  Answers(rs \o <<x, y>>, id, more)
<1> DEFINE t == <<x, y>>
           u == rs \o t
<1>0. t \in Seq(ReportSet)
  OBVIOUS
<1>1. Len(t) = 2 /\ t[1] = x /\ t[2] = y
  OBVIOUS
<1>2. rs \in Seq(ReportSet)
  BY DEF Answers
<1> HIDE DEF t
<1>2a. u = rs \o t
  OBVIOUS
<1> HIDE DEF u
<1>3. /\ u \in Seq(ReportSet) /\ Len(u) = Len(rs) + Len(t)
      /\ \A i \in 1..Len(rs) : u[i] = rs[i]
      /\ \A i \in 1..Len(t) : u[Len(rs) + i] = t[i]
  BY <1>0, <1>2, <1>2a, CatAt
<1>4. u[Len(rs) + 1] = x /\ u[Len(rs) + 2] = y
  BY <1>1, <1>3
<1>5. ASSUME NEW i \in 2..Len(u) PROVE u[i].status = "filled" /\ u[i].order \in more \cup {id}
  <2>1. i \in 2..Len(rs) \/ i = Len(rs) + 1 \/ i = Len(rs) + 2
    BY <1>1, <1>3 DEF Answers
  <2>2. CASE i \in 2..Len(rs)
    BY <1>3, <2>2 DEF Answers
  <2>3. CASE i \notin 2..Len(rs)
    BY <1>4, <2>1, <2>3
  <2> QED BY <2>2, <2>3
<1>6. Answers(u, id, more)
  BY <1>1, <1>3, <1>5 DEF Answers
<1> QED BY <1>6 DEF u, t

\* The engine's loop reports fills of the order and of the slice.
LEMMA EngineAnswers ==
    ASSUME NEW o \in OrderSet
    PROVE  \A s \in Seq(OrderSet) : Answers(EngineSeq(o, s).reports, o.id, IdsOf(s))
<1> DEFINE T == {s \in Seq(OrderSet) : Answers(EngineSeq(o, s).reports, o.id, IdsOf(s))}
<1>0. o.id \in Orders
  BY DEF OrderSet
<1>1. <<>> \in T
  <2>1. EngineSeq(o, <<>>) = EngineBase(o)
    BY EngineSeqEmpty
  <2> DEFINE a == Engine!Ack(o.id, "accepted")
             rs == <<a>>
  <2>2. a \in ReportSet
    BY <1>0 DEF Engine!Ack, ReportSet
  <2>3. a.order = o.id /\ a.status = "accepted"
    BY DEF Engine!Ack
  <2>4. EngineBase(o).reports = rs
    BY DEF EngineBase
  <2> HIDE DEF a
  <2>5. rs \in Seq(ReportSet) /\ Len(rs) = 1 /\ rs[1] = a
    BY <2>2
  <2> HIDE DEF rs
  <2>6. Answers(rs, o.id, IdsOf(<<>>))
    BY <2>3, <2>5 DEF Answers
  <2> QED BY <2>1, <2>4, <2>6
<1>2. ASSUME NEW s \in Seq(OrderSet), NEW r \in OrderSet, s \in T PROVE Append(s, r) \in T
  <2> DEFINE acc == EngineSeq(o, s)
             next == Engine!MatchNext(o, acc, r)
             q == Smallest(r.qty, acc.left)
             x == Engine!FillReport(o.id, q, r.price, r.id)
             y == Engine!FillReport(r.id, q, r.price, o.id)
             ids == IdsOf(s)
             more == IdsOf(Append(s, r))
  <2>1. acc \in EngineAccs /\ EngineSeq(o, Append(s, r)) = next
    BY EngineSeqAppend
  <2>2. Answers(acc.reports, o.id, ids)
    BY <1>2
  <2>3. more = ids \cup {r.id} /\ Append(s, r) \in Seq(OrderSet)
    <3>1. ToSet(Append(s, r)) = ToSet(s) \cup {r} /\ Append(s, r) \in Seq(OrderSet)
      BY ToSetAppend
    <3> QED BY <3>1 DEF IdsOf
  <2> HIDE DEF acc, ids, more
  <2>4. CASE acc.left = 0 \/ r \notin Makable(o)
    <3>1. next.reports = acc.reports
      BY <2>1, <2>4, MatchNextCases, ZenonT(60)
    <3>2. Answers(next.reports, o.id, more)
      BY <2>2, <2>3, <3>1 DEF Answers
    <3> HIDE DEF next
    <3> QED BY <2>1, <2>3, <3>2 DEF more
  <2>5. CASE acc.left # 0 /\ r \in Makable(o)
    <3>1. next.reports = acc.reports \o <<x, y>>
      BY <2>1, <2>5, MatchNextCases
    <3>1a. q \in 1..r.qty
      BY <2>1, <2>5, MatchNextCases
    <3> HIDE DEF q, x, y, next
    <3>1b. r.qty \in Nat /\ r.id \in Orders /\ r.price \in Prices
      BY DEF OrderSet
    <3>2. r.id \in Orders /\ r.price \in Nat /\ q \in Nat
      <4>1. q \in Nat
        BY <3>1a, <3>1b
      <4>2. r.price \in Nat
        BY <3>1b, PricesFacts
      <4> QED BY <3>1b, <4>1, <4>2
    <3> USE DEF x, y
    <3>3. x \in ReportSet /\ y \in ReportSet
      BY <1>0, <3>2, ReportFacts
    <3>4. x.status = "filled" /\ y.status = "filled" /\ x.order = o.id /\ y.order = r.id
      BY DEF Engine!FillReport
    <3> HIDE DEF x, y, next
    <3>5. Answers(acc.reports \o <<x, y>>, o.id, more)
      BY <1>0, <2>2, <2>3, <3>3, <3>4, AnswersMore
    <3> QED BY <2>1, <2>3, <3>1, <3>5 DEF more
  <2> QED BY <2>4, <2>5
<1> HIDE DEF T
<1>3. \A s \in Seq(OrderSet) : s \in T
  BY <1>1, <1>2, SeqsInduction
<1> QED BY <1>3 DEF T

\* What HandleOrder reports.
LEMMA HandleAnswers ==
    ASSUME NEW b \in BookSet, NEW o \in OrderSet
    PROVE  Answers(Engine!HandleOrder(b, o).reports, o.id, BookIds(b))
<1> DEFINE s == b[Engine!Against(o.side)]
           rs == Engine!HandleOrder(b, o).reports
<1>1. s \in Seq(OrderSet) /\ rs = EngineSeq(o, s).reports
  BY SliceFacts, HandleSlices
<1>2. IdsOf(s) \subseteq BookIds(b)
  BY ProperSlices
<1> HIDE DEF s, rs
<1>3. Answers(rs, o.id, IdsOf(s))
  BY <1>1, EngineAnswers
<1> QED BY <1>2, <1>3 DEF Answers, rs

-----------------------------------------------------------------------------
(* The quantities of fills.                                                *)

\* No fills, no quantity.
LEMMA QtyEmpty == Qty(<<>>) = 0
<1> DEFINE D == DOMAIN (<<>>)
           q == [i \in D |-> (<<>>)[i].qty]
           z == [i \in D |-> 0]
<1>1. D = {}
  OBVIOUS
<1>2. q = z
  BY <1>1
<1>3. IsFiniteSet(D)
  BY <1>1, FS_EmptySet
<1>4. SumFunction(z) = 0
  <2>1. z = [x \in D |-> 0]
    OBVIOUS
  <2> HIDE DEF z, D
  <2> QED BY <1>3, <2>1, SumZero
<1> QED BY <1>2, <1>4 DEF Qty

\* The summands of Qty.
Amounts(s) == [i \in DOMAIN s |-> s[i].qty]

\* The quantities of some fills, as a function.
LEMMA AmountFacts ==
    ASSUME NEW s \in Seq(FillSet)
    PROVE  /\ Len(s) \in Nat /\ DOMAIN s = 1..Len(s) /\ IsFiniteSet(1..Len(s))
           /\ Amounts(s) \in [1..Len(s) -> Nat]
           /\ \A i \in 1..Len(s) : Amounts(s)[i] = s[i].qty
           /\ Qty(s) = SumFunction(Amounts(s)) /\ Qty(s) \in Nat
<1>1. Len(s) \in Nat /\ DOMAIN s = 1..Len(s) /\ \A i \in 1..Len(s) : s[i] \in FillSet
  BY SeqFacts
<1>2. \A i \in 1..Len(s) : s[i].qty \in Nat
  BY <1>1 DEF FillSet
<1>3. Amounts(s) \in [1..Len(s) -> Nat] /\ \A i \in 1..Len(s) : Amounts(s)[i] = s[i].qty
  BY <1>1, <1>2 DEF Amounts
<1>4. Qty(s) = SumFunction(Amounts(s))
  BY DEF Qty, Amounts
<1> QED BY <1>1, <1>3, <1>4, FS_Interval, QtyNat

\* One more fill.
LEMMA QtyAppend ==
    ASSUME NEW s \in Seq(FillSet), NEW f \in FillSet
    PROVE  Append(s, f) \in Seq(FillSet) /\ Qty(Append(s, f)) = Qty(s) + f.qty
<1> DEFINE t == Append(s, f)
           n == Len(s)
           m == n + 1
           D == 1..n
           a == Amounts(s)
           b == Amounts(t)
<1>1. t \in Seq(FillSet) /\ Len(t) = m /\ t[m] = f /\ \A i \in 1..n : t[i] = s[i]
  OBVIOUS
<1> HIDE DEF t
<1>2. /\ n \in Nat /\ IsFiniteSet(D) /\ a \in [D -> Nat] /\ \A i \in D : a[i] = s[i].qty
      /\ Qty(s) = SumFunction(a)
  BY AmountFacts
<1>3. b \in [1..m -> Nat] /\ (\A i \in 1..m : b[i] = t[i].qty) /\ Qty(t) = SumFunction(b)
  BY <1>1, AmountFacts
<1>4. 1..m = D \cup {m} /\ m \notin D
  BY <1>2
<1>5. b \in [D \cup {m} -> Nat] /\ (\A i \in D : b[i] = a[i]) /\ b[m] = f.qty
  BY <1>1, <1>2, <1>3, <1>4
<1> HIDE DEF a, b, D, m, n
<1>6. SumFunction(b) = SumFunction(a) + b[m]
  <2>1. LongerBy(D, m, a, b)
    BY <1>2, <1>4, <1>5 DEF LongerBy
  <2> QED BY <2>1, SumMore
<1> QED BY <1>1, <1>2, <1>3, <1>5, <1>6 DEF t

\* One fill becomes larger.
LEMMA QtyLarger ==
    ASSUME NEW s \in Seq(FillSet), NEW k \in 1..Len(s), NEW x \in FillSet, NEW d \in Nat,
           x.qty = s[k].qty + d
    PROVE  [s EXCEPT ![k] = x] \in Seq(FillSet) /\ Qty([s EXCEPT ![k] = x]) = Qty(s) + d
<1> DEFINE t == [s EXCEPT ![k] = x]
           D == 1..Len(s)
           a == Amounts(s)
           b == Amounts(t)
<1>1. t \in Seq(FillSet) /\ Len(t) = Len(s) /\ t[k] = x /\ \A i \in D \ {k} : t[i] = s[i]
  OBVIOUS
<1> HIDE DEF t
<1>2. /\ Len(s) \in Nat /\ IsFiniteSet(D) /\ a \in [D -> Nat] /\ \A i \in D : a[i] = s[i].qty
      /\ Qty(s) = SumFunction(a)
  BY AmountFacts
<1>3. b \in [D -> Nat] /\ (\A i \in D : b[i] = t[i].qty) /\ Qty(t) = SumFunction(b)
  BY <1>1, AmountFacts
<1>4. k \in D /\ b[k] = a[k] + d /\ \A i \in D \ {k} : b[i] = a[i]
  BY <1>1, <1>2, <1>3
<1> HIDE DEF a, b, D
<1>5. SumFunction(b) = SumFunction(a) + d
  <2>1. LargerBy(D, k, d, a, b)
    BY <1>2, <1>3, <1>4 DEF LargerBy
  <2> QED BY <2>1, SumGrows
<1> QED BY <1>1, <1>2, <1>3, <1>5 DEF t

\* Two sequences of fills, one after the other.
LEMMA QtyConcat ==
    ASSUME NEW s \in Seq(FillSet), NEW t \in Seq(FillSet)
    PROVE  Qty(s \o t) = Qty(s) + Qty(t)
<1> DEFINE T == {u \in Seq(FillSet) : Qty(s \o u) = Qty(s) + Qty(u)}
<1>1. <<>> \in T
  <2> DEFINE e == <<>>
  <2>1. e \in Seq(FillSet) /\ Qty(e) = 0
    BY QtyEmpty
  <2>2. s \o e = s
    BY CatEmpty
  <2>3. Qty(s) \in Nat
    BY QtyNat
  <2> HIDE DEF e
  <2>4. Qty(s \o e) = Qty(s) + Qty(e)
    <3>1. Qty(s) = Qty(s) + 0
      BY <2>3
    <3> QED BY <2>1, <2>2, <3>1
  <2>5. e \in T
    BY <2>1, <2>4
  <2> QED BY <2>5 DEF e
<1>2. ASSUME NEW u \in Seq(FillSet), NEW f \in FillSet, u \in T PROVE Append(u, f) \in T
  <2> DEFINE su == s \o u
             uf == Append(u, f)
  <2>1. s \o uf = Append(su, f)
    BY CatThenAppend
  <2>2. su \in Seq(FillSet) /\ Qty(su) = Qty(s) + Qty(u)
    BY <1>2
  <2> HIDE DEF su
  <2>3. Qty(Append(su, f)) = Qty(su) + f.qty
    BY <2>2, QtyAppend
  <2>4. uf \in Seq(FillSet) /\ Qty(uf) = Qty(u) + f.qty
    BY QtyAppend
  <2>5. Qty(s) \in Nat /\ Qty(u) \in Nat /\ f.qty \in Nat
    BY QtyNat DEF FillSet
  <2> HIDE DEF uf
  <2>6. (Qty(s) + Qty(u)) + f.qty = Qty(s) + (Qty(u) + f.qty)
    BY <2>5
  <2>7. Qty(s \o uf) = Qty(s) + Qty(uf)
    BY <2>1, <2>2, <2>3, <2>4, <2>6
  <2>8. uf \in T
    BY <2>4, <2>7
  <2> QED BY <2>8 DEF uf
<1>3. \A u \in Seq(FillSet) : u \in T
  <2> HIDE DEF T
  <2> QED BY <1>1, <1>2, SeqsInduction
<1> QED BY <1>3

Positive(s) == \A i \in 1..Len(s) : s[i].qty >= 1

\* Fills of something have a quantity.
LEMMA QtyPositive ==
    ASSUME NEW s \in Seq(FillSet), Positive(s), Qty(s) = 0
    PROVE  s = <<>>
<1> DEFINE T == {u \in Seq(FillSet) : Positive(u) /\ Qty(u) = 0 => u = <<>>}
<1>1. <<>> \in T
  OBVIOUS
<1>2. ASSUME NEW u \in Seq(FillSet), NEW f \in FillSet, u \in T PROVE Append(u, f) \in T
  <2> DEFINE uf == Append(u, f)
  <2>1. Len(uf) = Len(u) + 1 /\ uf[Len(u) + 1] = f /\ Len(u) \in Nat
    OBVIOUS
  <2>2. uf \in Seq(FillSet) /\ Qty(uf) = Qty(u) + f.qty
    BY QtyAppend
  <2>3. Qty(u) \in Nat /\ f.qty \in Nat
    BY QtyNat DEF FillSet
  <2> HIDE DEF uf
  <2>4. Positive(uf) => f.qty >= 1
    BY <2>1 DEF Positive
  <2>5. uf \in T
    BY <2>2, <2>3, <2>4
  <2> QED BY <2>5 DEF uf
<1>3. \A u \in Seq(FillSet) : u \in T
  <2> HIDE DEF T
  <2> QED BY <1>1, <1>2, SeqsInduction
<1> QED BY <1>3

\* One step of foldPartials.
Folded(t, f) ==
    IF t # <<>> /\ Last(t).price = f.price /\ Last(t).with = f.with
    THEN [t EXCEPT ![Len(t)].qty = @ + f.qty]
    ELSE Append(t, f)

\* It adds the fill's quantity.
LEMMA FoldedFacts ==
    ASSUME NEW t \in Seq(FillSet), NEW f \in FillSet
    PROVE  Folded(t, f) \in Seq(FillSet) /\ Qty(Folded(t, f)) = Qty(t) + f.qty
<1>1. CASE t # <<>> /\ Last(t).price = f.price /\ Last(t).with = f.with
  <2> DEFINE n == Len(t)
             x == [t[n] EXCEPT !.qty = @ + f.qty]
             u == [t EXCEPT ![n] = x]
  <2>1. n \in 1..Len(t) /\ t[n] \in FillSet
    BY <1>1
  <2>2. f.qty \in Nat
    BY DEF FillSet
  <2>3. x \in FillSet /\ x.qty = t[n].qty + f.qty
    <3> DEFINE y == t[n]
               q == y.qty + f.qty
    <3>1. y \in FillSet /\ x = [y EXCEPT !.qty = q]
      BY <2>1
    <3> HIDE DEF y
    <3>2. q \in Nat
      BY <2>2, <3>1 DEF FillSet
    <3> HIDE DEF q, x
    <3>3. x \in FillSet /\ x.qty = q
      BY <3>1, <3>2 DEF FillSet
    <3> QED BY <3>3 DEF q, y
  <2>4. Folded(t, f) = u
    BY <1>1 DEF Folded
  <2> HIDE DEF x, n
  <2>5. u \in Seq(FillSet) /\ Qty(u) = Qty(t) + f.qty
    BY <2>1, <2>2, <2>3, QtyLarger
  <2> QED BY <2>4, <2>5
<1>2. CASE ~(t # <<>> /\ Last(t).price = f.price /\ Last(t).with = f.with)
  <2>1. Folded(t, f) = Append(t, f)
    BY <1>2 DEF Folded
  <2> QED BY <2>1, QtyAppend
<1> QED BY <1>1, <1>2

FoldBody(s) == [i \in 1..Len(s) |-> [t \in Seq(FillSet) |-> Folded(t, s[i])]]

\* The course of foldPartials.
LEMMA PartialsCourse ==
    ASSUME NEW s \in Seq(FillSet)
    PROVE  \E g \in [0..Len(s) -> Seq(FillSet)] :
              /\ foldPartials(s) = g[Len(s)]
              /\ IsCourse(g, Len(s), <<>>, FoldBody(s))
<1> DEFINE n == Len(s)
           Step(f, d) == IF d = {} THEN <<>> ELSE Folded(f[d \ {Max(d)}], s[Max(d)])
           fold == CHOOSE f : f = [d \in SUBSET DOMAIN s |-> Step(f, d)]
           body == FoldBody(s)
<1>1. n \in Nat /\ DOMAIN s = 1..n /\ \A i \in 1..n : s[i] \in FillSet
  BY SeqFacts
<1>2. \A i \in 1..n, t \in Seq(FillSet) : body[i][t] = Folded(t, s[i])
  BY DEF FoldBody
<1>3. SeqFoldData(n, Seq(FillSet), <<>>, body)
  <2>1. \A i \in 1..n, t \in Seq(FillSet) : Folded(t, s[i]) \in Seq(FillSet)
    BY <1>1, FoldedFacts
  <2>2. body \in [1..n -> [Seq(FillSet) -> Seq(FillSet)]]
    BY <2>1 DEF FoldBody
  <2>3. <<>> \in Seq(FillSet)
    OBVIOUS
  <2> HIDE DEF body, n
  <2> QED BY <1>1, <2>2, <2>3 DEF SeqFoldData
<1> HIDE DEF n, body
<1>4. PICK f : IsSeqFold(f, n, Seq(FillSet), <<>>, body)
  BY <1>3, SeqFoldExists
<1>5. ASSUME NEW d \in Parts(n) PROVE f[d] = Step(f, d)
  <2>0. n \in Nat
    BY <1>1
  <2>1. d = {} => f[d] = <<>>
    BY <1>4 DEF IsSeqFold
  <2>2. d # {} => f[d] = body[Max(d)][f[d \ {Max(d)}]]
    BY <1>4, <2>0, SeqFoldAt
  <2>3. d # {} => Max(d) \in 1..n /\ f[d \ {Max(d)}] \in Seq(FillSet)
    BY <1>4, <2>0, SeqFoldAt
  <2> QED BY <1>2, <2>1, <2>2, <2>3
<1>6. f = [d \in SUBSET DOMAIN s |-> Step(f, d)]
  <2> HIDE DEF Step
  <2> QED BY <1>1, <1>4, <1>5 DEF IsSeqFold, Parts
<1>7. fold = [d \in SUBSET DOMAIN s |-> Step(fold, d)]
  <2> HIDE DEF Step
  <2> QED BY <1>6
<1>8. foldPartials(s) = fold[DOMAIN s]
  BY DEF foldPartials, FoldLeft, MapThenFoldSet, Folded
<1>9. \A d \in Parts(n) : fold[d] = Step(fold, d)
  <2> HIDE DEF Step, fold
  <2> QED BY <1>1, <1>7 DEF Parts
<1> HIDE DEF fold
<1>10. Follows(fold, n, Seq(FillSet), <<>>, body)
  <2>1. {} \in Parts(n) /\ n \in Nat
    BY <1>1 DEF Parts
  <2>2. fold[{}] = <<>>
    BY <1>9, <2>1
  <2>3. ASSUME NEW d \in Parts(n), d # {}, fold[d \ {Max(d)}] \in Seq(FillSet)
        PROVE  fold[d] = body[Max(d)][fold[d \ {Max(d)}]]
    <3>1. Max(d) \in 1..n
      BY <2>1, <2>3, MaxOfIndices
    <3>2. fold[d] = Step(fold, d)
      BY <1>9
    <3> QED BY <1>2, <2>3, <3>1, <3>2
  <2> QED BY <2>2, <2>3 DEF Follows
<1>11. PICK g \in [0..n -> Seq(FillSet)] : fold[1..n] = g[n] /\ IsCourse(g, n, <<>>, body)
  BY <1>3, <1>10, SeqFoldCourse
<1> QED BY <1>1, <1>8, <1>11 DEF n, body

\* foldPartials, with one more fill.
LEMMA PartialsAppend ==
    ASSUME NEW s \in Seq(FillSet), NEW x \in FillSet
    PROVE  /\ foldPartials(s) \in Seq(FillSet)
           /\ foldPartials(Append(s, x)) = Folded(foldPartials(s), x)
<1> DEFINE n == Len(s)
           m == n + 1
           t == Append(s, x)
           empty == <<>>
           B == Seq(FillSet)
           b == FoldBody(s)
           c == FoldBody(t)
<1>2. /\ n \in Nat /\ m \in Nat /\ n <= m /\ t \in Seq(FillSet) /\ Len(t) = m /\ t[m] = x
      /\ \A i \in 1..n : t[i] = s[i]
  OBVIOUS
<1> HIDE DEF t
<1>3. SameSteps(n, B, b, c)
  BY <1>2 DEF FoldBody, SameSteps
<1>4. \A a \in B : c[m][a] = Folded(a, x)
  BY <1>2 DEF FoldBody
<1> HIDE DEF b, c
<1>5. PICK g \in [0..n -> Seq(FillSet)] : foldPartials(s) = g[n] /\ IsCourse(g, n, <<>>, b)
  BY PartialsCourse DEF b
<1>6. PICK h \in [0..m -> Seq(FillSet)] : foldPartials(t) = h[m] /\ IsCourse(h, m, <<>>, c)
  BY <1>2, PartialsCourse DEF c
<1>7. g[n] = h[n]
  <2>2. IsCourse(g, n, empty, b) /\ IsCourse(h, m, empty, c) /\ g \in [0..n -> B]
    BY <1>5, <1>6
  <2> HIDE DEF n, empty, m, B
  <2> QED BY <1>2, <1>3, <2>2, CoursesAgree, ZenonT(60)
<1>8. h[m] = c[m][h[n]] /\ h[n] \in B
  <2>1. m \in 1..m /\ n \in 0..m /\ m - 1 = n
    BY <1>2
  <2> QED BY <1>6, <2>1 DEF IsCourse
<1> QED BY <1>4, <1>5, <1>6, <1>7, <1>8 DEF t

\* foldPartials of nothing.
LEMMA PartialsEmpty == foldPartials(<<>>) = <<>>
<1> DEFINE e == <<>>
<1>1. e \in Seq(FillSet) /\ Len(e) = 0
  OBVIOUS
<1> HIDE DEF e
<1>2. PICK g \in [0..Len(e) -> Seq(FillSet)] :
         foldPartials(e) = g[Len(e)] /\ IsCourse(g, Len(e), <<>>, FoldBody(e))
  BY <1>1, PartialsCourse
<1>3. foldPartials(e) = <<>>
  BY <1>1, <1>2 DEF IsCourse
<1> QED BY <1>3 DEF e

\* foldPartials keeps the quantity.
LEMMA PartialsQty ==
    ASSUME NEW s \in Seq(FillSet)
    PROVE  foldPartials(s) \in Seq(FillSet) /\ Qty(foldPartials(s)) = Qty(s)
<1> DEFINE T == {u \in Seq(FillSet) : Qty(foldPartials(u)) = Qty(u)}
<1>1. <<>> \in T
  <2> DEFINE e == <<>>
  <2>1. e \in Seq(FillSet) /\ foldPartials(e) = e
    BY PartialsEmpty
  <2> HIDE DEF e
  <2>2. e \in T
    BY <2>1
  <2> QED BY <2>2 DEF e
<1>2. ASSUME NEW u \in Seq(FillSet), NEW f \in FillSet, u \in T PROVE Append(u, f) \in T
  <2> DEFINE uf == Append(u, f)
             fu == foldPartials(u)
  <2>1. fu \in Seq(FillSet) /\ foldPartials(uf) = Folded(fu, f)
    BY PartialsAppend
  <2>2. uf \in Seq(FillSet) /\ Qty(uf) = Qty(u) + f.qty
    BY QtyAppend
  <2>3. Qty(fu) = Qty(u)
    BY <1>2
  <2> HIDE DEF uf, fu
  <2>4. Qty(Folded(fu, f)) = Qty(fu) + f.qty
    BY <2>1, FoldedFacts
  <2>5. Qty(foldPartials(uf)) = Qty(uf)
    BY <2>1, <2>2, <2>3, <2>4
  <2>6. uf \in T
    BY <2>2, <2>5
  <2> QED BY <2>6 DEF uf
<1>3. \A u \in Seq(FillSet) : u \in T
  <2> HIDE DEF T
  <2> QED BY <1>1, <1>2, SeqsInduction
<1>4. foldPartials(s) \in Seq(FillSet)
  <2>1. Len(s) \in Nat
    BY SeqFacts
  <2> QED BY <2>1, PartialsCourse
<1> QED BY <1>3, <1>4

AtPrice(p) == {f \in FillSet : f.price = p}
PriceQty(s, D) == [p \in D |-> Qty(Only(s, AtPrice(p)))]
PricesOf(s) == {f.price : f \in ToSet(s)}

\* The quantity at a price, with one more fill.
LEMMA PriceQtyAppend ==
    ASSUME NEW s \in Seq(FillSet), NEW f \in FillSet, NEW D, IsFiniteSet(D), f.price \in D
    PROVE  LargerBy(D, f.price, f.qty, PriceQty(s, D), PriceQty(Append(s, f), D))
<1> DEFINE t == Append(s, f)
           a == PriceQty(s, D)
           b == PriceQty(t, D)
<1>0. t \in Seq(FillSet) /\ f.qty \in Nat
  BY DEF FillSet
<1>1. ASSUME NEW p
      PROVE  /\ Qty(Only(s, AtPrice(p))) \in Nat /\ Qty(Only(t, AtPrice(p))) \in Nat
             /\ p = f.price => Qty(Only(t, AtPrice(p))) = Qty(Only(s, AtPrice(p))) + f.qty
             /\ p # f.price => Qty(Only(t, AtPrice(p))) = Qty(Only(s, AtPrice(p)))
  <2> DEFINE K == AtPrice(p)
             os == Only(s, K)
  <2>1. f \in K <=> p = f.price
    BY DEF AtPrice
  <2> HIDE DEF K
  <2>2. os \in Seq(FillSet)
    BY OnlyFacts
  <2>3. Only(t, K) = IF f \in K THEN Append(os, f) ELSE os
    BY OnlyAppend
  <2>4. Only(t, K) \in Seq(FillSet)
    <3> HIDE DEF t
    <3> QED BY <1>0, OnlyFacts
  <2> HIDE DEF os
  <2>5. Qty(os) \in Nat /\ Qty(Only(t, K)) \in Nat
    BY <2>2, <2>4, QtyNat
  <2>6. Qty(Append(os, f)) = Qty(os) + f.qty
    BY <2>2, QtyAppend
  <2> HIDE DEF t
  <2> QED BY <2>1, <2>3, <2>5, <2>6 DEF K, os
<1> HIDE DEF t
<1>2. /\ a \in [D -> Nat] /\ b \in [D -> Nat]
      /\ b[f.price] = a[f.price] + f.qty /\ \A p \in D \ {f.price} : b[p] = a[p]
  BY <1>1 DEF PriceQty
<1> QED BY <1>0, <1>2 DEF LargerBy, t

\* The quantities at all prices add up to the quantity.
LEMMA PriceQtySum ==
    ASSUME NEW D, IsFiniteSet(D), NEW s \in Seq(FillSet), PricesOf(s) \subseteq D
    PROVE  SumFunction(PriceQty(s, D)) = Qty(s)
<1> DEFINE Good(u) == PricesOf(u) \subseteq D => SumFunction(PriceQty(u, D)) = Qty(u)
           T == {u \in Seq(FillSet) : Good(u)}
<1>1. <<>> \in T
  <2> DEFINE e == <<>>
             z == PriceQty(e, D)
  <2>1. e \in Seq(FillSet) /\ Qty(e) = 0 /\ \A K : Only(e, K) = e
    BY QtyEmpty, OnlyEmpty
  <2> HIDE DEF e
  <2>2. z = [p \in D |-> 0]
    BY <2>1 DEF PriceQty
  <2> HIDE DEF z
  <2>3. SumFunction(z) = 0
    BY <2>2, SumZero
  <2>4. Good(e)
    BY <2>1, <2>3 DEF z
  <2>5. e \in T
    BY <2>1, <2>4
  <2> QED BY <2>5 DEF e
<1>2. ASSUME NEW u \in Seq(FillSet), NEW f \in FillSet, u \in T PROVE Append(u, f) \in T
  <2> DEFINE uf == Append(u, f)
  <2>1. uf \in Seq(FillSet) /\ Qty(uf) = Qty(u) + f.qty
    BY QtyAppend
  <2>2. ToSet(uf) = ToSet(u) \cup {f}
    BY ToSetAppend
  <2> HIDE DEF uf
  <2>3. ASSUME PricesOf(uf) \subseteq D PROVE SumFunction(PriceQty(uf, D)) = Qty(uf)
    <3>1. PricesOf(u) \subseteq D /\ f.price \in D
      BY <2>2, <2>3 DEF PricesOf
    <3>2. SumFunction(PriceQty(u, D)) = Qty(u)
      BY <1>2, <3>1
    <3>3. LargerBy(D, f.price, f.qty, PriceQty(u, D), PriceQty(uf, D))
      BY <3>1, PriceQtyAppend DEF uf
    <3>4. SumFunction(PriceQty(uf, D)) = SumFunction(PriceQty(u, D)) + f.qty
      BY <3>3, SumGrows
    <3> QED BY <2>1, <3>2, <3>4
  <2>4. uf \in T
    BY <2>1, <2>3
  <2> QED BY <2>4 DEF uf
<1>3. \A u \in Seq(FillSet) : u \in T
  <2> HIDE DEF T
  <2> QED BY <1>1, <1>2, SeqsInduction
<1> QED BY <1>3

\* All of it is at the expected prices when the fills are the expected ones,
LEMMA SelfPrice ==
    ASSUME NEW s \in Seq(FillSet) PROVE matchingQtyByPrice(s, s) = Qty(s)
<1> DEFINE D == PricesOf(s)
<1>1. IsFiniteSet(D)
  <2> DEFINE F == [i \in 1..Len(s) |-> s[i].price]
             I == 1..Len(s)
  <2>1. Len(s) \in Nat /\ DOMAIN s = I
    BY SeqFacts
  <2>2. IsFiniteSet(I)
    BY <2>1, FS_Interval
  <2>3. D = {F[i] : i \in I}
    BY <2>1 DEF PricesOf, ToSet
  <2>4. IsFiniteSet({F[i] : i \in I})
    <3> HIDE DEF F, I
    <3>1. F \in Surjection(I, {F[i] : i \in I})
      BY <2>1 DEF F, I, Surjection
    <3> QED BY <2>2, <3>1, FS_Surjection
  <2> QED BY <2>3, <2>4
<1>2. SumFunction(PriceQty(s, D)) = Qty(s)
  <2> HIDE DEF D
  <2>1. PricesOf(s) \subseteq D
    BY DEF D
  <2> QED BY <1>1, <2>1, PriceQtySum
<1>3. \A a : Smaller(a, a) = a
  BY DEF Smaller
<1>4. matchingQtyByPrice(s, s) = SumFunction(PriceQty(s, D))
  BY <1>3 DEF matchingQtyByPrice, PriceQty, PricesOf, AtPrice
<1> QED BY <1>2, <1>4

\* and in the expected order.
LEMMA SelfPriority ==
    ASSUME NEW s \in Seq(FillSet) PROVE priorityMatchedQty(s, s) = Qty(s)
<1>1. {i \in DOMAIN s : i \in DOMAIN s /\ s[i] = s[i]} = DOMAIN s
  OBVIOUS
<1> QED BY <1>1 DEF priorityMatchedQty, Qty

-----------------------------------------------------------------------------
(* The score.                                                              *)

\* The counters that cost points.
NoFaults(v) == v.ackViolations = 0 /\ v.duplicateOrders = 0 /\ v.unknownAcks = 0

\* The fills are the expected ones.
Even(v) == v \in Shards /\ v.expectedFills = v.actualFills /\ NoFaults(v)

\* What checkCleanup does to the fills and the counters.
Cleaned(v, id, w) ==
    /\ w.ackViolations = v.ackViolations /\ w.duplicateOrders = v.duplicateOrders
    /\ w.unknownAcks = v.unknownAcks
    /\ \/ w.expectedFills = v.expectedFills /\ w.actualFills = v.actualFills
       \/ /\ foldPartials(v.expectedFills[id]) = foldPartials(v.actualFills[id])
          /\ w.expectedFills = [v.expectedFills EXCEPT ![id] = <<>>]
          /\ w.actualFills = [v.actualFills EXCEPT ![id] = <<>>]

\* It does.
LEMMA CleanupCleans ==
    ASSUME NEW v \in Shards, NEW id \in Orders PROVE Cleaned(v, id, checkCleanup(v, id))
<1> DEFINE ef == [v.expectedFills EXCEPT ![id] = <<>>]
           af == [v.actualFills EXCEPT ![id] = <<>>]
           m == v.matched + Qty(v.expectedFills[id])
           e == v.expectedValue + Value(v.expectedFills[id])
           u == [v EXCEPT !.matched = m, !.expectedValue = e,
                          !.expectedFills = ef, !.actualFills = af]
           same == foldPartials(v.expectedFills[id]) = foldPartials(v.actualFills[id])
           w == checkCleanup(v, id)
<1>1. w = v \/ (w = u /\ same)
  BY DEF checkCleanup, Shards
<1> HIDE DEF m, e, ef, af, same, w
<1>2. /\ u.ackViolations = v.ackViolations /\ u.duplicateOrders = v.duplicateOrders
      /\ u.unknownAcks = v.unknownAcks /\ u.expectedFills = ef /\ u.actualFills = af
  BY DEF Shards
<1> HIDE DEF u
<1>3. Cleaned(v, id, w)
  BY <1>1, <1>2 DEF Cleaned, ef, af, same
<1> QED BY <1>3 DEF w

\* What is even stays even.
LEMMA CleanupEven ==
    ASSUME NEW v, Even(v), NEW id \in Orders PROVE Even(checkCleanup(v, id))
<1>1. v \in Shards /\ v.expectedFills = v.actualFills /\ NoFaults(v)
  BY DEF Even
<1>2. checkCleanup(v, id) \in Shards
  BY <1>1, CleanupFacts
<1>3. Cleaned(v, id, checkCleanup(v, id))
  BY <1>1, CleanupCleans
<1> QED BY <1>1, <1>2, <1>3 DEF Cleaned, Even, NoFaults

\* So it does in the loop over all orders.
LEMMA CleanedUpEven ==
    ASSUME NEW v, Even(v) PROVE Even(CleanedUp(v))
<1> DEFINE A == {w \in Shards : Even(w)}
           Chosen(s) == CHOOSE y \in s : TRUE
           Step(f, s) == IF s = {} THEN v ELSE checkCleanup(f[s \ {Chosen(s)}], Chosen(s))
           fold == CHOOSE f : f = [s \in SUBSET Orders |-> Step(f, s)]
           pick == [s \in SUBSET Orders |-> Chosen(s)]
           body == [x \in Orders |-> [a \in A |-> checkCleanup(a, x)]]
<1>0. IsFiniteSet(Orders)
  BY ValidatorAssumption
<1>1. \A s \in SUBSET Orders : s # {} => Chosen(s) \in s /\ Chosen(s) \in Orders /\ pick[s] = Chosen(s)
  OBVIOUS
<1>2. FoldData(Orders, A, v, pick, body)
  <2>1. \A a \in A, x \in Orders : checkCleanup(a, x) \in A
    BY CleanupEven DEF Even
  <2>2. body \in [Orders -> [A -> A]]
    <3> HIDE DEF A
    <3> QED BY <2>1
  <2>3. v \in A
    BY DEF Even
  <2>4. \A s \in SUBSET Orders : s # {} => pick[s] \in s
    BY <1>1
  <2> HIDE DEF body, pick, A
  <2> QED BY <1>0, <2>2, <2>3, <2>4 DEF FoldData
<1>3. \A x \in Orders, a \in A : body[x][a] = checkCleanup(a, x)
  OBVIOUS
<1> HIDE DEF pick, body, Chosen, A
<1>4. PICK f \in [SUBSET Orders -> A] : IsFold(f, Orders, v, pick, body)
  BY <1>2, FoldExists
<1>5. ASSUME NEW s \in SUBSET Orders PROVE f[s] = Step(f, s)
  <2>1. f[s] = IF s = {} THEN v ELSE body[pick[s]][f[s \ {pick[s]}]]
    BY <1>4 DEF IsFold
  <2>2. CASE s = {}
    BY <2>1, <2>2
  <2>3. CASE s # {}
    <3>1. Chosen(s) \in Orders /\ pick[s] = Chosen(s) /\ f[s \ {Chosen(s)}] \in A
      BY <1>1, <1>4, <2>3
    <3> QED BY <1>3, <2>1, <2>3, <3>1
  <2> QED BY <2>2, <2>3
<1>6. f = [s \in SUBSET Orders |-> Step(f, s)]
  <2> HIDE DEF Step
  <2> QED BY <1>4, <1>5
<1>7. fold = [s \in SUBSET Orders |-> Step(fold, s)]
  <2> HIDE DEF Step
  <2> QED BY <1>6
<1>8. CleanedUp(v) = fold[Orders]
  BY DEF CleanedUp, FoldSet, MapThenFoldSet, Chosen
<1> HIDE DEF fold
<1>9. \A s \in SUBSET Orders : fold[s] = Step(fold, s)
  <2> HIDE DEF Step
  <2> QED BY <1>7
<1>10. FollowsOn(fold, Orders, A, v, pick, body)
  <2>1. fold[{}] = v
    BY <1>9
  <2>2. ASSUME NEW s \in SUBSET Orders, s # {}, fold[s \ {pick[s]}] \in A
        PROVE  fold[s] = body[pick[s]][fold[s \ {pick[s]}]]
    <3>1. Chosen(s) \in Orders /\ pick[s] = Chosen(s)
      BY <1>1, <2>2
    <3>2. fold[s] = checkCleanup(fold[s \ {Chosen(s)}], Chosen(s))
      BY <1>9, <2>2
    <3> HIDE DEF Step
    <3> QED BY <1>3, <2>2, <3>1, <3>2
  <2> QED BY <2>1, <2>2 DEF FollowsOn
<1>11. \A s \in SUBSET Orders : fold[s] \in A
  BY <1>2, <1>10, FoldStays
<1> QED BY <1>8, <1>11 DEF A

\* The same fills get all points.
LEMMA EvenScores == ASSUME NEW sh, Even(sh) PROVE FullScore(sh)
<1> DEFINE v == CleanedUp(sh)
           Exp(o) == foldPartials(v.expectedFills[o])
           Act(o) == foldPartials(v.actualFills[o])
           eq == SumFunction([o \in Orders |-> Qty(Exp(o))])
           aq == SumFunction([o \in Orders |-> Qty(Act(o))])
           pq == SumFunction([o \in Orders |-> matchingQtyByPrice(Exp(o), Act(o))])
           rq == SumFunction([o \in Orders |-> priorityMatchedQty(Exp(o), Act(o))])
           ev == SumFunction([o \in Orders |-> Value(Exp(o))])
           valueDiff == SumFunction(
               [o \in {o \in Orders : v.expectedFills[o] # <<>>} |->
                   Excess(Value(Exp(o)), Value(Act(o)))
                   + Excess(Value(Act(o)), Value(Exp(o)))])
           phantomQty == SumFunction(
               [o \in Orders |-> Excess(Qty(Act(o)), Qty(Exp(o)))])
           expectedQty == v.matched + eq
           actualQty == v.matched + aq
           priceQty == v.matched + pq
           priorityQty == v.matched + rq
           expectedValue == v.expectedValue + ev
           faulty == v.ackViolations + v.duplicateOrders + v.unknownAcks
           den == expectedQty * expectedValue
           num == 70 * Smaller(priceQty, expectedQty) * expectedValue
                  + 20 * Smaller(priorityQty, expectedQty) * expectedValue
                  + 10 * Excess(expectedValue, valueDiff) * expectedQty
                  - 25 * Smaller(expectedQty, phantomQty) * expectedValue
                  - 2 * faulty * den
<1>1. GetCorrectnessScore(sh) =
        IF expectedQty = 0
        THEN [num |-> IF actualQty > 0 \/ faulty > 0 THEN 0 ELSE 100, den |-> 1]
        ELSE [num |-> IF num < 0 THEN 0 ELSE Smaller(num, 100 * den), den |-> den]
  BY DEF GetCorrectnessScore
<1>2. Even(v)
  BY CleanedUpEven
<1> HIDE DEF v
<1>3. /\ v \in Shards /\ v.expectedFills = v.actualFills /\ faulty = 0
      /\ v.matched \in Nat /\ v.expectedValue \in Nat
  BY <1>2 DEF Even, NoFaults, Shards
<1>4. IsFiniteSet(Orders)
  BY ValidatorAssumption
<1>5. ASSUME NEW o \in Orders
      PROVE  /\ Act(o) = Exp(o) /\ Qty(Exp(o)) \in Nat /\ Value(Exp(o)) \in Nat
             /\ matchingQtyByPrice(Exp(o), Exp(o)) = Qty(Exp(o))
             /\ priorityMatchedQty(Exp(o), Exp(o)) = Qty(Exp(o))
  <2> DEFINE f == v.expectedFills[o]
             x == foldPartials(f)
  <2>1. f \in Seq(FillSet)
    BY <1>3 DEF Shards
  <2> HIDE DEF f
  <2>2. x \in Seq(FillSet)
    BY <2>1, PartialsQty
  <2> HIDE DEF x
  <2>3. Qty(x) \in Nat /\ Value(x) \in Nat /\ matchingQtyByPrice(x, x) = Qty(x)
        /\ priorityMatchedQty(x, x) = Qty(x)
    BY <2>2, QtyNat, SelfPrice, SelfPriority
  <2> QED BY <1>3, <2>3 DEF f, x
<1> HIDE DEF Exp, Act
<1>6. aq = eq /\ pq = eq /\ rq = eq
  <2>1. [o \in Orders |-> Qty(Act(o))] = [o \in Orders |-> Qty(Exp(o))]
    BY <1>5
  <2>2. [o \in Orders |-> matchingQtyByPrice(Exp(o), Act(o))] = [o \in Orders |-> Qty(Exp(o))]
    BY <1>5
  <2>3. [o \in Orders |-> priorityMatchedQty(Exp(o), Act(o))] = [o \in Orders |-> Qty(Exp(o))]
    BY <1>5
  <2> QED BY <2>1, <2>2, <2>3
<1>7. eq \in Nat /\ ev \in Nat
  <2> DEFINE a == [o \in Orders |-> Qty(Exp(o))]
             b == [o \in Orders |-> Value(Exp(o))]
  <2>1. a \in [Orders -> Nat] /\ b \in [Orders -> Nat]
    BY <1>5
  <2> HIDE DEF a, b
  <2>2. SumFunction(a) \in Nat /\ SumFunction(b) \in Nat
    BY <1>4, <2>1, SumNat
  <2> QED BY <2>2 DEF a, b
<1>8. valueDiff = 0
  <2> DEFINE D == {o \in Orders : v.expectedFills[o] # <<>>}
             d == [o \in D |-> Excess(Value(Exp(o)), Value(Act(o)))
                               + Excess(Value(Act(o)), Value(Exp(o)))]
  <2>1. IsFiniteSet(D)
    BY <1>4, FS_Subset
  <2>2. d = [o \in D |-> 0]
    <3>1. \A o \in D : o \in Orders
      OBVIOUS
    <3> HIDE DEF D
    <3> QED BY <1>5, <3>1 DEF Excess
  <2>3. valueDiff = SumFunction(d)
    OBVIOUS
  <2> HIDE DEF d, D, valueDiff
  <2> QED BY <2>1, <2>2, <2>3, SumZero
<1>9. phantomQty = 0
  <2> DEFINE d == [o \in Orders |-> Excess(Qty(Act(o)), Qty(Exp(o)))]
  <2>1. d = [o \in Orders |-> 0]
    BY <1>5 DEF Excess
  <2>2. phantomQty = SumFunction(d)
    OBVIOUS
  <2> HIDE DEF d, phantomQty
  <2> QED BY <1>4, <2>1, <2>2, SumZero
<1>10. /\ expectedQty \in Nat /\ expectedValue \in Nat /\ actualQty = expectedQty
       /\ priceQty = expectedQty /\ priorityQty = expectedQty
  <2> HIDE DEF eq, aq, pq, rq, ev
  <2> QED BY <1>3, <1>6, <1>7
<1> HIDE DEF valueDiff, phantomQty, expectedQty, expectedValue, actualQty, priceQty, priorityQty, faulty
<1>11. den \in Nat
  BY <1>10
<1>12. num = 100 * den
  <2>1. /\ Smaller(priceQty, expectedQty) = expectedQty
        /\ Smaller(priorityQty, expectedQty) = expectedQty
        /\ Excess(expectedValue, valueDiff) = expectedValue
        /\ Smaller(expectedQty, phantomQty) = 0
    BY <1>8, <1>9, <1>10 DEF Smaller, Excess
  <2>2. num = 70 * expectedQty * expectedValue + 20 * expectedQty * expectedValue
              + 10 * expectedValue * expectedQty - 25 * 0 * expectedValue - 2 * 0 * den
    BY <1>3, <2>1
  <2>3. 70 * expectedQty * expectedValue = 70 * den /\ 20 * expectedQty * expectedValue = 20 * den
        /\ 10 * expectedValue * expectedQty = 10 * den /\ 25 * 0 * expectedValue = 0
        /\ 2 * 0 * den = 0
    BY <1>10
  <2> HIDE DEF den, num
  <2>4. num = 70 * den + 20 * den + 10 * den - 0 - 0
    BY <2>2, <2>3
  <2> QED BY <1>11, <2>4
<1> HIDE DEF den, num
<1>13. CASE expectedQty = 0
  BY <1>1, <1>3, <1>10, <1>13 DEF FullScore
<1>14. CASE expectedQty # 0
  <2>1. ~(num < 0) /\ Smaller(num, 100 * den) = 100 * den
    BY <1>11, <1>12 DEF Smaller
  <2> QED BY <1>1, <1>14, <2>1 DEF FullScore
<1> QED BY <1>13, <1>14

-----------------------------------------------------------------------------
(* The fills that the validator lacks.                                     *)

\* The fills among some reports, and those of one order.
FillsIn(x) == {r \in ReportSet : r.status = "filled" /\ r.order = x}
FillsOf(s) == [i \in DOMAIN s |-> Fill(s[i])]
Mine(x, rs) == FillsOf(Only(rs, FillsIn(x)))

\* FillsOf, with one more report.
LEMMA FillsAppend ==
    ASSUME NEW x, NEW s \in Seq(FillsIn(x)), NEW r \in FillsIn(x)
    PROVE  /\ FillsOf(s) \in Seq(FillSet) /\ Fill(r) \in FillSet
           /\ FillsOf(Append(s, r)) = Append(FillsOf(s), Fill(r))
<1> DEFINE A == FillsIn(x)
           t == Append(s, r)
           n == Len(s)
           F == FillsOf(s)
           G == FillsOf(t)
           f == Fill(r)
<1>1. \A q \in A : Fill(q) \in FillSet
  BY FillReportFacts DEF FillsIn
<1> HIDE DEF A
<1>2. s \in Seq(A) /\ r \in A
  BY DEF A
<1>3. /\ n \in Nat /\ DOMAIN s = 1..n /\ \A i \in 1..n : s[i] \in A
  BY <1>2, SeqFacts
<1>4. /\ t \in Seq(A) /\ Len(t) = n + 1 /\ t[n + 1] = r /\ \A i \in 1..n : t[i] = s[i]
  BY <1>2
<1>5. DOMAIN t = 1..(n + 1)
  BY <1>4, SeqFacts
<1>6. F = [i \in 1..n |-> Fill(s[i])] /\ G = [i \in 1..(n + 1) |-> Fill(t[i])]
  BY <1>3, <1>5 DEF FillsOf
<1> HIDE DEF t, n, F, G
<1>7. F \in Seq(FillSet) /\ Len(F) = n
  <2>1. \A i \in 1..n : Fill(s[i]) \in FillSet
    BY <1>1, <1>3
  <2> QED BY <1>3, <1>6, <2>1, IsASeq
<1>8. G \in Seq(FillSet) /\ Len(G) = n + 1
  <2>1. \A i \in 1..(n + 1) : Fill(t[i]) \in FillSet
    BY <1>1, <1>2, <1>3, <1>4
  <2>2. n + 1 \in Nat
    BY <1>3
  <2> QED BY <1>6, <2>1, <2>2, IsASeq
<1>9. f \in FillSet
  BY <1>1, <1>2
<1> HIDE DEF f
<1>10. /\ Append(F, f) \in Seq(FillSet) /\ Len(Append(F, f)) = n + 1
       /\ Append(F, f)[n + 1] = f /\ \A i \in 1..n : Append(F, f)[i] = F[i]
  BY <1>7, <1>9
<1>11. \A i \in 1..(n + 1) : G[i] = Append(F, f)[i]
  BY <1>3, <1>4, <1>6, <1>10 DEF f
<1>12. G = Append(F, f)
  BY <1>8, <1>10, <1>11, SeqEqual
<1> QED BY <1>7, <1>9, <1>12 DEF F, G, t, f

\* Only keeps sequences of fills of x.
LEMMA MineReports ==
    ASSUME NEW x, NEW rs \in Seq(ReportSet)
    PROVE  Only(rs, FillsIn(x)) \in Seq(FillsIn(x))
<1> DEFINE A == FillsIn(x)
           T == {s \in Seq(ReportSet) : Only(s, A) \in Seq(A)}
<1>1. <<>> \in T
  <2>1. <<>> \in Seq(ReportSet) /\ <<>> \in Seq(A)
    OBVIOUS
  <2> HIDE DEF A
  <2> QED BY <2>1, OnlyEmpty
<1> HIDE DEF A
<1>2. ASSUME NEW s \in Seq(ReportSet), NEW r \in ReportSet, s \in T PROVE Append(s, r) \in T
  <2>1. Only(Append(s, r), A) = IF r \in A THEN Append(Only(s, A), r) ELSE Only(s, A)
    BY OnlyAppend
  <2> DEFINE o == Only(s, A)
             sr == Append(s, r)
  <2>2. sr \in Seq(ReportSet) /\ o \in Seq(A)
    BY <1>2
  <2> HIDE DEF o, sr
  <2>3. r \in A => Append(o, r) \in Seq(A)
    BY <2>2
  <2>4. Only(sr, A) \in Seq(A)
    BY <2>1, <2>2, <2>3 DEF o, sr
  <2>5. sr \in T
    BY <2>2, <2>4
  <2> QED BY <2>5 DEF sr
<1>3. \A s \in Seq(ReportSet) : s \in T
  <2> HIDE DEF T
  <2> QED BY <1>1, <1>2, SeqsInduction
<1> QED BY <1>3 DEF A

\* Mine of nothing.
LEMMA MineEmpty == ASSUME NEW x PROVE Mine(x, <<>>) = <<>>
<1>1. Only(<<>>, FillsIn(x)) = <<>>
  BY OnlyEmpty
<1>2. FillsOf(<<>>) = <<>>
  <2> DEFINE e == <<>>
             F == FillsOf(e)
  <2>1. e \in Seq(FillSet) /\ Len(e) = 0 /\ DOMAIN e = 1..0
    OBVIOUS
  <2>2. F = [i \in 1..0 |-> Fill(e[i])]
    BY <2>1 DEF FillsOf
  <2>3. \A i \in 1..0 : Fill(e[i]) \in FillSet
    OBVIOUS
  <2> HIDE DEF F, e
  <2>4. F \in Seq(FillSet) /\ Len(F) = 0
    <3>1. 0 \in Nat
      OBVIOUS
    <3> QED BY <2>2, <2>3, <3>1, IsASeq
  <2> QED BY <2>4, EmptySeq DEF F, e
<1> QED BY <1>1, <1>2 DEF Mine

\* Mine, with one more report.
LEMMA MineAppend ==
    ASSUME NEW x, NEW rs \in Seq(ReportSet), NEW r \in ReportSet
    PROVE  Mine(x, Append(rs, r)) =
             IF r.status = "filled" /\ r.order = x THEN Append(Mine(x, rs), Fill(r)) ELSE Mine(x, rs)
<1> DEFINE A == FillsIn(x)
           s == Only(rs, A)
<1>1. r \in A <=> r.status = "filled" /\ r.order = x
  BY DEF FillsIn
<1>2. s \in Seq(FillsIn(x))
  BY MineReports
<1>3. Only(Append(rs, r), A) = IF r \in A THEN Append(s, r) ELSE s
  <2> HIDE DEF A
  <2> QED BY OnlyAppend
<1> HIDE DEF s
<1>4. r \in A => FillsOf(Append(s, r)) = Append(FillsOf(s), Fill(r))
  BY <1>2, FillsAppend
<1> HIDE DEF A
<1> QED BY <1>1, <1>3, <1>4 DEF Mine, A, s

\* Mine returns fills.
LEMMA MineType ==
    ASSUME NEW x, NEW rs \in Seq(ReportSet) PROVE Mine(x, rs) \in Seq(FillSet)
<1> DEFINE T == {s \in Seq(ReportSet) : Mine(x, s) \in Seq(FillSet)}
<1>1. <<>> \in T
  <2>1. <<>> \in Seq(ReportSet) /\ <<>> \in Seq(FillSet)
    OBVIOUS
  <2> QED BY <2>1, MineEmpty
<1>2. ASSUME NEW s \in Seq(ReportSet), NEW r \in ReportSet, s \in T PROVE Append(s, r) \in T
  <2> DEFINE m == Mine(x, s)
             f == Fill(r)
  <2> DEFINE sr == Append(s, r)
  <2>1. m \in Seq(FillSet) /\ sr \in Seq(ReportSet)
    BY <1>2
  <2>2. r.status = "filled" => f \in FillSet
    BY FillReportFacts
  <2>3. Mine(x, sr) = IF r.status = "filled" /\ r.order = x THEN Append(m, f) ELSE m
    BY MineAppend
  <2> HIDE DEF m, f, sr
  <2>4. r.status = "filled" => Append(m, f) \in Seq(FillSet)
    BY <2>1, <2>2
  <2>5. Mine(x, sr) \in Seq(FillSet)
    BY <2>1, <2>3, <2>4
  <2>6. sr \in T
    BY <2>1, <2>5
  <2> QED BY <2>6 DEF sr
<1>3. \A s \in Seq(ReportSet) : s \in T
  <2> HIDE DEF T
  <2> QED BY <1>1, <1>2, SeqsInduction
<1> QED BY <1>3

\* Mine, of reports one after the other.
LEMMA MineConcat ==
    ASSUME NEW x, NEW s \in Seq(ReportSet), NEW t \in Seq(ReportSet)
    PROVE  Mine(x, s \o t) = Mine(x, s) \o Mine(x, t)
<1> DEFINE a == Mine(x, s)
           T == {u \in Seq(ReportSet) : Mine(x, s \o u) = a \o Mine(x, u)}
<1>0. a \in Seq(FillSet)
  BY MineType
<1>1. <<>> \in T
  <2> DEFINE e == <<>>
             z == <<>>
  <2>1. e \in Seq(ReportSet) /\ s \o e = s
    BY CatEmpty
  <2>2. Mine(x, e) = z
    BY MineEmpty
  <2>3. a \o z = a
    <3> HIDE DEF a
    <3> QED BY <1>0, CatEmpty
  <2> HIDE DEF e, z
  <2>4. Mine(x, s \o e) = a \o Mine(x, e)
    BY <2>1, <2>2, <2>3
  <2>5. e \in T
    BY <2>1, <2>4
  <2> QED BY <2>5 DEF e
<1> HIDE DEF a
<1>2. ASSUME NEW u \in Seq(ReportSet), NEW r \in ReportSet, u \in T PROVE Append(u, r) \in T
  <2> DEFINE su == s \o u
             ur == Append(u, r)
             m == Mine(x, u)
             f == Fill(r)
             own == r.status = "filled" /\ r.order = x
  <2>1. s \o ur = Append(su, r)
    BY CatThenAppend
  <2>2. su \in Seq(ReportSet) /\ ur \in Seq(ReportSet) /\ Mine(x, su) = a \o m
    BY <1>2
  <2>3. m \in Seq(FillSet)
    BY MineType
  <2>4. own => f \in FillSet
    BY FillReportFacts
  <2>5. Mine(x, ur) = IF own THEN Append(m, f) ELSE m
    BY MineAppend
  <2> HIDE DEF su
  <2>6. Mine(x, Append(su, r)) = IF own THEN Append(Mine(x, su), f) ELSE Mine(x, su)
    BY <2>2, MineAppend
  <2> HIDE DEF m, f, ur, own
  <2>7. own => a \o Append(m, f) = Append(a \o m, f)
    BY <1>0, <2>3, <2>4, CatThenAppend
  <2>8. Mine(x, s \o ur) = a \o Mine(x, ur)
    BY <2>1, <2>2, <2>5, <2>6, <2>7
  <2>9. ur \in T
    BY <2>2, <2>8
  <2> QED BY <2>9 DEF ur
<1>3. \A u \in Seq(ReportSet) : u \in T
  <2> HIDE DEF T
  <2> QED BY <1>1, <1>2, SeqsInduction
<1> QED BY <1>3 DEF a

\* Mine of one report.
LEMMA MineOne ==
    ASSUME NEW x, NEW r \in ReportSet
    PROVE  Mine(x, <<r>>) = IF r.status = "filled" /\ r.order = x THEN <<Fill(r)>> ELSE <<>>
<1> DEFINE e == <<>>
           f == Fill(r)
<1>1. Append(e, r) = <<r>> /\ Append(e, f) = <<f>> /\ e \in Seq(ReportSet) /\ Mine(x, e) = e
  BY MineEmpty
<1> HIDE DEF e, f
<1>2. Mine(x, Append(e, r)) =
        IF r.status = "filled" /\ r.order = x THEN Append(Mine(x, e), f) ELSE Mine(x, e)
  BY <1>1, MineAppend DEF f
<1> QED BY <1>1, <1>2 DEF e, f

\* Fills of something.
PosFills(rs) == \A i \in 1..Len(rs) : rs[i].status = "filled" => rs[i].qty >= 1

\* None of an order's fills is empty.
LEMMA MinePositive ==
    ASSUME NEW x, NEW rs \in Seq(ReportSet), PosFills(rs) PROVE Positive(Mine(x, rs))
<1> DEFINE Good(s) == PosFills(s) => Positive(Mine(x, s))
           T == {s \in Seq(ReportSet) : Good(s)}
<1>1. <<>> \in T
  <2>1. <<>> \in Seq(ReportSet)
    OBVIOUS
  <2>2. Positive(<<>>)
    BY DEF Positive
  <2> QED BY <2>1, <2>2, MineEmpty
<1>2. ASSUME NEW s \in Seq(ReportSet), NEW r \in ReportSet, s \in T PROVE Append(s, r) \in T
  <2> DEFINE m == Mine(x, s)
             f == Fill(r)
             sr == Append(s, r)
  <2>1. sr \in Seq(ReportSet) /\ Len(sr) = Len(s) + 1 /\ Len(s) \in Nat
        /\ sr[Len(s) + 1] = r /\ \A i \in 1..Len(s) : sr[i] = s[i]
    OBVIOUS
  <2>2. r.status = "filled" => f \in FillSet /\ f.qty = r.qty
    BY FillReportFacts DEF Fill
  <2>3. Mine(x, sr) = IF r.status = "filled" /\ r.order = x THEN Append(m, f) ELSE m
    BY MineAppend
  <2>4. m \in Seq(FillSet)
    BY MineType
  <2> HIDE DEF m, f, sr
  <2>5. ASSUME PosFills(sr) PROVE Positive(Mine(x, sr))
    <3>1. PosFills(s) /\ (r.status = "filled" => r.qty >= 1)
      BY <2>1, <2>5 DEF PosFills
    <3>2. Positive(m)
      BY <1>2, <3>1 DEF m
    <3>3. CASE r.status = "filled" /\ r.order = x
      <4> DEFINE t == Append(m, f)
      <4>1. Len(t) = Len(m) + 1 /\ t[Len(m) + 1] = f /\ \A i \in 1..Len(m) : t[i] = m[i]
        BY <2>2, <2>4, <3>3
      <4>2. Mine(x, sr) = t /\ f.qty >= 1 /\ Len(m) \in Nat
        BY <2>2, <2>3, <2>4, <3>1, <3>3
      <4> HIDE DEF t
      <4> QED BY <3>2, <4>1, <4>2 DEF Positive
    <3>4. CASE ~(r.status = "filled" /\ r.order = x)
      BY <2>3, <3>2, <3>4
    <3> QED BY <3>3, <3>4
  <2>6. sr \in T
    BY <2>1, <2>5
  <2> QED BY <2>6 DEF sr
<1>3. \A s \in Seq(ReportSet) : s \in T
  <2> HIDE DEF T
  <2> QED BY <1>1, <1>2, SeqsInduction
<1> QED BY <1>3

\* What the validator still expects are the fills of rs.
Lacks(v, rs) ==
    /\ v \in Shards /\ NoFaults(v) /\ rs \in Seq(ReportSet) /\ PosFills(rs)
    /\ \A x \in Orders : v.expectedFills[x] = v.actualFills[x] \o Mine(x, rs)

\* w has v's fills and counters.
SameFills(v, w) ==
    /\ w.expectedFills = v.expectedFills /\ w.actualFills = v.actualFills
    /\ w.ackViolations = v.ackViolations /\ w.duplicateOrders = v.duplicateOrders
    /\ w.unknownAcks = v.unknownAcks

\* Lacks is about nothing else.
LEMMA LacksSame ==
    ASSUME NEW v, NEW rs, Lacks(v, rs), NEW w \in Shards, SameFills(v, w)
    PROVE  Lacks(w, rs)
  BY DEF Lacks, SameFills, NoFaults

\* The types of what it relates.
LEMMA LacksFacts ==
    ASSUME NEW v, NEW rs, Lacks(v, rs), NEW x \in Orders
    PROVE  /\ v.expectedFills[x] \in Seq(FillSet) /\ v.actualFills[x] \in Seq(FillSet)
           /\ Mine(x, rs) \in Seq(FillSet) /\ Positive(Mine(x, rs))
           /\ v.expectedFills \in [Orders -> Seq(FillSet)]
           /\ v.actualFills \in [Orders -> Seq(FillSet)]
<1>1. v \in Shards /\ rs \in Seq(ReportSet) /\ PosFills(rs)
  BY DEF Lacks
<1>2. v.expectedFills \in [Orders -> Seq(FillSet)] /\ v.actualFills \in [Orders -> Seq(FillSet)]
  BY <1>1 DEF Shards
<1> QED BY <1>1, <1>2, MineType, MinePositive

\* checkCleanup forgets an order only when nothing more is expected of it.
LEMMA CleanupLacks ==
    ASSUME NEW v, NEW rs, Lacks(v, rs), NEW id \in Orders
    PROVE  Lacks(checkCleanup(v, id), rs)
<1> DEFINE w == checkCleanup(v, id)
           e == v.expectedFills[id]
           a == v.actualFills[id]
           m == Mine(id, rs)
           none == <<>>
<1>1. v \in Shards /\ NoFaults(v) /\ rs \in Seq(ReportSet) /\ PosFills(rs) /\ e = a \o m
  BY DEF Lacks
<1>2. w \in Shards /\ Cleaned(v, id, w)
  BY <1>1, CleanupFacts, CleanupCleans
<1>3. /\ e \in Seq(FillSet) /\ a \in Seq(FillSet) /\ m \in Seq(FillSet) /\ Positive(m)
      /\ v.expectedFills \in [Orders -> Seq(FillSet)]
      /\ v.actualFills \in [Orders -> Seq(FillSet)]
  BY LacksFacts
<1> HIDE DEF w, m
<1>4. NoFaults(w)
  BY <1>1, <1>2 DEF Cleaned, NoFaults
<1>5. CASE w.expectedFills = v.expectedFills /\ w.actualFills = v.actualFills
  BY <1>1, <1>2, <1>4, <1>5 DEF Lacks, w
<1>6. CASE /\ foldPartials(e) = foldPartials(a)
           /\ w.expectedFills = [v.expectedFills EXCEPT ![id] = <<>>]
           /\ w.actualFills = [v.actualFills EXCEPT ![id] = <<>>]
  <2>1. m = none
    <3> HIDE DEF e, a
    <3>1. Qty(e) = Qty(a) + Qty(m)
      BY <1>1, <1>3, QtyConcat
    <3>2. Qty(e) = Qty(a)
      BY <1>3, <1>6, PartialsQty
    <3>3. Qty(a) \in Nat /\ Qty(m) \in Nat
      BY <1>3, QtyNat
    <3>4. Qty(m) = 0
      BY <3>1, <3>2, <3>3
    <3> QED BY <1>3, <3>4, QtyPositive
  <2>2. none \o none = none
    OBVIOUS
  <2>3. w.expectedFills = [v.expectedFills EXCEPT ![id] = none]
        /\ w.actualFills = [v.actualFills EXCEPT ![id] = none]
    BY <1>6
  <2> HIDE DEF none
  <2>4. ASSUME NEW x \in Orders PROVE w.expectedFills[x] = w.actualFills[x] \o Mine(x, rs)
    <3>1. CASE x = id
      BY <1>3, <2>1, <2>2, <2>3, <3>1 DEF m
    <3>2. CASE x # id
      <4>1. w.expectedFills[x] = v.expectedFills[x] /\ w.actualFills[x] = v.actualFills[x]
        BY <1>3, <2>3, <3>2
      <4> QED BY <4>1 DEF Lacks
    <3> QED BY <3>1, <3>2
  <2> QED BY <1>1, <1>2, <1>4, <2>4 DEF Lacks, w
<1> QED BY <1>2, <1>5, <1>6 DEF Cleaned, w

\* An expected fill is one more to come.
LEMMA RecordLacks ==
    ASSUME NEW v, NEW rs, Lacks(v, rs), NEW r \in ReportSet, r.status = "filled", r.qty >= 1
    PROVE  Lacks(recordExpectedFill(v, r.order, r.qty, r.price, r.with), Append(rs, r))
<1> DEFINE id == r.order
           f == Fill(r)
           w == recordExpectedFill(v, id, r.qty, r.price, r.with)
           fills == [v.expectedFills EXCEPT ![id] = Append(@, f)]
           t == Append(rs, r)
<1>1. v \in Shards /\ NoFaults(v) /\ rs \in Seq(ReportSet) /\ PosFills(rs)
  BY DEF Lacks
<1>2. id \in Orders /\ f \in FillSet /\ r.qty \in Nat /\ r.price \in Nat /\ r.with \in Orders
  BY FillReportFacts
<1>3. w \in Shards
  BY <1>1, <1>2, RecordFacts
<1>4. w = [v EXCEPT !.expectedFills = fills]
  BY DEF recordExpectedFill, Fill
<1>5. v.expectedFills \in [Orders -> Seq(FillSet)]
  BY <1>1 DEF Shards
<1> HIDE DEF f
<1>6. fills[id] = Append(v.expectedFills[id], f) /\ \A x \in Orders \ {id} : fills[x] = v.expectedFills[x]
  BY <1>2, <1>5
<1> HIDE DEF fills
<1>7. /\ w.expectedFills = fills /\ w.actualFills = v.actualFills /\ NoFaults(w)
  BY <1>1, <1>4 DEF Shards, NoFaults
<1> HIDE DEF w
<1>8. /\ t \in Seq(ReportSet) /\ Len(t) = Len(rs) + 1 /\ Len(rs) \in Nat
      /\ t[Len(rs) + 1] = r /\ \A i \in 1..Len(rs) : t[i] = rs[i]
  BY <1>1
<1>9. \A x \in Orders : Mine(x, t) = IF x = id THEN Append(Mine(x, rs), f) ELSE Mine(x, rs)
  BY <1>1, MineAppend DEF f
<1> HIDE DEF t
<1>10. PosFills(t)
  BY <1>1, <1>8 DEF PosFills
<1>11. ASSUME NEW x \in Orders PROVE w.expectedFills[x] = w.actualFills[x] \o Mine(x, t)
  <2> DEFINE e == v.expectedFills[x]
             a == v.actualFills[x]
             m == Mine(x, rs)
  <2>1. e \in Seq(FillSet) /\ a \in Seq(FillSet) /\ m \in Seq(FillSet) /\ e = a \o m
    BY LacksFacts DEF Lacks
  <2>2. w.actualFills[x] = a /\ w.expectedFills[x] = IF x = id THEN Append(e, f) ELSE e
    BY <1>6, <1>7
  <2>3. Mine(x, t) = IF x = id THEN Append(m, f) ELSE m
    BY <1>9
  <2> HIDE DEF e, a, m
  <2>4. a \o Append(m, f) = Append(a \o m, f)
    BY <1>2, <2>1, CatThenAppend
  <2> QED BY <2>1, <2>2, <2>3, <2>4
<1>12. Lacks(w, t)
  BY <1>3, <1>7, <1>8, <1>10, <1>11 DEF Lacks
<1> QED BY <1>12 DEF w, t, id

\* A level has nothing to do with it.
LEMMA LevelFills ==
    ASSUME NEW v \in Shards, NEW side \in Sides, NEW p \in Prices, NEW level \in Seq(OrderSet)
    PROVE  SameFills(v, WithLevel(v, side, p, level))
<1> DEFINE levels == [v[side] EXCEPT ![p] = level]
           w == [v EXCEPT ![side] = levels]
<1>1. WithLevel(v, side, p, level) = w
  BY DEF WithLevel
<1> HIDE DEF levels
<1>2. SameFills(v, w)
  BY DEF SameFills, Shards, Sides
<1> QED BY <1>1, <1>2

\* A trade is two more expected fills: the incoming order's and the other's.
LEMMA TradeLacks ==
    ASSUME NEW v, NEW rs, Lacks(v, rs), NEW o \in OrderSet, NEW r \in OrderSet,
           NEW qty \in 1..r.qty
    PROVE  Lacks(TradeWith(v, o, r, qty),
                 rs \o <<Engine!FillReport(o.id, qty, r.price, r.id),
                         Engine!FillReport(r.id, qty, r.price, o.id)>>)
<1> DEFINE side == Opposite(o.side)
           x == Engine!FillReport(o.id, qty, r.price, r.id)
           y == Engine!FillReport(r.id, qty, r.price, o.id)
           one == Append(rs, x)
           two == Append(one, y)
           a == recordExpectedFill(v, o.id, qty, r.price, r.id)
           b == recordExpectedFill(a, r.id, qty, r.price, o.id)
           old == b[side][r.price]
           part == [r EXCEPT !.qty = @ - qty]
           new == IF qty = r.qty THEN Without(old, r.id) ELSE ReplaceAll(old, r, part)
           c == WithLevel(b, side, r.price, new)
           w == TradeWith(v, o, r, qty)
<1>0. v \in Shards /\ rs \in Seq(ReportSet)
  BY DEF Lacks
<1>1. /\ o.id \in Orders /\ r.id \in Orders /\ r.price \in Prices /\ r.price \in Nat
      /\ qty \in Nat /\ r.qty \in 1..MaxQty
  <2>1. o.id \in Orders /\ r.id \in Orders /\ r.price \in Prices /\ r.qty \in 1..MaxQty
    BY DEF OrderSet
  <2>2. qty \in Nat
    BY <2>1, ValidatorAssumption
  <2> QED BY <2>1, <2>2, PricesFacts
<1>2. side \in Sides
  BY SideFacts
<1>3. x \in ReportSet /\ y \in ReportSet
  BY <1>1, ReportFacts
<1>4. /\ x.status = "filled" /\ x.order = o.id /\ x.qty = qty /\ x.price = r.price /\ x.with = r.id
      /\ y.status = "filled" /\ y.order = r.id /\ y.qty = qty /\ y.price = r.price /\ y.with = o.id
  BY DEF Engine!FillReport
<1>5. w = IF qty = r.qty
          THEN checkCleanup([b EXCEPT ![side][r.price] = Without(@, r.id)], r.id)
          ELSE [b EXCEPT ![side][r.price] = ReplaceAll(@, r, part)]
  BY DEF TradeWith
<1>6. w = IF qty = r.qty THEN checkCleanup(c, r.id) ELSE c
  BY <1>5 DEF WithLevel
<1>7. rs \o <<x, y>> = two
  <2> HIDE DEF x, y
  <2> QED BY <1>0, <1>3
<1> HIDE DEF x, y, w, side
<1>8. Lacks(a, one)
  <2>1. x.qty >= 1
    BY <1>1, <1>4
  <2>2. Lacks(recordExpectedFill(v, x.order, x.qty, x.price, x.with), Append(rs, x))
    BY <1>3, <1>4, <2>1, RecordLacks
  <2> QED BY <1>4, <2>2
<1> HIDE DEF a, one
<1>9. Lacks(b, two)
  <2>1. y.qty >= 1
    BY <1>1, <1>4
  <2>2. Lacks(recordExpectedFill(a, y.order, y.qty, y.price, y.with), Append(one, y))
    BY <1>3, <1>4, <1>8, <2>1, RecordLacks
  <2> QED BY <1>4, <2>2
<1> HIDE DEF b, two
<1>10. b \in Shards
  BY <1>9 DEF Lacks
<1>11. new \in Seq(OrderSet)
  <2>1. old \in Seq(OrderSet)
    BY <1>1, <1>2, <1>10, BookFacts
  <2>2. part \in OrderSet \/ qty = r.qty
    BY <1>1, ValidatorAssumption DEF OrderSet
  <2> HIDE DEF old, part
  <2>3. Without(old, r.id) \in Seq(OrderSet)
    BY <2>1, WithoutFacts
  <2>4. qty # r.qty => ReplaceAll(old, r, part) \in Seq(OrderSet)
    BY <2>1, <2>2, ReplaceFacts
  <2> QED BY <2>3, <2>4
<1> HIDE DEF new
<1>12. c \in Shards /\ SameFills(b, c)
  BY <1>1, <1>2, <1>10, <1>11, LevelFacts, LevelFills
<1> HIDE DEF c
<1>13. Lacks(c, two)
  BY <1>9, <1>12, LacksSame
<1>14. Lacks(checkCleanup(c, r.id), two)
  BY <1>1, <1>13, CleanupLacks
<1>15. Lacks(w, two)
  BY <1>6, <1>13, <1>14
<1> QED BY <1>7, <1>15 DEF w, x, y

\* The validator's loop expects what the engine's reports.
Owed(v, o, t) ==
    LET a == MatchSeq(v, o, Only(t, Makable(o)))
        e == EngineSeq(o, t)
    IN  a.left = e.left /\ Lacks(a.v, e.reports)

\* One more resting order in the loops.
LEMMA OwedStep ==
    ASSUME NEW v \in Shards, NEW o \in OrderSet, NEW t \in Seq(OrderSet), NEW r \in OrderSet,
           Owed(v, o, t)
    PROVE  Owed(v, o, Append(t, r))
<1> DEFINE K == Makable(o)
           tr == Append(t, r)
           ms == Only(t, K)
           a == MatchSeq(v, o, ms)
           b == MatchSeq(v, o, Only(tr, K))
           acc == EngineSeq(o, t)
           e == EngineSeq(o, tr)
           q == Smallest(r.qty, acc.left)
           x == Engine!FillReport(o.id, q, r.price, r.id)
           y == Engine!FillReport(r.id, q, r.price, o.id)
<1>1. ms \in Seq(OrderSet)
  BY OnlyFacts
<1>2. Only(tr, K) = IF r \in K THEN Append(ms, r) ELSE ms
  <2> HIDE DEF K
  <2> QED BY OnlyAppend
<1>3. a \in Accs /\ MatchSeq(v, o, Append(ms, r)) = MatchStep(o, a, r)
  <2> HIDE DEF ms
  <2> QED BY <1>1, MatchSeqAppend
<1>4. acc \in EngineAccs /\ e = Engine!MatchNext(o, acc, r)
  BY EngineSeqAppend
<1>5. a.left = acc.left /\ Lacks(a.v, acc.reports)
  BY DEF Owed
<1>6. b = IF r \in K THEN MatchStep(o, a, r) ELSE a
  BY <1>2, <1>3
<1> HIDE DEF K, ms, a, b, acc, e, tr
<1>7. /\ acc.left = 0 \/ r \notin K => e.left = acc.left /\ e.reports = acc.reports
      /\ acc.left # 0 /\ r \in K =>
           /\ e.left = acc.left - q
           /\ e.reports = acc.reports \o <<x, y>>
           /\ q \in 1..r.qty
  BY <1>4, MatchNextCases, ZenonT(60) DEF K
<1> HIDE DEF q
<1>8. SUFFICES b.left = e.left /\ Lacks(b.v, e.reports)
  BY DEF Owed, b, e, tr, K
<1>9. CASE acc.left = 0 \/ r \notin K
  <2>1. b = a
    BY <1>5, <1>6, <1>9 DEF MatchStep
  <2> QED BY <1>5, <1>7, <1>9, <2>1
<1>10. CASE acc.left # 0 /\ r \in K
  <2> DEFINE w == TradeWith(a.v, o, r, q)
  <2>1. b = [v |-> w, left |-> a.left - q]
    BY <1>5, <1>6, <1>10 DEF MatchStep, q
  <2>2. Lacks(w, acc.reports \o <<x, y>>)
    BY <1>5, <1>7, <1>10, TradeLacks
  <2> HIDE DEF w, x, y
  <2> QED BY <1>5, <1>7, <1>10, <2>1, <2>2
<1> QED BY <1>9, <1>10

\* Nothing is expected, and an acknowledgement reported.
LEMMA LacksAck ==
    ASSUME NEW v, NEW none, none = <<>>, Lacks(v, none), NEW r \in ReportSet, r.status # "filled"
    PROVE  Lacks(v, <<r>>)
<1> DEFINE one == <<r>>
<1>1. one \in Seq(ReportSet) /\ Len(one) = 1 /\ one[1] = r
  OBVIOUS
<1>2. \A x \in Orders : Mine(x, one) = Mine(x, none)
  BY MineOne, MineEmpty
<1> HIDE DEF one
<1>3. PosFills(one)
  BY <1>1 DEF PosFills
<1>4. Lacks(v, one)
  BY <1>1, <1>2, <1>3 DEF Lacks
<1> QED BY <1>4 DEF one

\* The validator expects the fills that the engine reports, trade by trade.
LEMMA FillsAgree ==
    ASSUME NEW v, NEW none, none = <<>>, Lacks(v, none), NEW o \in OrderSet
    PROVE  \A t \in Seq(OrderSet) : Owed(v, o, t)
<1> DEFINE T == {t \in Seq(OrderSet) : Owed(v, o, t)}
<1>0. v \in Shards
  BY DEF Lacks
<1>1. <<>> \in T
  <2> DEFINE e == <<>>
             ack == Engine!Ack(o.id, "accepted")
  <2>1. e \in Seq(OrderSet) /\ Only(e, Makable(o)) = e
    BY OnlyEmpty
  <2>2. MatchSeq(v, o, e) = [v |-> v, left |-> o.qty] /\ EngineSeq(o, e) = EngineBase(o)
    BY <1>0, MatchSeqEmpty, EngineSeqEmpty
  <2>3. EngineBase(o).left = o.qty /\ EngineBase(o).reports = <<ack>>
    BY DEF EngineBase
  <2>4. ack \in ReportSet /\ ack.status # "filled"
    <3>1. o.id \in Orders
      BY DEF OrderSet
    <3> QED BY <3>1 DEF Engine!Ack, ReportSet
  <2> HIDE DEF e, ack
  <2>5. Lacks(v, <<ack>>)
    BY <2>4, LacksAck
  <2>6. Owed(v, o, e)
    BY <2>1, <2>2, <2>3, <2>5 DEF Owed
  <2> QED BY <2>1, <2>6 DEF e
<1>2. ASSUME NEW t \in Seq(OrderSet), NEW r \in OrderSet, t \in T PROVE Append(t, r) \in T
  <2> DEFINE tr == Append(t, r)
  <2>1. tr \in Seq(OrderSet) /\ Owed(v, o, tr)
    BY <1>0, <1>2, OwedStep
  <2> HIDE DEF tr
  <2>2. tr \in T
    BY <2>1
  <2> QED BY <2>2 DEF tr
<1>3. \A t \in Seq(OrderSet) : t \in T
  <2> HIDE DEF T
  <2> QED BY <1>1, <1>2, SeqsInduction
<1> QED BY <1>3

\* A sequence is its first element and the others.
LEMMA HeadThenTail ==
    ASSUME NEW A, NEW s \in Seq(A), s # <<>>
    PROVE  /\ s = <<Head(s)>> \o Tail(s) /\ Head(s) \in A /\ Tail(s) \in Seq(A)
           /\ <<Head(s)>> \in Seq(A) /\ Len(s) \in Nat /\ Len(s) >= 1 /\ Len(Tail(s)) = Len(s) - 1
           /\ Head(s) = s[1] /\ \A i \in 1..Len(Tail(s)) : Tail(s)[i] = s[i + 1]
  OBVIOUS

\* Mine, of the first report and of the others.
LEMMA MineHead ==
    ASSUME NEW rs \in Seq(ReportSet), rs # <<>>, PosFills(rs), NEW x
    PROVE  /\ Mine(x, rs) = Mine(x, <<Head(rs)>>) \o Mine(x, Tail(rs))
           /\ PosFills(Tail(rs))
<1> DEFINE one == <<Head(rs)>>
           t == Tail(rs)
<1>1. /\ rs = one \o t /\ one \in Seq(ReportSet) /\ t \in Seq(ReportSet)
      /\ Len(rs) \in Nat /\ Len(rs) >= 1 /\ Len(t) = Len(rs) - 1
      /\ \A i \in 1..Len(t) : t[i] = rs[i + 1]
  BY HeadThenTail
<1> HIDE DEF one, t
<1>2. Mine(x, rs) = Mine(x, one) \o Mine(x, t)
  BY <1>1, MineConcat
<1>3. PosFills(t)
  BY <1>1 DEF PosFills
<1> QED BY <1>2, <1>3 DEF one, t

\* A report that is no fill takes nothing off.
LEMMA LacksTail ==
    ASSUME NEW v, NEW rs, Lacks(v, rs), rs # <<>>, Head(rs).status # "filled"
    PROVE  Lacks(v, Tail(rs))
<1> DEFINE t == Tail(rs)
           r == Head(rs)
<1>1. rs \in Seq(ReportSet) /\ PosFills(rs)
  BY DEF Lacks
<1>2. t \in Seq(ReportSet) /\ r \in ReportSet
  BY <1>1, HeadThenTail
<1>3. PosFills(t) /\ \A x \in Orders : Mine(x, rs) = Mine(x, <<r>>) \o Mine(x, t)
  BY <1>1, MineHead
<1> HIDE DEF t
<1>4. \A x \in Orders : Mine(x, rs) = Mine(x, t)
  <2> TAKE x \in Orders
  <2> DEFINE m == Mine(x, t)
  <2>1. m \in Seq(FillSet)
    BY <1>2, MineType
  <2>2. Mine(x, <<r>>) = <<>>
    BY <1>2, MineOne
  <2>3. <<>> \o m = m
    <3> HIDE DEF m
    <3> QED BY <2>1, CatEmpty
  <2> QED BY <1>3, <2>2, <2>3
<1>5. Lacks(v, t)
  BY <1>2, <1>3, <1>4 DEF Lacks
<1> QED BY <1>5 DEF t

\* ProcessFill takes the fill off that was expected next.
LEMMA FillLacks ==
    ASSUME NEW v, NEW rs, Lacks(v, rs), rs # <<>>, Head(rs).status = "filled"
    PROVE  Lacks(ProcessFill(v, Head(rs).order, Fill(Head(rs))), Tail(rs))
<1> DEFINE r == Head(rs)
           t == Tail(rs)
           id == r.order
           f == Fill(r)
           fills == [v.actualFills EXCEPT ![id] = Append(@, f)]
           next == [v EXCEPT !.actualFills = fills]
<1>1. v \in Shards /\ NoFaults(v) /\ rs \in Seq(ReportSet) /\ PosFills(rs)
  BY DEF Lacks
<1>2. t \in Seq(ReportSet) /\ r \in ReportSet
  BY <1>1, HeadThenTail
<1>3. PosFills(t) /\ \A x \in Orders : Mine(x, rs) = Mine(x, <<r>>) \o Mine(x, t)
  BY <1>1, MineHead
<1> HIDE DEF t, r
<1>4. id \in Orders /\ f \in FillSet
  BY <1>2, FillReportFacts DEF r
<1>5. v.actualFills \in [Orders -> Seq(FillSet)]
  BY <1>1 DEF Shards
<1>6. \A x \in Orders : Mine(x, <<r>>) = IF x = id THEN <<f>> ELSE <<>>
  BY <1>2, MineOne DEF r
<1>7. ProcessFill(v, id, f) = checkCleanup(next, id)
  BY DEF ProcessFill
<1> HIDE DEF f, id
<1>8. /\ fills \in [Orders -> Seq(FillSet)] /\ fills[id] = Append(v.actualFills[id], f)
      /\ \A x \in Orders \ {id} : fills[x] = v.actualFills[x]
  BY <1>4, <1>5
<1> HIDE DEF fills
<1>9. next \in Shards /\ NoFaults(next) /\ next.expectedFills = v.expectedFills
      /\ next.actualFills = fills
  BY <1>1, <1>8 DEF Shards, NoFaults
<1> HIDE DEF next
<1>10. ASSUME NEW x \in Orders PROVE next.expectedFills[x] = next.actualFills[x] \o Mine(x, t)
  <2> DEFINE e == v.expectedFills[x]
             a == v.actualFills[x]
             m == Mine(x, t)
             n == Mine(x, rs)
  <2>1. a \in Seq(FillSet) /\ m \in Seq(FillSet) /\ e = a \o n
    <3>1. m \in Seq(FillSet)
      BY <1>2, MineType
    <3>2. a \in Seq(FillSet) /\ e = a \o n
      BY LacksFacts DEF Lacks
    <3> QED BY <3>1, <3>2
  <2>2. CASE x = id
    <3>1. n = <<f>> \o m
      BY <1>3, <1>6, <2>2
    <3>2. next.actualFills[x] = Append(a, f) /\ next.expectedFills[x] = e
      BY <1>8, <1>9, <2>2
    <3> HIDE DEF e, a, m, n
    <3>3. Append(a, f) \o m = a \o (<<f>> \o m)
      BY <1>4, <2>1, AppendThenCat
    <3> QED BY <2>1, <3>1, <3>2, <3>3 DEF m
  <2>3. CASE x # id
    <3>1. n = <<>> \o m
      BY <1>3, <1>6, <2>3
    <3>2. next.actualFills[x] = a /\ next.expectedFills[x] = e
      BY <1>8, <1>9, <2>3
    <3> HIDE DEF e, a, m, n
    <3>3. <<>> \o m = m
      BY <2>1, CatEmpty
    <3> QED BY <2>1, <3>1, <3>2, <3>3 DEF m
  <2> QED BY <2>2, <2>3
<1>11. Lacks(next, t)
  BY <1>2, <1>3, <1>9, <1>10 DEF Lacks
<1>12. Lacks(checkCleanup(next, id), t)
  BY <1>4, <1>11, CleanupLacks
<1> QED BY <1>7, <1>12 DEF id, f, r, t

\* An accepted order: the fills to come are those the engine reports.
LEMMA AcceptLacks ==
    ASSUME NEW v, ShardInv(v), NEW none, none = <<>>, Lacks(v, none), NEW o \in OrderSet
    PROVE  Lacks(Accept(v, o), Engine!HandleOrder(Form(v), o).reports)
<1> DEFINE side == Opposite(o.side)
           own == Own(o.side)
           a == matchIncoming(v, o, o.type = "limit")
           S == Line(v[side], side)
           e == EngineSeq(o, S)
           w == Accept(v, o)
           rest == [o EXCEPT !.qty = a.left]
           F == Form(v)
<1>1. v \in Shards /\ Placed(v)
  BY DEF ShardInv
<1>2. LevelsPlaced(v[side]) /\ side \in Sides /\ own \in Sides
  BY <1>1, SideFacts DEF Placed, LevelsPlaced
<1>3. F \in BookSet /\ F[Engine!Against(o.side)] = S
  BY <1>1, FormFacts
<1>4. S \in Seq(OrderSet)
  <2>1. v[side] \in Levels
    BY <1>1, <1>2, BookFacts DEF Levels
  <2> QED BY <2>1, LineFacts
<1>5. Makers(v, o, o.type = "limit") = Only(S, Makable(o))
  BY <1>1, <1>2, MakersLine
<1>6. a = MatchSeq(v, o, Only(S, Makable(o)))
  BY <1>5, MatchIsSeq
<1>7. w = IF o.type = "limit" /\ a.left # 0 THEN addOrderToBook(a.v, rest) ELSE a.v
  BY DEF Accept, matchLimitOrder, matchMarketOrder
<1> HIDE DEF F, w, a
<1>8. Engine!HandleOrder(F, o).reports = e.reports
  <2> HIDE DEF S
  <2> QED BY <1>3, HandleSlices
<1> HIDE DEF S
<1>9. Owed(v, o, S)
  BY <1>4, FillsAgree
<1>10. a.left = e.left /\ Lacks(a.v, e.reports)
  BY <1>6, <1>9 DEF Owed
<1>11. a.v \in Shards /\ a.left \in 0..MaxQty
  <2>1. e \in EngineAccs
    BY <1>3, HandleSlices
  <2> QED BY <1>10, <2>1 DEF Lacks, EngineAccs
<1> HIDE DEF e
<1>12. CASE o.type = "limit" /\ a.left # 0
  <2> DEFINE old == a.v[own][rest.price]
             new == Append(old, rest)
             u == a.v
  <2>1. rest \in OrderSet /\ rest.price = o.price /\ rest.side = o.side /\ rest.price \in Prices
    <3>1. a.left \in 1..MaxQty
      BY <1>11, <1>12, ValidatorAssumption
    <3> QED BY <3>1 DEF OrderSet
  <2>2. w = WithLevel(a.v, own, rest.price, new)
    BY <1>7, <1>12, <2>1 DEF addOrderToBook, WithLevel
  <2> HIDE DEF rest
  <2>3. old \in Seq(OrderSet)
    BY <1>2, <1>11, <2>1, BookFacts
  <2>4. new \in Seq(OrderSet)
    <3> HIDE DEF old
    <3> QED BY <2>1, <2>3
  <2> HIDE DEF new, own
  <2>5. w \in Shards /\ SameFills(a.v, w)
    <3>1. u \in Shards /\ w = WithLevel(u, own, rest.price, new)
      BY <1>11, <2>2
    <3> HIDE DEF u
    <3>2. w \in Shards /\ SameFills(u, w)
      BY <1>2, <2>1, <2>4, <3>1, LevelFacts, LevelFills
    <3> QED BY <3>2 DEF u
  <2>6. Lacks(w, e.reports)
    BY <1>10, <2>5, LacksSame
  <2> QED BY <1>8, <2>6 DEF w, F
<1>13. CASE ~(o.type = "limit" /\ a.left # 0)
  BY <1>7, <1>8, <1>10, <1>13 DEF w, F
<1> QED BY <1>12, <1>13

-----------------------------------------------------------------------------
(* Reports on their way.                                                   *)

\* The orders the reports acknowledge, and those the validator knows or will.
AckIds(rs) == {rs[i].order : i \in {j \in DOMAIN rs : rs[j].status = "accepted"}}
Known(acc, rs) == acc \cup AckIds(rs)

UniqueIds(P) == \A p, q \in P : p.id = q.id => p = q

\* A book, and the fills that are still to be reported of what led to it.
Accounts == [book : BookSet, due : Seq(ReportSet)]
Account(b, s) == [book |-> b, due |-> s]
Settled(b) == Account(b, <<>>)

\* The account when the engine has acknowledged o.
Opened(b, o) == LET r == Engine!HandleOrder(b, o) IN Account(r.book, Tail(r.reports))

\* The report r takes the account a to c: a fill is the one that is due, and
\* while one is due nothing else is reported.
Moves(a, r, P, c) ==
    /\ r.status = "filled" =>
         a.due # <<>> /\ r = Head(a.due) /\ c = Account(a.book, Tail(a.due))
    /\ r.status # "filled" => a.due = <<>>
    /\ r.status = "accepted" => \E p \in P : p.id = r.order /\ c = Opened(a.book, p)
    /\ r.status = "cancelled" => c = Settled(WithoutBook(a.book, r.order))
    /\ r.status \notin {"filled", "accepted", "cancelled"} => c = a

\* The reports rs take the account a to z, by way of the accounts g.
Replays(g, a, P, rs, z) ==
    /\ g \in [0..Len(rs) -> Accounts]
    /\ g[0] = a /\ g[Len(rs)] = z
    /\ \A i \in 1..Len(rs) : Moves(g[i - 1], rs[i], P, g[i])
Replayed(a, P, rs, z) == \E g : Replays(g, a, P, rs, z)

\* The elements of a tail.
LEMMA TailAt ==
    ASSUME NEW A, NEW s \in Seq(A), s # <<>>, NEW t, t = Tail(s)
    PROVE  /\ t \in Seq(A) /\ Len(s) \in Nat /\ Len(s) >= 1 /\ Len(t) = Len(s) - 1
           /\ Head(s) = s[1] /\ s[1] \in A
           /\ \A i \in 1..Len(t) : t[i] = s[i + 1]
  OBVIOUS

\* A report takes a book to one book only.
LEMMA MovesOnce ==
    ASSUME NEW b, NEW r, NEW P, NEW c, NEW d, UniqueIds(P), Moves(b, r, P, c), Moves(b, r, P, d)
    PROVE  c = d
<1>1. CASE r.status = "accepted"
  <2>1. PICK p \in P : p.id = r.order /\ c = Opened(b.book, p)
    BY <1>1 DEF Moves
  <2>2. PICK q \in P : q.id = r.order /\ d = Opened(b.book, q)
    BY <1>1 DEF Moves
  <2>3. p = q
    BY <2>1, <2>2 DEF UniqueIds
  <2> QED BY <2>1, <2>2, <2>3
<1>2. CASE r.status # "accepted"
  BY <1>2 DEF Moves
<1> QED BY <1>1, <1>2

\* With no report on its way the two books are equal.
LEMMA ReplayDone ==
    ASSUME NEW a \in Accounts, NEW P, NEW z
    PROVE  Replayed(a, P, <<>>, z) <=> z = a
<1> DEFINE e == <<>>
<1>1. Len(e) = 0
  OBVIOUS
<1> HIDE DEF e
<1>2. ASSUME Replayed(a, P, e, z) PROVE z = a
  BY <1>1, <1>2 DEF Replayed, Replays
<1>3. ASSUME z = a PROVE Replayed(a, P, e, z)
  <2> DEFINE g == [i \in 0..0 |-> z]
  <2>1. g \in [0..Len(e) -> Accounts] /\ g[0] = a /\ g[Len(e)] = z
    BY <1>1, <1>3
  <2>2. 1..Len(e) = {}
    BY <1>1
  <2> HIDE DEF g
  <2> QED BY <2>1, <2>2 DEF Replayed, Replays
<1> QED BY <1>2, <1>3 DEF e

\* More pending orders change nothing.
LEMMA ReplaySame ==
    ASSUME NEW a, NEW P, NEW Q, NEW rs, NEW z, Replayed(a, P, rs, z), P \subseteq Q
    PROVE  Replayed(a, Q, rs, z)
<1>1. PICK g : Replays(g, a, P, rs, z)
  BY DEF Replayed
<1>2. Replays(g, a, Q, rs, z)
  BY <1>1 DEF Replays, Moves
<1> QED BY <1>2 DEF Replayed

\* Reports, then more reports.
LEMMA ReplayMore ==
    ASSUME NEW a, NEW P, NEW rs \in Seq(ReportSet), NEW t \in Seq(ReportSet), NEW z, NEW c,
           Replayed(a, P, rs, z), Replayed(z, P, t, c)
    PROVE  Replayed(a, P, rs \o t, c)
<1> DEFINE u == rs \o t
           n == Len(rs)
           m == Len(t)
<1>1. PICK g : Replays(g, a, P, rs, z)
  BY DEF Replayed
<1>1a. PICK k : Replays(k, z, P, t, c)
  BY DEF Replayed
<1> DEFINE h == [i \in 0..Len(u) |-> IF i <= n THEN g[i] ELSE k[i - n]]
<1>2. u = rs \o t
  OBVIOUS
<1>3. n \in Nat /\ m \in Nat
  BY SeqFacts
<1> HIDE DEF u
<1>4. /\ Len(u) = n + m
      /\ \A i \in 1..n : u[i] = rs[i]
      /\ \A i \in 1..m : u[n + i] = t[i]
  BY <1>2, CatAt
<1>5. /\ \A i \in 0..n : g[i] \in Accounts
      /\ g[0] = a /\ g[n] = z
      /\ \A i \in 1..n : Moves(g[i - 1], rs[i], P, g[i])
  BY <1>1 DEF Replays
<1>6. /\ \A i \in 0..m : k[i] \in Accounts
      /\ k[0] = z /\ k[m] = c
      /\ \A i \in 1..m : Moves(k[i - 1], t[i], P, k[i])
  BY <1>1a DEF Replays
<1> HIDE DEF n, m
<1>7. /\ \A i \in 0..n : h[i] = g[i]
      /\ \A i \in 0..m : h[n + i] = k[i]
  <2>1. ASSUME NEW i \in 0..m PROVE h[n + i] = k[i]
    <3>1. CASE i = 0
      BY <1>3, <1>4, <1>5, <1>6, <3>1
    <3>2. CASE i # 0
      <4>1. n + i \in 0..Len(u) /\ ~(n + i <= n) /\ (n + i) - n = i
        BY <1>3, <1>4, <3>2
      <4> QED BY <4>1
    <3> QED BY <3>1, <3>2
  <2> QED BY <1>3, <1>4, <2>1
<1>8. ASSUME NEW i \in 0..Len(u) PROVE i \in 0..n \/ (i - n \in 1..m /\ i - n \in 0..m /\ n + (i - n) = i)
  BY <1>3, <1>4
<1>9. h \in [0..Len(u) -> Accounts] /\ h[0] = a /\ h[Len(u)] = c
  <2>1. \A i \in 0..Len(u) : h[i] \in Accounts
    <3> TAKE i \in 0..Len(u)
    <3> HIDE DEF h
    <3>1. CASE i \in 0..n
      BY <1>5, <1>7, <3>1
    <3>2. CASE i - n \in 0..m /\ n + (i - n) = i
      <4>1. h[n + (i - n)] = k[i - n]
        BY <1>7, <3>2
      <4> QED BY <1>6, <3>2, <4>1
    <3> QED BY <1>8, <3>1, <3>2
  <2>2. h[0] = a /\ h[Len(u)] = c
    <3> HIDE DEF h
    <3>1. 0 \in 0..n /\ m \in 0..m
      BY <1>3
    <3> QED BY <1>4, <1>5, <1>6, <1>7, <3>1
  <2> QED BY <2>1, <2>2
<1> HIDE DEF h
<1>10. ASSUME NEW i \in 1..Len(u) PROVE Moves(h[i - 1], u[i], P, h[i])
  <2>1. CASE i <= n
    <3>1. h[i - 1] = g[i - 1] /\ h[i] = g[i] /\ u[i] = rs[i] /\ i \in 1..n
      BY <1>3, <1>4, <1>7, <2>1
    <3> QED BY <1>5, <3>1
  <2>2. CASE i > n
    <3> DEFINE j == i - n
    <3>1. j \in 1..m /\ j \in 0..m /\ j - 1 \in 0..m /\ n + j = i /\ n + (j - 1) = i - 1
      BY <1>3, <1>4, <2>2
    <3> HIDE DEF j
    <3>2. h[i - 1] = k[j - 1] /\ h[i] = k[j] /\ u[i] = t[j]
      BY <1>4, <1>7, <3>1
    <3> QED BY <1>6, <3>1, <3>2
  <2> QED BY <1>3, <2>1, <2>2
<1>11. Replays(h, a, P, u, c)
  BY <1>9, <1>10 DEF Replays
<1> QED BY <1>2, <1>11 DEF Replayed

\* The validator takes the first report.
LEMMA ReplayHead ==
    ASSUME NEW a, NEW c, NEW P, NEW Q, NEW rs \in Seq(ReportSet), rs # <<>>, NEW z,
           Replayed(a, P, rs, z), UniqueIds(P), Moves(a, Head(rs), P, c),
           \A i \in 2..Len(rs) : rs[i].status = "accepted" =>
             \A p \in P : p.id = rs[i].order => p \in Q
    PROVE  Replayed(c, Q, Tail(rs), z)
<1> DEFINE t == Tail(rs)
<1>1. PICK g : Replays(g, a, P, rs, z)
  BY DEF Replayed
<1>2. t = Tail(rs)
  OBVIOUS
<1> HIDE DEF t
<1>3. /\ Len(rs) \in Nat /\ Len(rs) >= 1 /\ Len(t) = Len(rs) - 1 /\ Head(rs) = rs[1]
      /\ \A i \in 1..Len(t) : t[i] = rs[i + 1]
  BY <1>2, TailAt
<1> DEFINE h == [i \in 0..Len(t) |-> g[i + 1]]
<1>4. /\ \A i \in 0..Len(rs) : g[i] \in Accounts
      /\ g[0] = a /\ g[Len(rs)] = z
      /\ \A i \in 1..Len(rs) : Moves(g[i - 1], rs[i], P, g[i])
  BY <1>1 DEF Replays
<1>5. g[1] = c
  <2>1. Moves(g[1 - 1], rs[1], P, g[1])
    BY <1>3, <1>4
  <2>2. 1 - 1 = 0
    OBVIOUS
  <2>3. Moves(a, Head(rs), P, g[1])
    BY <1>3, <1>4, <2>1, <2>2
  <2> QED BY <2>3, MovesOnce
<1>6. h \in [0..Len(t) -> Accounts] /\ h[0] = c /\ h[Len(t)] = z
  BY <1>3, <1>4, <1>5
<1>7. ASSUME NEW i \in 1..Len(t) PROVE Moves(h[i - 1], t[i], Q, h[i])
  <2>1. h[i - 1] = g[i] /\ h[i] = g[i + 1] /\ t[i] = rs[i + 1] /\ i + 1 \in 2..Len(rs)
    BY <1>3
  <2>2. Moves(g[(i + 1) - 1], rs[i + 1], P, g[i + 1])
    BY <1>3, <1>4
  <2>3. (i + 1) - 1 = i
    OBVIOUS
  <2>4. Moves(h[i - 1], t[i], P, h[i])
    BY <2>1, <2>2, <2>3
  <2>5. t[i].status = "accepted" =>
          \A p \in P : p.id = t[i].order => p \in Q
    BY <2>1
  <2> HIDE DEF h
  <2> QED BY <2>4, <2>5 DEF Moves
<1> HIDE DEF h
<1>8. Replays(h, c, Q, t, z)
  BY <1>6, <1>7 DEF Replays
<1> QED BY <1>2, <1>8 DEF Replayed

\* The first report moves the first account.
LEMMA ReplayFirst ==
    ASSUME NEW a, NEW P, NEW rs \in Seq(ReportSet), rs # <<>>, NEW z, Replayed(a, P, rs, z)
    PROVE  \E c : Moves(a, Head(rs), P, c)
<1>1. PICK g : Replays(g, a, P, rs, z)
  BY DEF Replayed
<1>2. Len(rs) \in Nat /\ Len(rs) >= 1 /\ Head(rs) = rs[1]
  BY TailAt
<1>3. Moves(g[1 - 1], rs[1], P, g[1]) /\ 1 - 1 = 0 /\ g[0] = a
  BY <1>1, <1>2 DEF Replays
<1> QED BY <1>2, <1>3

\* One report.
LEMMA ReplayOne ==
    ASSUME NEW a \in Accounts, NEW c \in Accounts, NEW P, NEW r \in ReportSet, Moves(a, r, P, c)
    PROVE  Replayed(a, P, <<r>>, c)
<1> DEFINE t == <<r>>
           h == [i \in 0..1 |-> IF i = 0 THEN a ELSE c]
<1>1. Len(t) = 1 /\ t[1] = r
  OBVIOUS
<1> HIDE DEF t
<1>2. h \in [0..Len(t) -> Accounts] /\ h[0] = a /\ h[1] = c
  BY <1>1
<1> HIDE DEF h
<1>3. ASSUME NEW i \in 1..Len(t) PROVE Moves(h[i - 1], t[i], P, h[i])
  <2>1. i = 1 /\ i - 1 = 0
    BY <1>1
  <2> QED BY <1>1, <1>2, <2>1
<1>4. Replays(h, a, P, t, c)
  BY <1>1, <1>2, <1>3 DEF Replays
<1> QED BY <1>4 DEF Replayed, t

\* The reports on an order: each fill is due from its acknowledgement on.
LEMMA ReplayAnswers ==
    ASSUME NEW b \in BookSet, NEW P, NEW o \in P, o \in OrderSet
    PROVE  LET r == Engine!HandleOrder(b, o)
           IN  Replayed(Settled(b), P, r.reports, Settled(r.book))
<1> DEFINE t == Engine!HandleOrder(b, o).reports
           c == Engine!HandleOrder(b, o).book
           m == Len(t)
           D(k) == SubSeq(t, k + 1, Len(t))
           h == [i \in 0..m |-> IF i = 0 THEN Settled(b) ELSE Account(c, D(i))]
<1>1. Answers(t, o.id, BookIds(b))
  BY HandleAnswers
<1>2. c \in BookSet
  BY HandleFacts
<1>3. Opened(b, o) = Account(c, Tail(t))
  BY DEF Opened
<1> HIDE DEF t, c
<1>4. t \in Seq(ReportSet) /\ m \in Nat /\ m >= 1
  BY <1>1 DEF Answers
<1>5. ASSUME NEW k \in 0..m
      PROVE  D(k) \in Seq(ReportSet) /\ Len(D(k)) = m - k /\ \A i \in 1..(m - k) : D(k)[i] = t[k + i]
  BY <1>4, FromIndex
<1>6. ASSUME NEW k \in 0..m, k < m
      PROVE  D(k) # <<>> /\ Head(D(k)) = t[k + 1] /\ Tail(D(k)) = D(k + 1)
  <2> DEFINE s == D(k)
             u == D(k + 1)
  <2>1. /\ s \in Seq(ReportSet) /\ Len(s) = m - k
        /\ \A i \in 1..(m - k) : s[i] = t[k + i]
    BY <1>5
  <2>2. k + 1 \in 0..m
    BY <1>4, <1>6
  <2>3. /\ u \in Seq(ReportSet) /\ Len(u) = m - (k + 1)
        /\ \A i \in 1..(m - (k + 1)) : u[i] = t[(k + 1) + i]
    BY <1>5, <2>2
  <2> HIDE DEF D, s, u
  <2>4. s # <<>>
    BY <1>4, <1>6, <2>1
  <2> DEFINE v == Tail(s)
  <2>5. v = Tail(s)
    OBVIOUS
  <2> HIDE DEF v
  <2>6. /\ v \in Seq(ReportSet) /\ Len(v) = Len(s) - 1 /\ Head(s) = s[1]
        /\ \A i \in 1..Len(v) : v[i] = s[i + 1]
    BY <2>1, <2>4, <2>5, TailAt
  <2>7. Head(s) = t[k + 1]
    BY <1>4, <1>6, <2>1, <2>6
  <2>8. Len(v) = Len(u)
    BY <1>4, <2>1, <2>3, <2>6
  <2>9. ASSUME NEW i \in 1..Len(v) PROVE v[i] = u[i]
    <3>1. i + 1 \in 1..(m - k) /\ i \in 1..(m - (k + 1)) /\ k + (i + 1) = (k + 1) + i
      BY <1>4, <2>1, <2>6
    <3> QED BY <2>1, <2>3, <2>6, <3>1
  <2>10. v = u
    BY <2>3, <2>6, <2>8, <2>9, SeqEqual
  <2> QED BY <2>4, <2>5, <2>7, <2>10 DEF s, u
<1>7. D(0) = t
  <2> DEFINE s == D(0)
  <2>1. s \in Seq(ReportSet) /\ Len(s) = m - 0 /\ \A i \in 1..(m - 0) : s[i] = t[0 + i]
    BY <1>4, <1>5
  <2> HIDE DEF D, s
  <2>2. Len(s) = Len(t) /\ \A i \in 1..Len(s) : s[i] = t[i]
    BY <1>4, <2>1
  <2>3. s = t
    BY <1>4, <2>1, <2>2, SeqEqual
  <2> QED BY <2>3 DEF s
<1>8. D(m) = <<>>
  <2>1. D(m) \in Seq(ReportSet) /\ Len(D(m)) = m - m
    BY <1>4, <1>5
  <2> HIDE DEF D
  <2>2. Len(D(m)) = 0
    BY <1>4, <2>1
  <2> QED BY <2>1, <2>2, EmptySeq
<1> HIDE DEF D
<1>9. h \in [0..m -> Accounts]
  <2>1. \A i \in 0..m : Account(c, D(i)) \in Accounts
    BY <1>2, <1>5 DEF Account, Accounts
  <2>2. Settled(b) \in Accounts
    BY DEF Settled, Account, Accounts
  <2> QED BY <2>1, <2>2
<1>10. /\ h[0] = Settled(b) /\ h[m] = Settled(c)
       /\ \A i \in 1..m : h[i] = Account(c, D(i))
  BY <1>4, <1>8 DEF Settled
<1> HIDE DEF h
<1>11. ASSUME NEW i \in 1..m PROVE Moves(h[i - 1], t[i], P, h[i])
  <2>1. CASE i = 1
    <3>1. t[1].order = o.id /\ t[1].status = "accepted"
      BY <1>1 DEF Answers
    <3>2. D(1) = Tail(t)
      <4>1. 0 \in 0..m /\ 0 < m /\ 0 + 1 = 1
        BY <1>4
      <4> QED BY <1>6, <1>7, <4>1
    <3>2a. 1 \in 1..m /\ i - 1 = 0
      BY <1>4, <2>1
    <3>2b. h[1] = Account(c, D(1))
      BY <1>10, <3>2a
    <3>3. h[1] = Opened(b, o) /\ h[i - 1] = Settled(b)
      BY <1>3, <1>10, <3>2, <3>2a, <3>2b
    <3>4. Settled(b).book = b /\ Settled(b).due = <<>>
      BY DEF Settled, Account
    <3> QED BY <2>1, <3>1, <3>3, <3>4 DEF Moves
  <2>2. CASE i # 1
    <3> DEFINE k == i - 1
    <3>1. k \in 0..m /\ k \in 1..m /\ k < m /\ k + 1 = i /\ i \in 2..m
      BY <1>4, <2>2
    <3>2. t[i].status = "filled"
      BY <1>1, <3>1 DEF Answers
    <3> HIDE DEF k
    <3>3. D(k) # <<>> /\ Head(D(k)) = t[i] /\ Tail(D(k)) = D(i)
      BY <1>6, <3>1
    <3>4. h[k] = Account(c, D(k)) /\ h[i] = Account(c, D(i))
      BY <1>10, <3>1
    <3>5. h[k].book = c /\ h[k].due = D(k)
      BY <3>4 DEF Account
    <3>6. Moves(h[k], t[i], P, h[i])
      BY <3>2, <3>3, <3>4, <3>5 DEF Moves
    <3> QED BY <3>6 DEF k
  <2> QED BY <2>1, <2>2
<1>12. Replays(h, Settled(b), P, t, Settled(c))
  BY <1>9, <1>10, <1>11 DEF Replays
<1>13. Replayed(Settled(b), P, t, Settled(c))
  BY <1>12 DEF Replayed
<1> QED BY <1>13 DEF t, c

\* An acknowledgement on its way is the first of its order, and whatever else is
\* reported of an order comes behind it.
Ordered(acc, rs) ==
    \A i \in DOMAIN rs :
        /\ rs[i].status = "accepted" =>
             /\ rs[i].order \notin acc
             /\ \A j \in DOMAIN rs :
                  rs[j].status = "accepted" /\ rs[j].order = rs[i].order => j = i
        /\ rs[i].status # "accepted" =>
             \/ rs[i].order \in acc
             \/ \E j \in 1..(i - 1) : rs[j].status = "accepted" /\ rs[j].order = rs[i].order

\* acceptedOrders when the validator has taken the report r.
AccWith(acc, r) == IF r.status = "accepted" THEN acc \cup {r.order} ELSE acc

\* Taking the first report keeps the others in order.
LEMMA OrderedHead ==
    ASSUME NEW acc, NEW rs \in Seq(ReportSet), rs # <<>>, Ordered(acc, rs)
    PROVE  LET r == Head(rs)
               next == AccWith(acc, r)
           IN  /\ Ordered(next, Tail(rs)) /\ Known(next, Tail(rs)) = Known(acc, rs)
               /\ r.status = "accepted" => r.order \notin acc
               /\ r.status # "accepted" => r.order \in acc
               /\ r.status = "accepted" =>
                    \A i \in 2..Len(rs) : rs[i].status = "accepted" => rs[i].order # r.order
<1> DEFINE r == Head(rs)
           next == AccWith(acc, r)
           t == Tail(rs)
           n == Len(rs)
<1>1. t = Tail(rs)
  OBVIOUS
<1> HIDE DEF t
<1>2. /\ n \in Nat /\ n >= 1 /\ Len(t) = n - 1 /\ r = rs[1] /\ t \in Seq(ReportSet)
      /\ \A i \in 1..Len(t) : t[i] = rs[i + 1]
  BY <1>1, TailAt
<1>3. DOMAIN rs = 1..n /\ DOMAIN t = 1..Len(t)
  BY <1>2, SeqFacts
<1> HIDE DEF r, n
<1>4. r.status = "accepted" => r.order \notin acc
  BY <1>2, <1>3 DEF Ordered
<1>5. r.status # "accepted" => r.order \in acc
  BY <1>2, <1>3 DEF Ordered
<1>6. r.status = "accepted" =>
        \A i \in 2..n : rs[i].status = "accepted" => rs[i].order # r.order
  <2>1. \A i \in 2..n : i \in 1..n /\ i # 1
    BY <1>2
  <2> QED BY <1>2, <1>3, <2>1 DEF Ordered
<1>7. Ordered(next, t)
  <2> SUFFICES ASSUME NEW i \in 1..Len(t)
               PROVE  /\ t[i].status = "accepted" =>
                           /\ t[i].order \notin next
                           /\ \A j \in 1..Len(t) :
                                t[j].status = "accepted" /\ t[j].order = t[i].order => j = i
                      /\ t[i].status # "accepted" =>
                           \/ t[i].order \in next
                           \/ \E j \in 1..(i - 1) : t[j].status = "accepted" /\ t[j].order = t[i].order
    BY <1>3 DEF Ordered
  <2>1. t[i] = rs[i + 1] /\ i + 1 \in 1..n /\ i + 1 \in 2..n
    BY <1>2
  <2>2. ASSUME t[i].status = "accepted"
        PROVE  /\ t[i].order \notin next
               /\ \A j \in 1..Len(t) :
                    t[j].status = "accepted" /\ t[j].order = t[i].order => j = i
    <3>1. t[i].order \notin next
      BY <1>3, <1>6, <2>1, <2>2 DEF Ordered, AccWith
    <3>2. ASSUME NEW j \in 1..Len(t), t[j].status = "accepted", t[j].order = t[i].order
          PROVE  j = i
      <4>1. t[j] = rs[j + 1] /\ j + 1 \in 1..n
        BY <1>2
      <4>2. j + 1 = i + 1
        BY <1>3, <2>1, <2>2, <3>2, <4>1 DEF Ordered
      <4> QED BY <4>2
    <3> QED BY <3>1, <3>2
  <2>3. ASSUME t[i].status # "accepted"
        PROVE  \/ t[i].order \in next
               \/ \E j \in 1..(i - 1) : t[j].status = "accepted" /\ t[j].order = t[i].order
    <3>1. CASE rs[i + 1].order \in acc
      BY <2>1, <3>1 DEF AccWith
    <3>2. CASE rs[i + 1].order \notin acc
      <4>1. PICK j \in 1..((i + 1) - 1) : rs[j].status = "accepted" /\ rs[j].order = rs[i + 1].order
        BY <1>3, <2>1, <2>3, <3>2 DEF Ordered
      <4>2. CASE j = 1
        BY <1>2, <2>1, <4>1, <4>2 DEF AccWith
      <4>3. CASE j # 1
        <5>1. j - 1 \in 1..(i - 1) /\ j - 1 \in 1..Len(t) /\ (j - 1) + 1 = j
          BY <1>2, <4>3
        <5>2. t[j - 1] = rs[j]
          BY <1>2, <5>1
        <5> QED BY <2>1, <4>1, <5>1, <5>2
      <4> QED BY <4>2, <4>3
    <3> QED BY <3>1, <3>2
  <2> QED BY <2>2, <2>3
<1>8. Known(next, t) = Known(acc, rs)
  <2>1. ASSUME NEW x \in AckIds(t) PROVE x \in AckIds(rs)
    <3>1. PICK i \in 1..Len(t) : t[i].status = "accepted" /\ x = t[i].order
      BY <1>3 DEF AckIds
    <3>2. t[i] = rs[i + 1] /\ i + 1 \in 1..n
      BY <1>2
    <3> QED BY <1>3, <3>1, <3>2 DEF AckIds
  <2>2. r.status = "accepted" => r.order \in AckIds(rs)
    BY <1>2, <1>3 DEF AckIds
  <2>3. ASSUME NEW x \in AckIds(rs) PROVE x \in Known(next, t)
    <3>1. PICK i \in 1..n : rs[i].status = "accepted" /\ x = rs[i].order
      BY <1>3 DEF AckIds
    <3>2. CASE i = 1
      BY <1>2, <3>1, <3>2 DEF Known, AccWith
    <3>3. CASE i # 1
      <4>1. i - 1 \in 1..Len(t) /\ (i - 1) + 1 = i
        BY <1>2, <3>3
      <4>2. t[i - 1] = rs[i]
        BY <1>2, <4>1
      <4> QED BY <1>3, <3>1, <4>1, <4>2 DEF Known, AckIds
    <3> QED BY <3>2, <3>3
  <2> QED BY <2>1, <2>2, <2>3 DEF Known, AccWith
<1> QED BY <1>1, <1>4, <1>5, <1>6, <1>7, <1>8 DEF r, n

\* The positions of rs \o t.
Joined(u, rs, t) ==
    /\ u \in Seq(ReportSet) /\ Len(rs) \in Nat /\ Len(t) \in Nat
    /\ DOMAIN u = 1..(Len(rs) + Len(t)) /\ DOMAIN rs = 1..Len(rs)
    /\ \A i \in 1..Len(rs) : u[i] = rs[i]
    /\ \A i \in 1..Len(t) : u[Len(rs) + i] = t[i]

\* They are these.
LEMMA JoinedCat ==
    ASSUME NEW rs \in Seq(ReportSet), NEW t \in Seq(ReportSet)
    PROVE  Joined(rs \o t, rs, t)
<1> DEFINE u == rs \o t
<1>1. u = rs \o t
  OBVIOUS
<1> HIDE DEF u
<1>2. /\ u \in Seq(ReportSet) /\ Len(u) = Len(rs) + Len(t)
      /\ \A i \in 1..Len(rs) : u[i] = rs[i]
      /\ \A i \in 1..Len(t) : u[Len(rs) + i] = t[i]
  BY <1>1, CatAt
<1>3. Len(rs) \in Nat /\ Len(t) \in Nat /\ DOMAIN rs = 1..Len(rs) /\ DOMAIN u = 1..Len(u)
  BY <1>2, SeqFacts
<1> QED BY <1>1, <1>2, <1>3 DEF Joined

\* The reports on a new order are in order behind the others.
LEMMA OrderedAnswers ==
    ASSUME NEW acc, NEW rs \in Seq(ReportSet), NEW t \in Seq(ReportSet), NEW id, NEW ids,
           Ordered(acc, rs), Answers(t, id, ids), id \notin Known(acc, rs),
           ids \subseteq Known(acc, rs)
    PROVE  Ordered(acc, rs \o t) /\ Known(acc, rs \o t) = Known(acc, rs) \cup {id}
<1> DEFINE u == rs \o t
           n == Len(rs)
           m == Len(t)
<1>1. Joined(u, rs, t)
  BY JoinedCat
<1> HIDE DEF u
<1>2. /\ n \in Nat /\ m \in Nat /\ m >= 1 /\ DOMAIN u = 1..(n + m) /\ DOMAIN rs = 1..n
      /\ \A i \in 1..n : u[i] = rs[i]
      /\ \A i \in 1..m : u[n + i] = t[i]
  BY <1>1 DEF Joined, Answers
<1>3. /\ t[1].order = id /\ t[1].status = "accepted"
      /\ \A i \in 2..m : t[i].status = "filled" /\ t[i].order \in ids \cup {id}
  BY DEF Answers
<1> HIDE DEF n, m
<1>4. u[n + 1].order = id /\ u[n + 1].status = "accepted" /\ n + 1 \in 1..(n + m)
  BY <1>2, <1>3
<1>5. ASSUME NEW i \in 1..(n + m), u[i].status = "accepted"
      PROVE  (i \in 1..n /\ u[i] = rs[i]) \/ i = n + 1
  <2>1. CASE i > n + 1
    <3>1. i - n \in 2..m /\ i - n \in 1..m /\ n + (i - n) = i
      BY <1>2, <2>1
    <3>2. u[i] = t[i - n]
      BY <1>2, <3>1
    <3> QED BY <1>3, <1>5, <3>1, <3>2
  <2>2. CASE i <= n
    BY <1>2, <2>2
  <2> QED BY <1>2, <2>1, <2>2
<1>6. \A i \in 1..n : rs[i].status = "accepted" => rs[i].order # id
  BY <1>2 DEF Known, AckIds
<1>7. ASSUME NEW x \in Known(acc, rs)
      PROVE  x \in acc \/ \E j \in 1..n : u[j].status = "accepted" /\ u[j].order = x
  BY <1>2 DEF Known, AckIds
<1>8. Ordered(acc, u)
  <2> SUFFICES ASSUME NEW i \in 1..(n + m)
               PROVE  /\ u[i].status = "accepted" =>
                           /\ u[i].order \notin acc
                           /\ \A j \in 1..(n + m) :
                                u[j].status = "accepted" /\ u[j].order = u[i].order => j = i
                      /\ u[i].status # "accepted" =>
                           \/ u[i].order \in acc
                           \/ \E j \in 1..(i - 1) : u[j].status = "accepted" /\ u[j].order = u[i].order
    BY <1>2 DEF Ordered
  <2>1. ASSUME u[i].status = "accepted"
        PROVE  /\ u[i].order \notin acc
               /\ \A j \in 1..(n + m) :
                    u[j].status = "accepted" /\ u[j].order = u[i].order => j = i
    <3>1. u[i].order \notin acc
      BY <1>2, <1>4, <1>5, <2>1 DEF Ordered, Known
    <3>2. ASSUME NEW j \in 1..(n + m), u[j].status = "accepted", u[j].order = u[i].order
          PROVE  j = i
      <4>1. (i \in 1..n /\ u[i] = rs[i]) \/ i = n + 1
        BY <1>5, <2>1
      <4>2. (j \in 1..n /\ u[j] = rs[j]) \/ j = n + 1
        BY <1>5, <3>2
      <4>3. CASE i \in 1..n /\ j \in 1..n
        BY <1>2, <2>1, <3>2, <4>3 DEF Ordered
      <4>4. CASE i = n + 1 \/ j = n + 1
        BY <1>2, <1>4, <1>6, <2>1, <3>2, <4>1, <4>2, <4>4
      <4> QED BY <4>1, <4>2, <4>3, <4>4
    <3> QED BY <3>1, <3>2
  <2>2. ASSUME u[i].status # "accepted"
        PROVE  \/ u[i].order \in acc
               \/ \E j \in 1..(i - 1) : u[j].status = "accepted" /\ u[j].order = u[i].order
    <3>1. CASE i <= n
      <4>1. i \in 1..n /\ u[i] = rs[i] /\ \A j \in 1..(i - 1) : u[j] = rs[j]
        BY <1>2, <3>1
      <4> QED BY <1>2, <2>2, <4>1 DEF Ordered
    <3>2. CASE i > n
      <4>1. i # n + 1
        BY <1>4, <2>2
      <4>2. i - n \in 2..m /\ i - n \in 1..m /\ n + (i - n) = i
        BY <1>2, <3>2, <4>1
      <4>3. u[i] = t[i - n]
        BY <1>2, <4>2
      <4>4. u[i].order \in ids \cup {id}
        BY <1>3, <4>2, <4>3
      <4>5. CASE u[i].order = id
        <5>1. n + 1 \in 1..(i - 1)
          BY <1>2, <3>2, <4>1
        <5> QED BY <1>4, <4>5, <5>1
      <4>6. CASE u[i].order \in Known(acc, rs)
        <5>1. \A j \in 1..n : j \in 1..(i - 1)
          BY <1>2, <3>2
        <5> QED BY <1>7, <4>6, <5>1
      <4> QED BY <4>4, <4>5, <4>6
    <3> QED BY <1>2, <3>1, <3>2
  <2> QED BY <2>1, <2>2
<1>9. Known(acc, u) = Known(acc, rs) \cup {id}
  <2>1. ASSUME NEW x \in AckIds(u) PROVE x \in Known(acc, rs) \cup {id}
    <3>1. PICK i \in 1..(n + m) : u[i].status = "accepted" /\ x = u[i].order
      BY <1>2 DEF AckIds
    <3>2. CASE i = n + 1
      BY <1>4, <3>1, <3>2
    <3>3. CASE i \in 1..n /\ u[i] = rs[i]
      BY <1>2, <3>1, <3>3 DEF Known, AckIds
    <3> QED BY <1>5, <3>1, <3>2, <3>3
  <2>2. id \in AckIds(u)
    BY <1>2, <1>4 DEF AckIds
  <2>3. AckIds(rs) \subseteq AckIds(u)
    <3>1. \A i \in 1..n : i \in 1..(n + m) /\ u[i] = rs[i]
      BY <1>2
    <3> QED BY <1>2, <3>1 DEF AckIds
  <2> QED BY <2>1, <2>2, <2>3 DEF Known
<1> QED BY <1>8, <1>9 DEF u

\* So is an answer about an order that is known.
LEMMA OrderedOne ==
    ASSUME NEW acc, NEW rs \in Seq(ReportSet), NEW x \in ReportSet, Ordered(acc, rs),
           x.status # "accepted", x.order \in Known(acc, rs)
    PROVE  Ordered(acc, rs \o <<x>>) /\ Known(acc, rs \o <<x>>) = Known(acc, rs)
<1> DEFINE t == <<x>>
           u == rs \o t
           n == Len(rs)
<1>0. t \in Seq(ReportSet)
  OBVIOUS
<1>1. Len(t) = 1 /\ t[1] = x
  OBVIOUS
<1> HIDE DEF t
<1>2. Joined(u, rs, t)
  BY <1>0, JoinedCat
<1> HIDE DEF u
<1>3. /\ n \in Nat /\ DOMAIN u = 1..(n + 1) /\ DOMAIN rs = 1..n
      /\ \A i \in 1..n : u[i] = rs[i]
      /\ u[n + 1] = x
  BY <1>1, <1>2 DEF Joined
<1> HIDE DEF n
<1>4. \A i \in 1..(n + 1) : i \in 1..n \/ i = n + 1
  BY <1>3
<1>5. \A i \in 1..n : i \in 1..(n + 1) /\ i # n + 1
  BY <1>3
<1>6. AckIds(u) = AckIds(rs)
  BY <1>3, <1>4, <1>5 DEF AckIds
<1>7. Ordered(acc, u)
  <2> SUFFICES ASSUME NEW i \in 1..(n + 1)
               PROVE  /\ u[i].status = "accepted" =>
                           /\ u[i].order \notin acc
                           /\ \A j \in 1..(n + 1) :
                                u[j].status = "accepted" /\ u[j].order = u[i].order => j = i
                      /\ u[i].status # "accepted" =>
                           \/ u[i].order \in acc
                           \/ \E j \in 1..(i - 1) : u[j].status = "accepted" /\ u[j].order = u[i].order
    BY <1>3 DEF Ordered
  <2>1. CASE i \in 1..n
    <3>1. \A j \in 1..(i - 1) : u[j] = rs[j]
      BY <1>3, <2>1
    <3> QED BY <1>3, <1>4, <2>1, <3>1 DEF Ordered
  <2>2. CASE i = n + 1
    <3>1. i - 1 = n
      BY <1>3, <2>2
    <3> QED BY <1>3, <2>2, <3>1 DEF Known, AckIds
  <2> QED BY <1>4, <2>1, <2>2
<1> QED BY <1>6, <1>7 DEF Known, u, t

-----------------------------------------------------------------------------
(* Messages on their way.                                                  *)

IsOrder(m) == m.type # "cancel"

\* What the connections hold: no order twice, orders that are pending and unknown,
\* and cancels behind the order they name.
Mail(inb, P, known) ==
    \A b \in Bots : \A i \in 1..Len(inb[b]) :
        /\ IsOrder(inb[b][i]) =>
             /\ inb[b][i] \in P /\ inb[b][i].id \notin known
             /\ \A c \in Bots : \A j \in 1..Len(inb[c]) :
                  IsOrder(inb[c][j]) /\ inb[c][j].id = inb[b][i].id => c = b /\ j = i
        /\ ~IsOrder(inb[b][i]) =>
             \/ inb[b][i].id \in known
             \/ \E j \in 1..(i - 1) : IsOrder(inb[b][j]) /\ inb[b][j].id = inb[b][i].id

\* The engine knows an active order, or has it in its bot's connection.
Awaited(inb, known, act) ==
    \A id \in act :
        \/ id \in known
        \/ \E j \in 1..Len(inb[BotOf[id]]) :
             IsOrder(inb[BotOf[id]][j]) /\ inb[BotOf[id]][j].id = id

KnownWith(known, m) == IF IsOrder(m) THEN known \cup {m.id} ELSE known

\* The pending orders that are known do not matter.
LEMMA MailLess ==
    ASSUME NEW inb, NEW P, NEW Q, NEW known, Mail(inb, P, known),
           \A p \in P : p.id \notin known => p \in Q
    PROVE  Mail(inb, Q, known)
  BY DEF Mail

\* The engine reads the first message of a connection.
LEMMA MailHead ==
    ASSUME NEW inb \in [Bots -> Seq(Messages)], NEW bot \in Bots, inb[bot] # <<>>,
           NEW P, NEW known, NEW act \in SUBSET Orders, Mail(inb, P, known), Awaited(inb, known, act)
    PROVE  LET m == Head(inb[bot])
               next == [inb EXCEPT ![bot] = Tail(@)]
           IN  /\ Mail(next, P, KnownWith(known, m)) /\ Awaited(next, KnownWith(known, m), act)
               /\ IsOrder(m) => m \in P /\ m.id \notin known
               /\ ~IsOrder(m) => m.id \in known
<1> DEFINE s == inb[bot]
           t == Tail(s)
           m == Head(s)
           next == [inb EXCEPT ![bot] = t]
           more == KnownWith(known, m)
           n == Len(s)
<1>1. s \in Seq(Messages) /\ s # <<>> /\ t = Tail(s)
  OBVIOUS
<1>2. next[bot] = t /\ \A b \in Bots \ {bot} : next[b] = inb[b]
  OBVIOUS
<1> HIDE DEF t, s, next
<1>3. /\ n \in Nat /\ n >= 1 /\ Len(t) = n - 1 /\ m = s[1]
      /\ \A i \in 1..Len(t) : t[i] = s[i + 1]
  BY <1>1, TailAt
<1> HIDE DEF n, m
<1>4. /\ IsOrder(m) => m \in P /\ m.id \notin known
      /\ ~IsOrder(m) => m.id \in known
  <2>1. s = inb[bot] /\ n = Len(s) /\ 1 \in 1..n
    BY <1>3 DEF s, n
  <2>2. \A j \in 1..(1 - 1) : FALSE
    OBVIOUS
  <2>3. inb[bot][1] = m /\ 1 \in 1..Len(inb[bot])
    BY <1>3, <2>1
  <2> QED BY <2>2, <2>3 DEF Mail
<1>5. s = inb[bot] /\ n = Len(s)
  BY DEF s, n
\* Where a message of next was.
<1> DEFINE At(b, i) == IF b = bot THEN i + 1 ELSE i
<1>6. ASSUME NEW b \in Bots, NEW i \in 1..Len(next[b])
      PROVE  /\ At(b, i) \in 1..Len(inb[b]) /\ next[b][i] = inb[b][At(b, i)]
             /\ b = bot => At(b, i) # 1
  <2>1. CASE b = bot
    BY <1>2, <1>3, <1>5, <1>6, <2>1
  <2>2. CASE b # bot
    BY <1>2, <1>6, <2>2
  <2> QED BY <2>1, <2>2
<1>7. ASSUME NEW b \in Bots, NEW k \in 1..Len(inb[b]), ~(b = bot /\ k = 1)
      PROVE  \E i \in 1..Len(next[b]) : At(b, i) = k /\ next[b][i] = inb[b][k]
  <2>1. CASE b = bot
    <3>1. k - 1 \in 1..Len(t) /\ (k - 1) + 1 = k
      BY <1>3, <1>5, <1>7, <2>1
    <3>2. t[k - 1] = s[k]
      BY <1>3, <3>1
    <3> QED BY <1>2, <1>5, <2>1, <3>1, <3>2
  <2>2. CASE b # bot
    BY <1>2, <2>2
  <2> QED BY <2>1, <2>2
<1>8. inb[bot][1] = m /\ 1 \in 1..Len(inb[bot])
  BY <1>3, <1>5
<1>9. Awaited(next, more, act)
  <2> SUFFICES ASSUME NEW id \in act, id \notin more
               PROVE  \E j \in 1..Len(next[BotOf[id]]) :
                        IsOrder(next[BotOf[id]][j]) /\ next[BotOf[id]][j].id = id
    BY DEF Awaited
  <2>1. BotOf[id] \in Bots /\ id \notin known
    BY BotIn DEF KnownWith
  <2>2. PICK k \in 1..Len(inb[BotOf[id]]) :
           IsOrder(inb[BotOf[id]][k]) /\ inb[BotOf[id]][k].id = id
    BY <2>1 DEF Awaited
  <2>3. ~(BotOf[id] = bot /\ k = 1)
    BY <1>8, <2>2 DEF KnownWith
  <2>4. PICK i \in 1..Len(next[BotOf[id]]) : next[BotOf[id]][i] = inb[BotOf[id]][k]
    BY <1>7, <2>1, <2>3
  <2> QED BY <2>2, <2>4
<1>10. Mail(next, P, more)
  <2> SUFFICES ASSUME NEW b \in Bots, NEW i \in 1..Len(next[b])
               PROVE  /\ IsOrder(next[b][i]) =>
                           /\ next[b][i] \in P /\ next[b][i].id \notin more
                           /\ \A c \in Bots : \A j \in 1..Len(next[c]) :
                                IsOrder(next[c][j]) /\ next[c][j].id = next[b][i].id
                                  => c = b /\ j = i
                      /\ ~IsOrder(next[b][i]) =>
                           \/ next[b][i].id \in more
                           \/ \E j \in 1..(i - 1) :
                                IsOrder(next[b][j]) /\ next[b][j].id = next[b][i].id
    BY DEF Mail
  <2> DEFINE k == At(b, i)
  <2>1. k \in 1..Len(inb[b]) /\ next[b][i] = inb[b][k] /\ (b = bot => k # 1)
    BY <1>6
  <2> HIDE DEF At, k
  <2>2. ASSUME IsOrder(next[b][i])
        PROVE  /\ next[b][i] \in P /\ next[b][i].id \notin more
               /\ \A c \in Bots : \A j \in 1..Len(next[c]) :
                    IsOrder(next[c][j]) /\ next[c][j].id = next[b][i].id => c = b /\ j = i
    <3>1. /\ inb[b][k] \in P /\ inb[b][k].id \notin known
          /\ \A c \in Bots : \A j \in 1..Len(inb[c]) :
               IsOrder(inb[c][j]) /\ inb[c][j].id = inb[b][k].id => c = b /\ j = k
      BY <2>1, <2>2 DEF Mail
    <3>2. next[b][i].id \notin more
      BY <1>8, <2>1, <3>1 DEF KnownWith
    <3>3. ASSUME NEW c \in Bots, NEW j \in 1..Len(next[c]),
                 IsOrder(next[c][j]), next[c][j].id = next[b][i].id
          PROVE  c = b /\ j = i
      <4>1. At(c, j) \in 1..Len(inb[c]) /\ next[c][j] = inb[c][At(c, j)]
        BY <1>6
      <4>2. c = b /\ At(c, j) = k
        BY <2>1, <3>1, <3>3, <4>1
      <4>3. j = i
        BY <4>2 DEF At, k
      <4> QED BY <4>2, <4>3
    <3> QED BY <2>1, <3>1, <3>2, <3>3
  <2>3. ASSUME ~IsOrder(next[b][i]), next[b][i].id \notin more
        PROVE  \E j \in 1..(i - 1) : IsOrder(next[b][j]) /\ next[b][j].id = next[b][i].id
    <3>1. inb[b][k].id \notin known /\ ~IsOrder(inb[b][k])
      BY <2>1, <2>3 DEF KnownWith
    <3>2. PICK l \in 1..(k - 1) : IsOrder(inb[b][l]) /\ inb[b][l].id = inb[b][k].id
      BY <2>1, <3>1 DEF Mail
    <3>3. ~(b = bot /\ l = 1)
      BY <1>8, <2>1, <2>3, <3>2 DEF KnownWith
    <3>3a. l \in 1..Len(inb[b])
      <4>1. Len(inb[b]) \in Nat
        BY SeqFacts
      <4> QED BY <2>1, <4>1
    <3>4. PICK j \in 1..Len(next[b]) : At(b, j) = l /\ next[b][j] = inb[b][l]
      BY <1>7, <3>3, <3>3a
    <3>5. j \in 1..(i - 1)
      BY <3>4 DEF At, k
    <3> QED BY <2>1, <3>2, <3>4, <3>5
  <2> QED BY <2>2, <2>3
<1> QED BY <1>4, <1>9, <1>10 DEF next, t, s, m, n

\* A message goes to the end of a connection.
LEMMA MailEnd ==
    ASSUME NEW inb \in [Bots -> Seq(Messages)], NEW bot \in Bots, NEW m \in Messages, NEW next,
           next = [inb EXCEPT ![bot] = Append(@, m)]
    PROVE  /\ Len(next[bot]) = Len(inb[bot]) + 1 /\ next[bot][Len(inb[bot]) + 1] = m
           /\ Len(inb[bot]) \in Nat
           /\ \A b \in Bots : \A i \in 1..Len(inb[b]) : i \in 1..Len(next[b]) /\ next[b][i] = inb[b][i]
           /\ \A b \in Bots : \A i \in 1..Len(next[b]) :
                i \in 1..Len(inb[b]) \/ (b = bot /\ i = Len(inb[bot]) + 1)
<1> DEFINE s == inb[bot]
           t == Append(s, m)
<1>1. s \in Seq(Messages) /\ Len(s) \in Nat
  BY SeqFacts
<1>2. next[bot] = t /\ \A b \in Bots \ {bot} : next[b] = inb[b]
  OBVIOUS
<1>3. s = inb[bot]
  OBVIOUS
<1> HIDE DEF s
<1>4. Len(t) = Len(s) + 1 /\ t[Len(s) + 1] = m /\ \A i \in 1..Len(s) : t[i] = s[i]
  BY <1>1
<1> HIDE DEF t
<1>5. ASSUME NEW b \in Bots, NEW i \in 1..Len(inb[b]) PROVE i \in 1..Len(next[b]) /\ next[b][i] = inb[b][i]
  BY <1>1, <1>2, <1>3, <1>4
<1>6. ASSUME NEW b \in Bots, NEW i \in 1..Len(next[b])
      PROVE  i \in 1..Len(inb[b]) \/ (b = bot /\ i = Len(inb[bot]) + 1)
  BY <1>1, <1>2, <1>3, <1>4
<1> QED BY <1>1, <1>2, <1>3, <1>4, <1>5, <1>6

\* A bot sends an order that is new.
LEMMA MailOrder ==
    ASSUME NEW inb \in [Bots -> Seq(Messages)], NEW o \in OrderSet, NEW P \in SUBSET OrderSet,
           NEW known, NEW act \in SUBSET Orders, NEW more \in SUBSET (act \cup {o.id}),
           Mail(inb, P, known), Awaited(inb, known, act),
           o.id \notin known, \A p \in P : p.id # o.id,
           NEW next, next = [inb EXCEPT ![BotOf[o.id]] = Append(@, o)]
    PROVE  Mail(next, P \cup {o}, known) /\ Awaited(next, known, more)
<1> DEFINE bot == BotOf[o.id]
           n == Len(inb[bot])
           Q == P \cup {o}
<1>1. o \in Messages /\ IsOrder(o) /\ o.id \in Orders
  BY DEF Messages, IsOrder, OrderSet
<1>2. bot \in Bots
  BY <1>1, BotIn
<1>3. /\ Len(next[bot]) = n + 1 /\ next[bot][n + 1] = o /\ n \in Nat
      /\ \A b \in Bots : \A i \in 1..Len(inb[b]) : i \in 1..Len(next[b]) /\ next[b][i] = inb[b][i]
      /\ \A b \in Bots : \A i \in 1..Len(next[b]) :
           i \in 1..Len(inb[b]) \/ (b = bot /\ i = n + 1)
  BY <1>1, <1>2, MailEnd
<1> HIDE DEF bot, n
<1>4. \A b \in Bots : \A i \in 1..Len(inb[b]) : IsOrder(inb[b][i]) => inb[b][i].id # o.id
  BY DEF Mail
<1>5. Mail(next, Q, known)
  <2> SUFFICES ASSUME NEW b \in Bots, NEW i \in 1..Len(next[b])
               PROVE  /\ IsOrder(next[b][i]) =>
                           /\ next[b][i] \in Q /\ next[b][i].id \notin known
                           /\ \A c \in Bots : \A j \in 1..Len(next[c]) :
                                IsOrder(next[c][j]) /\ next[c][j].id = next[b][i].id
                                  => c = b /\ j = i
                      /\ ~IsOrder(next[b][i]) =>
                           \/ next[b][i].id \in known
                           \/ \E j \in 1..(i - 1) :
                                IsOrder(next[b][j]) /\ next[b][j].id = next[b][i].id
    BY DEF Mail
  <2>1. CASE i \in 1..Len(inb[b])
    <3>1. next[b][i] = inb[b][i]
      BY <1>3, <2>1
    <3>2. ASSUME IsOrder(next[b][i])
          PROVE  /\ next[b][i] \in Q /\ next[b][i].id \notin known
                 /\ \A c \in Bots : \A j \in 1..Len(next[c]) :
                      IsOrder(next[c][j]) /\ next[c][j].id = next[b][i].id => c = b /\ j = i
      <4>1. /\ inb[b][i] \in P /\ inb[b][i].id \notin known
            /\ \A c \in Bots : \A j \in 1..Len(inb[c]) :
                 IsOrder(inb[c][j]) /\ inb[c][j].id = inb[b][i].id => c = b /\ j = i
        BY <2>1, <3>1, <3>2 DEF Mail
      <4>2. inb[b][i].id # o.id
        BY <1>4, <2>1, <3>1, <3>2
      <4>3. ASSUME NEW c \in Bots, NEW j \in 1..Len(next[c]),
                   IsOrder(next[c][j]), next[c][j].id = next[b][i].id
            PROVE  c = b /\ j = i
        <5>1. j \in 1..Len(inb[c])
          BY <1>3, <3>1, <4>2, <4>3
        <5>2. next[c][j] = inb[c][j]
          BY <1>3, <5>1
        <5> QED BY <3>1, <4>1, <4>3, <5>1, <5>2
      <4> QED BY <3>1, <4>1, <4>3
    <3>3. ASSUME ~IsOrder(next[b][i]), next[b][i].id \notin known
          PROVE  \E j \in 1..(i - 1) : IsOrder(next[b][j]) /\ next[b][j].id = next[b][i].id
      <4>1. PICK j \in 1..(i - 1) : IsOrder(inb[b][j]) /\ inb[b][j].id = inb[b][i].id
        BY <2>1, <3>1, <3>3 DEF Mail
      <4>2. j \in 1..Len(inb[b])
        <5>1. Len(inb[b]) \in Nat
          BY SeqFacts
        <5> QED BY <2>1, <5>1
      <4>3. next[b][j] = inb[b][j]
        BY <1>3, <4>2
      <4> QED BY <3>1, <4>1, <4>3
    <3> QED BY <3>2, <3>3
  <2>2. CASE i \notin 1..Len(inb[b])
    <3>1. b = bot /\ i = n + 1 /\ next[b][i] = o
      BY <1>3, <2>2
    <3>2. ASSUME NEW c \in Bots, NEW j \in 1..Len(next[c]),
                 IsOrder(next[c][j]), next[c][j].id = o.id
          PROVE  c = b /\ j = i
      <4>1. j \notin 1..Len(inb[c])
        BY <1>3, <1>4, <3>2
      <4> QED BY <1>3, <3>1, <4>1
    <3>3. \A c \in Bots : \A j \in 1..Len(next[c]) :
             IsOrder(next[c][j]) /\ next[c][j].id = next[b][i].id => c = b /\ j = i
      BY <3>1, <3>2, SMTT(30)
    <3>4. next[b][i] \in Q /\ next[b][i].id \notin known /\ IsOrder(next[b][i])
      BY <1>1, <3>1
    <3> QED BY <3>3, <3>4
  <2> QED BY <2>1, <2>2
<1>6. Awaited(next, known, more)
  <2> SUFFICES ASSUME NEW id \in more, id \notin known
               PROVE  \E j \in 1..Len(next[BotOf[id]]) :
                        IsOrder(next[BotOf[id]][j]) /\ next[BotOf[id]][j].id = id
    BY DEF Awaited
  <2>1. CASE id = o.id
    <3>1. n + 1 \in 1..Len(next[bot])
      BY <1>3
    <3> QED BY <1>1, <1>3, <2>1, <3>1 DEF bot
  <2>2. CASE id # o.id
    <3>1. id \in act /\ BotOf[id] \in Bots
      BY <2>2, BotIn
    <3>2. PICK j \in 1..Len(inb[BotOf[id]]) :
             IsOrder(inb[BotOf[id]][j]) /\ inb[BotOf[id]][j].id = id
      BY <3>1 DEF Awaited
    <3> QED BY <1>3, <3>1, <3>2
  <2> QED BY <2>1, <2>2
<1> QED BY <1>5, <1>6

\* A bot cancels an active order.
LEMMA MailCancel ==
    ASSUME NEW inb \in [Bots -> Seq(Messages)], NEW P, NEW known, NEW act \in SUBSET Orders,
           NEW id \in act, NEW m \in Messages, m.id = id, ~IsOrder(m),
           Mail(inb, P, known), Awaited(inb, known, act),
           NEW next, next = [inb EXCEPT ![BotOf[id]] = Append(@, m)]
    PROVE  Mail(next, P, known) /\ Awaited(next, known, act \ {id})
<1> DEFINE bot == BotOf[id]
           n == Len(inb[bot])
<1>2. bot \in Bots
  BY BotIn
<1>3. /\ Len(next[bot]) = n + 1 /\ next[bot][n + 1] = m /\ n \in Nat
      /\ \A b \in Bots : \A i \in 1..Len(inb[b]) : i \in 1..Len(next[b]) /\ next[b][i] = inb[b][i]
      /\ \A b \in Bots : \A i \in 1..Len(next[b]) :
           i \in 1..Len(inb[b]) \/ (b = bot /\ i = n + 1)
  BY <1>2, MailEnd
<1>4. \/ id \in known
      \/ \E j \in 1..n : IsOrder(inb[bot][j]) /\ inb[bot][j].id = id
  BY DEF Awaited
<1> HIDE DEF bot, n
<1>n. n = Len(inb[bot])
  BY DEF n
<1>5. Mail(next, P, known)
  <2> SUFFICES ASSUME NEW b \in Bots, NEW i \in 1..Len(next[b])
               PROVE  /\ IsOrder(next[b][i]) =>
                           /\ next[b][i] \in P /\ next[b][i].id \notin known
                           /\ \A c \in Bots : \A j \in 1..Len(next[c]) :
                                IsOrder(next[c][j]) /\ next[c][j].id = next[b][i].id
                                  => c = b /\ j = i
                      /\ ~IsOrder(next[b][i]) =>
                           \/ next[b][i].id \in known
                           \/ \E j \in 1..(i - 1) :
                                IsOrder(next[b][j]) /\ next[b][j].id = next[b][i].id
    BY DEF Mail
  <2>1. CASE i \in 1..Len(inb[b])
    <3>1. next[b][i] = inb[b][i]
      BY <1>3, <2>1
    <3>2. ASSUME IsOrder(next[b][i])
          PROVE  /\ next[b][i] \in P /\ next[b][i].id \notin known
                 /\ \A c \in Bots : \A j \in 1..Len(next[c]) :
                      IsOrder(next[c][j]) /\ next[c][j].id = next[b][i].id => c = b /\ j = i
      <4>1. /\ inb[b][i] \in P /\ inb[b][i].id \notin known
            /\ \A c \in Bots : \A j \in 1..Len(inb[c]) :
                 IsOrder(inb[c][j]) /\ inb[c][j].id = inb[b][i].id => c = b /\ j = i
        BY <2>1, <3>1, <3>2 DEF Mail
      <4>3. ASSUME NEW c \in Bots, NEW j \in 1..Len(next[c]),
                   IsOrder(next[c][j]), next[c][j].id = next[b][i].id
            PROVE  c = b /\ j = i
        <5>1. j \in 1..Len(inb[c])
          BY <1>3, <4>3
        <5>2. next[c][j] = inb[c][j]
          BY <1>3, <5>1
        <5> QED BY <3>1, <4>1, <4>3, <5>1, <5>2
      <4> QED BY <3>1, <4>1, <4>3
    <3>3. ASSUME ~IsOrder(next[b][i]), next[b][i].id \notin known
          PROVE  \E j \in 1..(i - 1) : IsOrder(next[b][j]) /\ next[b][j].id = next[b][i].id
      <4>1. PICK j \in 1..(i - 1) : IsOrder(inb[b][j]) /\ inb[b][j].id = inb[b][i].id
        BY <2>1, <3>1, <3>3 DEF Mail
      <4>2. j \in 1..Len(inb[b])
        <5>1. Len(inb[b]) \in Nat
          BY SeqFacts
        <5> QED BY <2>1, <5>1
      <4>3. next[b][j] = inb[b][j]
        BY <1>3, <4>2
      <4> QED BY <3>1, <4>1, <4>3
    <3> QED BY <3>2, <3>3
  <2>2. CASE i \notin 1..Len(inb[b])
    <3>1. b = bot /\ i = n + 1 /\ next[b][i] = m
      BY <1>3, <2>2
    <3>2. i - 1 = n
      BY <1>3, <3>1
    <3>3. \A j \in 1..n : next[b][j] = inb[b][j]
      BY <1>3, <1>n, <3>1
    <3> QED BY <1>4, <3>1, <3>2, <3>3
  <2> QED BY <2>1, <2>2
<1>6. Awaited(next, known, act \ {id})
  <2> SUFFICES ASSUME NEW x \in act \ {id}, x \notin known
               PROVE  \E j \in 1..Len(next[BotOf[x]]) :
                        IsOrder(next[BotOf[x]][j]) /\ next[BotOf[x]][j].id = x
    BY DEF Awaited
  <2>1. BotOf[x] \in Bots
    BY BotIn
  <2>2. PICK j \in 1..Len(inb[BotOf[x]]) :
           IsOrder(inb[BotOf[x]][j]) /\ inb[BotOf[x]][j].id = x
    BY DEF Awaited
  <2> QED BY <1>3, <2>1, <2>2
<1> QED BY <1>5, <1>6

\* Form depends on the two sides.
LEMMA SameForm ==
    ASSUME NEW v, NEW w, w.bids = v.bids, w.asks = v.asks PROVE Form(w) = Form(v)
  BY DEF Form

\* The validator takes the acknowledgement of a pending order.
LEMMA AckAgrees ==
    ASSUME NEW v, ShardInv(v), Proper(Form(v)), UniqueIds(v.pendingOrders),
           NEW p \in v.pendingOrders
    PROVE  LET w == ProcessAck(v, p.id, "accepted")
           IN  /\ Form(w) = Engine!HandleOrder(Form(v), p).book
               /\ w.pendingOrders = v.pendingOrders \ {p}
<1> DEFINE id == p.id
           acked == [v EXCEPT !.pendingOrders = @ \ {p}]
           next == Accept(acked, p)
           w == ProcessAck(v, id, "accepted")
<1>1. v \in Shards /\ p \in OrderSet /\ id \in Orders
  BY DEF ShardInv, Shards, OrderSet
<1>2. (CHOOSE o \in v.pendingOrders : o.id = id) = p /\ IsPending(v, id)
  BY DEF UniqueIds, IsPending
<1>3. acked \in Shards /\ acked.bids = v.bids /\ acked.asks = v.asks
      /\ acked.pendingOrders = v.pendingOrders \ {p}
  BY <1>1 DEF Shards
<1>4. w = checkCleanup(next, id)
  BY <1>2 DEF ProcessAck, Accept
<1> HIDE DEF acked
<1>5. ShardInv(acked) /\ Form(acked) = Form(v)
  BY <1>3, OutsideInv, SameForm
<1>6. Form(next) = Engine!HandleOrder(Form(v), p).book
  BY <1>1, <1>5, OrderAgrees
<1>7. ShardInv(next)
  BY <1>1, <1>5, LimitInv, MatchInv DEF Accept, matchMarketOrder
<1>8. next.pendingOrders = acked.pendingOrders
  <2> DEFINE useLimitPrice == (p.type = "limit")
             a == matchIncoming(acked, p, useLimitPrice)
  <2>1. a.v \in Shards /\ a.v.pendingOrders = acked.pendingOrders
    <3>1. useLimitPrice \in BOOLEAN
      OBVIOUS
    <3> HIDE DEF useLimitPrice
    <3> QED BY <1>1, <1>3, <1>5, <3>1, MatchFacts DEF ShardInv
  <2>2. p.type \in {"limit", "market"}
    BY <1>1 DEF OrderSet
  <2>3. CASE p.type = "market"
    <3>1. next = matchIncoming(acked, p, FALSE).v
      BY <2>3 DEF Accept, matchMarketOrder
    <3>2. useLimitPrice = FALSE
      BY <2>3
    <3> QED BY <2>1, <3>1, <3>2
  <2>4. CASE p.type = "limit"
    <3>1. useLimitPrice = TRUE
      BY <2>4
    <3>2. next = matchLimitOrder(acked, p)
      BY <2>4 DEF Accept
    <3>3. next = a.v \/ next = addOrderToBook(a.v, [p EXCEPT !.qty = a.left])
      BY <3>1, <3>2 DEF matchLimitOrder
    <3> HIDE DEF a
    <3>4. ASSUME NEW q PROVE addOrderToBook(a.v, q).pendingOrders = a.v.pendingOrders
      BY <2>1 DEF addOrderToBook, Shards, Own
    <3> HIDE DEF next
    <3> QED BY <2>1, <3>3, <3>4
  <2> QED BY <2>2, <2>3, <2>4
<1> HIDE DEF next
<1>9. SameBooks(next, w)
  BY <1>1, <1>4, <1>7, CleanupFacts DEF ShardInv
<1>10. Form(w) = Form(next) /\ w.pendingOrders = next.pendingOrders
  BY <1>9, SameForm DEF SameBooks
<1> HIDE DEF w
<1>11. Form(w) = Engine!HandleOrder(Form(v), p).book /\ w.pendingOrders = v.pendingOrders \ {p}
  BY <1>3, <1>6, <1>8, <1>10
<1> QED BY <1>11 DEF w

\* What it then lacks are the fills the engine reports behind the acknowledgement.
LEMMA AckLacks ==
    ASSUME NEW v, ShardInv(v), UniqueIds(v.pendingOrders), NEW p \in v.pendingOrders,
           NEW none, none = <<>>, Lacks(v, none)
    PROVE  Lacks(ProcessAck(v, p.id, "accepted"), Tail(Engine!HandleOrder(Form(v), p).reports))
<1> DEFINE id == p.id
           P == v.pendingOrders \ {p}
           acked == [v EXCEPT !.pendingOrders = P]
           next == Accept(acked, p)
           w == ProcessAck(v, id, "accepted")
           rs == Engine!HandleOrder(Form(v), p).reports
<1>1. v \in Shards /\ p \in OrderSet /\ id \in Orders
  BY DEF ShardInv, Shards, OrderSet
<1>2. (CHOOSE o \in v.pendingOrders : o.id = id) = p /\ IsPending(v, id)
  BY DEF UniqueIds, IsPending
<1>3. w = checkCleanup(next, id)
  BY <1>2 DEF ProcessAck, Accept
<1>4. P \in SUBSET OrderSet
  BY <1>1 DEF Shards
<1> HIDE DEF P
<1>5. acked \in Shards /\ acked.bids = v.bids /\ acked.asks = v.asks /\ SameFills(v, acked)
  BY <1>1, <1>4 DEF Shards, SameFills
<1> HIDE DEF acked
<1>6. ShardInv(acked) /\ Form(acked) = Form(v)
  BY <1>5, OutsideInv, SameForm
<1>7. Lacks(acked, none)
  BY <1>5, LacksSame
<1>8. Lacks(next, rs)
  <2>1. Lacks(Accept(acked, p), Engine!HandleOrder(Form(acked), p).reports)
    BY <1>1, <1>6, <1>7, AcceptLacks
  <2> QED BY <1>6, <2>1
<1>9. Answers(rs, id, BookIds(Form(v)))
  <2>1. Form(v) \in BookSet
    BY <1>1, FormFacts
  <2> QED BY <1>1, <2>1, HandleAnswers
<1> HIDE DEF next, w, rs
<1>10. Lacks(w, rs)
  BY <1>1, <1>3, <1>8, CleanupLacks
<1>11. rs # <<>> /\ Head(rs).status # "filled"
  <2>1. rs \in Seq(ReportSet) /\ Len(rs) >= 1 /\ rs[1].status = "accepted"
    BY <1>9 DEF Answers
  <2>2. rs # <<>>
    BY <2>1
  <2> QED BY <2>1, <2>2, TailAt
<1>12. Lacks(w, Tail(rs))
  BY <1>10, <1>11, LacksTail
<1> QED BY <1>12 DEF w, rs

-----------------------------------------------------------------------------
(* The validator judges the engine.                                        *)

\* The validator, which lacks the fills of s, with the orders P that are or will be
\* pending and the reports on their way, against the engine.
JudgedBy(v, s, P, acc, rs, bk) ==
    /\ Lacks(v, s) /\ Replayed(Account(Form(v), s), P, rs, Settled(bk)) /\ Ordered(acc, rs)
    /\ Proper(Form(v)) /\ BookIds(Form(v)) \subseteq acc
    /\ Proper(bk) /\ BookIds(bk) \subseteq Known(acc, rs)
    /\ P \subseteq OrderSet /\ UniqueIds(P) /\ \A p \in P : p.id \notin acc
Judged(v, P, acc, rs, bk) == \E s : JudgedBy(v, s, P, acc, rs, bk)

\* The pending orders when the validator has taken the report r.
PendingWithout(P, r) == {p \in P : ~(r.status = "accepted" /\ p.id = r.order)}

\* What an account says.
LEMMA AccountFacts ==
    ASSUME NEW b \in BookSet, NEW s \in Seq(ReportSet)
    PROVE  /\ Account(b, s) \in Accounts /\ Settled(b) \in Accounts
           /\ Account(b, s).book = b /\ Account(b, s).due = s
           /\ Settled(b).book = b /\ Settled(b).due = <<>>
  BY DEF Account, Accounts, Settled

\* The books agree, and the fills, when all is told.
LEMMA JudgedTold ==
    ASSUME NEW v, NEW P, NEW acc, NEW none, none = <<>>, NEW bk \in BookSet, Judged(v, P, acc, none, bk)
    PROVE  bk = Form(v) /\ Lacks(v, none)
<1>1. PICK s : JudgedBy(v, s, P, acc, none, bk)
  BY DEF Judged
<1>2. Lacks(v, s) /\ Replayed(Account(Form(v), s), P, none, Settled(bk))
  BY <1>1 DEF JudgedBy
<1>3. v \in Shards /\ s \in Seq(ReportSet)
  BY <1>2 DEF Lacks
<1>4. Form(v) \in BookSet
  BY <1>3, FormFacts
<1>5. Account(Form(v), s) \in Accounts
  BY <1>3, <1>4, AccountFacts
<1>6. Settled(bk) = Account(Form(v), s)
  BY <1>2, <1>5, ReplayDone
<1>7. bk = Form(v) /\ s = none
  BY <1>6 DEF Settled, Account
<1> QED BY <1>2, <1>7

\* The validator takes a report that moves its account as it moved the engine's.
LEMMA JudgeHead ==
    ASSUME NEW v \in Shards, NEW w \in Shards, NEW s, NEW t, NEW P, NEW acc,
           NEW rs \in Seq(ReportSet), rs # <<>>, NEW bk,
           JudgedBy(v, s, P, acc, rs, bk), Lacks(w, t),
           Moves(Account(Form(v), s), Head(rs), P, Account(Form(w), t))
    PROVE  LET Q == PendingWithout(P, Head(rs))
           IN  /\ Judged(w, Q, AccWith(acc, Head(rs)), Tail(rs), bk)
               /\ Known(AccWith(acc, Head(rs)), Tail(rs)) = Known(acc, rs)
               /\ \A p \in P : p.id \notin Known(acc, rs) => p \in Q
<1> DEFINE r == Head(rs)
           Q == PendingWithout(P, r)
           next == AccWith(acc, r)
           rest == Tail(rs)
           a == Account(Form(v), s)
           c == Account(Form(w), t)
<1>1. /\ Ordered(next, rest) /\ Known(next, rest) = Known(acc, rs)
      /\ r.status = "accepted" => r.order \notin acc
      /\ r.status # "accepted" => r.order \in acc
      /\ r.status = "accepted" =>
           \A i \in 2..Len(rs) : rs[i].status = "accepted" => rs[i].order # r.order
  BY OrderedHead DEF JudgedBy
<1>2. Replayed(c, Q, rest, Settled(bk))
  <2>1. \A i \in 2..Len(rs) : rs[i].status = "accepted" =>
          \A p \in P : p.id = rs[i].order => p \in Q
    BY <1>1 DEF PendingWithout
  <2>2. Replayed(a, P, rs, Settled(bk)) /\ UniqueIds(P) /\ Moves(a, r, P, c)
    BY DEF JudgedBy
  <2> HIDE DEF a, c, Q
  <2> QED BY <2>1, <2>2, ReplayHead
<1> HIDE DEF rest
<1>3. Form(v) \in BookSet /\ P \subseteq OrderSet /\ Form(w) \in BookSet
  BY FormFacts DEF JudgedBy
<1>3a. s \in Seq(ReportSet) /\ t \in Seq(ReportSet)
  BY DEF JudgedBy, Lacks
<1>3b. a.book = Form(v) /\ c.book = Form(w)
  BY <1>3, <1>3a, AccountFacts
<1>4. Proper(Form(w)) /\ BookIds(Form(w)) \subseteq next
  <2> HIDE DEF r
  <2>0. /\ Proper(Form(v)) /\ BookIds(Form(v)) \subseteq acc
        /\ \A p \in P : p.id \notin acc
        /\ Moves(a, r, P, c)
    BY DEF JudgedBy, r
  <2> HIDE DEF a, c
  <2>1. CASE r.status = "accepted"
    <3>1. PICK p \in P : p.id = r.order /\ c = Opened(Form(v), p)
      BY <1>3b, <2>0, <2>1 DEF Moves
    <3>1a. c.book = Engine!HandleOrder(Form(v), p).book
      BY <3>1 DEF Opened, Account
    <3>2. p \in OrderSet /\ p.id \notin BookIds(Form(v))
      BY <1>3, <2>0
    <3>3. Proper(Form(w)) /\ BookIds(Form(w)) \subseteq BookIds(Form(v)) \cup {p.id}
      BY <1>3, <1>3b, <2>0, <3>1a, <3>2, HandleKeeps
    <3> QED BY <2>0, <2>1, <3>1, <3>3 DEF AccWith
  <2>2. CASE r.status = "cancelled"
    <3>1. Form(w) = WithoutBook(Form(v), r.order)
      BY <1>3b, <2>0, <2>2 DEF Moves, Settled, Account
    <3>2. Proper(Form(w)) /\ BookIds(Form(w)) \subseteq BookIds(Form(v))
      BY <1>3, <2>0, <3>1, WithoutProper
    <3> QED BY <2>0, <2>2, <3>2 DEF AccWith
  <2>3. CASE r.status \notin {"accepted", "cancelled"}
    <3>1. c.book = a.book
      BY <2>0, <2>3 DEF Moves, Account
    <3> QED BY <1>3b, <2>0, <2>3, <3>1 DEF AccWith
  <2> QED BY <2>1, <2>2, <2>3
<1>5. Q \subseteq OrderSet /\ UniqueIds(Q) /\ \A p \in Q : p.id \notin next
  BY DEF JudgedBy, UniqueIds, PendingWithout, AccWith
<1>6. Proper(bk) /\ BookIds(bk) \subseteq Known(next, rest)
  BY <1>1 DEF JudgedBy
<1>7. Judged(w, Q, next, rest, bk)
  <2> HIDE DEF next, Q
  <2>1. JudgedBy(w, t, Q, next, rest, bk)
    BY <1>1, <1>2, <1>4, <1>5, <1>6 DEF JudgedBy
  <2> QED BY <2>1 DEF Judged
<1>8. ASSUME NEW p \in P, p.id \notin Known(acc, rs) PROVE p \in Q
  <2>1. r.status = "accepted" => r.order \in Known(acc, rs)
    BY <1>1 DEF Known, AccWith
  <2> QED BY <1>8, <2>1 DEF PendingWithout
<1> QED BY <1>1, <1>7, <1>8 DEF rest

\* w is v with the first report taken.
Takes(v, s, P, r, w) ==
    /\ \E t : Lacks(w, t) /\ Moves(Account(Form(v), s), r, P, Account(Form(w), t))
    /\ w.pendingOrders = PendingWithout(v.pendingOrders, r)

\* ... which it does when it is an answer of the engine to an order that is pending.
LEMMA TakeAnswer ==
    ASSUME NEW v, ShardInv(v), NEW s, NEW P, NEW acc, NEW rs \in Seq(ReportSet), rs # <<>>, NEW bk,
           JudgedBy(v, s, P, acc, rs, bk), Head(rs).status # "filled",
           v.pendingOrders \subseteq P,
           Head(rs).status = "accepted" => IsPending(v, Head(rs).order)
    PROVE  Takes(v, s, P, Head(rs), ProcessAck(v, Head(rs).order, Head(rs).status))
<1> DEFINE r == Head(rs)
           w == ProcessAck(v, r.order, r.status)
           V == v.pendingOrders
           a == Account(Form(v), s)
           none == <<>>
<1>1. /\ r.status = "accepted" => r.order \notin acc
      /\ r.status # "accepted" => r.order \in acc
  BY OrderedHead DEF JudgedBy
<1>2. /\ Proper(Form(v)) /\ UniqueIds(V) /\ \A p \in P : p.id \notin acc
      /\ v \in Shards /\ Form(v) \in BookSet /\ V \subseteq P
  BY FormFacts DEF JudgedBy, ShardInv, UniqueIds
<1>3. /\ r \in ReportSet /\ r.order \in Orders
      /\ r.status \in {"accepted", "cancelled", "rejected"}
  BY HeadTail, FillReportFacts
<1>4. s = none /\ Lacks(v, none)
  <2>1. Lacks(v, s) /\ Replayed(a, P, rs, Settled(bk))
    BY DEF JudgedBy
  <2>2. s \in Seq(ReportSet)
    BY <2>1 DEF Lacks
  <2>3. a.due = s
    BY <1>2, <2>2, AccountFacts
  <2> HIDE DEF a
  <2>4. \E c : Moves(a, r, P, c)
    BY <2>1, ReplayFirst
  <2> QED BY <2>1, <2>3, <2>4 DEF Moves
<1>4a. a.book = Form(v) /\ a.due = none /\ a = Settled(Form(v))
  BY <1>4 DEF Account, Settled
<1> HIDE DEF r, V, a
<1>5. CASE r.status = "accepted"
  <2>1. PICK p \in V : p.id = r.order
    BY <1>5 DEF IsPending, r, V
  <2> DEFINE tt == Tail(Engine!HandleOrder(Form(v), p).reports)
  <2>2. w = ProcessAck(v, p.id, "accepted")
    BY <1>5, <2>1
  <2>3. Form(w) = Engine!HandleOrder(Form(v), p).book /\ w.pendingOrders = V \ {p}
    BY <1>2, <2>1, <2>2, AckAgrees DEF V
  <2>3a. Lacks(w, tt)
    <3> HIDE DEF none
    <3>1. none = <<>>
      BY DEF none
    <3> QED BY <1>2, <1>4, <2>1, <2>2, <3>1, AckLacks DEF V
  <2>3b. Opened(Form(v), p) = Account(Form(w), tt)
    BY <2>3 DEF Opened
  <2> HIDE DEF w, tt
  <2>4. Moves(a, r, P, Account(Form(w), tt))
    BY <1>2, <1>4a, <1>5, <2>1, <2>3b DEF Moves
  <2>5. w.pendingOrders = PendingWithout(V, r)
    BY <1>2, <1>5, <2>1, <2>3 DEF PendingWithout, UniqueIds
  <2>6. Takes(v, s, P, r, w)
    BY <2>3a, <2>4, <2>5 DEF Takes, V, a
  <2> QED BY <2>6 DEF w, r
<1>6. CASE r.status # "accepted"
  <2> DEFINE next == IF r.status = "cancelled" THEN removeRestingOrder(v, r.order) ELSE v
  <2>1. ~IsPending(v, r.order)
    BY <1>1, <1>2, <1>6 DEF IsPending, V, r
  <2>2. w = checkCleanup(next, r.order)
    BY <1>3, <1>6, <2>1 DEF ProcessAck
  <2>3. next \in Shards
    BY <1>2, <1>3, RemoveInv DEF ShardInv
  <2>4. /\ r.status = "cancelled" => Form(next) = WithoutBook(Form(v), r.order)
        /\ r.status # "cancelled" => next = v
    BY <1>2, <1>3, CancelAgrees
  <2>5. next.pendingOrders = V
    BY <1>2 DEF removeRestingOrder, V, Shards
  <2>5a. SameFills(v, next)
    BY <1>2 DEF removeRestingOrder, SameFills, Shards
  <2> HIDE DEF next, none
  <2>5b. Lacks(w, none)
    BY <1>3, <1>4, <2>2, <2>3, <2>5a, LacksSame, CleanupLacks
  <2>6. SameBooks(next, w)
    BY <1>3, <2>2, <2>3, CleanupFacts
  <2>7. Form(w) = Form(next) /\ w.pendingOrders = V
    BY <2>5, <2>6, SameForm DEF SameBooks
  <2> HIDE DEF w
  <2>8. Moves(a, r, P, Account(Form(w), none))
    <3>1. Account(Form(w), none) = Settled(Form(w))
      BY DEF Settled, none
    <3>2. none = <<>>
      BY DEF none
    <3> QED BY <1>3, <1>4a, <1>6, <2>4, <2>7, <3>1, <3>2 DEF Moves
  <2>9. w.pendingOrders = PendingWithout(V, r)
    BY <1>6, <2>7 DEF PendingWithout
  <2>10. Takes(v, s, P, r, w)
    BY <2>5b, <2>8, <2>9 DEF Takes, V, a
  <2> QED BY <2>10 DEF w, r
<1> QED BY <1>5, <1>6

\* A fill changes neither book, and is the next that was expected.
LEMMA TakeFill ==
    ASSUME NEW v \in Shards, NEW s, NEW P, NEW acc, NEW rs \in Seq(ReportSet), rs # <<>>, NEW bk,
           JudgedBy(v, s, P, acc, rs, bk), Head(rs).status = "filled"
    PROVE  Takes(v, s, P, Head(rs), ProcessFill(v, Head(rs).order, Fill(Head(rs))))
<1> DEFINE r == Head(rs)
           fills == [v.actualFills EXCEPT ![r.order] = Append(@, Fill(r))]
           next == [v EXCEPT !.actualFills = fills]
           w == ProcessFill(v, r.order, Fill(r))
           a == Account(Form(v), s)
<1>0. r \in ReportSet
  BY HeadTail
<1>0a. s \in Seq(ReportSet) /\ Form(v) \in BookSet /\ Lacks(v, s) /\ Replayed(a, P, rs, Settled(bk))
  BY FormFacts DEF JudgedBy, Lacks
<1>0b. a.book = Form(v) /\ a.due = s
  BY <1>0a, AccountFacts
<1> HIDE DEF a
<1>0c. s # <<>> /\ r = Head(s)
  <2>1. \E c : Moves(a, r, P, c)
    BY <1>0a, ReplayFirst
  <2> QED BY <1>0b, <2>1 DEF Moves
<1> HIDE DEF r
<1>0d. r.status = "filled"
  BY DEF r
<1>0e. Lacks(w, Tail(s))
  BY <1>0a, <1>0c, <1>0d, FillLacks
<1>1. r.order \in Orders /\ Fill(r) \in FillSet
  BY <1>0, <1>0d, FillReportFacts
<1>1a. v.actualFills \in [Orders -> Seq(FillSet)]
  BY DEF Shards
<1>1b. fills \in [Orders -> Seq(FillSet)]
  BY <1>1, <1>1a
<1>3. w = checkCleanup(next, r.order)
  BY DEF ProcessFill
<1> HIDE DEF fills
<1>2. next \in Shards /\ next.bids = v.bids /\ next.asks = v.asks
      /\ next.pendingOrders = v.pendingOrders
  BY <1>1b DEF Shards
<1> HIDE DEF next, w
<1>4. SameBooks(next, w)
  BY <1>1, <1>2, <1>3, CleanupFacts
<1>5. w.bids = v.bids /\ w.asks = v.asks /\ w.pendingOrders = v.pendingOrders
  BY <1>2, <1>4 DEF SameBooks
<1>6. Form(w) = Form(v)
  BY <1>5, SameForm
<1>7. Moves(a, r, P, Account(Form(w), Tail(s)))
  BY <1>0b, <1>0c, <1>0d, <1>6 DEF Moves
<1>8. w.pendingOrders = PendingWithout(v.pendingOrders, r)
  BY <1>0d, <1>5 DEF PendingWithout
<1>9. Takes(v, s, P, r, w)
  BY <1>0e, <1>7, <1>8 DEF Takes, a
<1> QED BY <1>9 DEF r, w

\* w counts as many unknown acknowledgements as v.
Counts(v, w) == w \in Shards /\ w.unknownAcks = v.unknownAcks

\* A trade counts no unknown acknowledgement,
LEMMA TradeCounts ==
    ASSUME NEW v \in Shards, NEW o \in OrderSet, NEW r \in OrderSet, NEW qty \in 1..r.qty
    PROVE  Counts(v, TradeWith(v, o, r, qty))
<1> DEFINE side == Opposite(o.side)
           a == recordExpectedFill(v, o.id, qty, r.price, r.id)
           b == recordExpectedFill(a, r.id, qty, r.price, o.id)
           old == b[side][r.price]
           part == [r EXCEPT !.qty = @ - qty]
           new == IF qty = r.qty THEN Without(old, r.id) ELSE ReplaceAll(old, r, part)
           c == WithLevel(b, side, r.price, new)
           w == TradeWith(v, o, r, qty)
<1>1. /\ o.id \in Orders /\ r.id \in Orders /\ r.price \in Prices /\ r.price \in Nat
      /\ qty \in Nat /\ r.qty \in 1..MaxQty
  <2>1. o.id \in Orders /\ r.id \in Orders /\ r.price \in Prices /\ r.qty \in 1..MaxQty
    BY DEF OrderSet
  <2>2. qty \in Nat
    BY <2>1, ValidatorAssumption
  <2> QED BY <2>1, <2>2, PricesFacts
<1>2. side \in Sides
  BY SideFacts
<1>3. w = IF qty = r.qty
          THEN checkCleanup([b EXCEPT ![side][r.price] = Without(@, r.id)], r.id)
          ELSE [b EXCEPT ![side][r.price] = ReplaceAll(@, r, part)]
  BY DEF TradeWith
<1>4. w = IF qty = r.qty THEN checkCleanup(c, r.id) ELSE c
  BY <1>3 DEF WithLevel
<1> HIDE DEF w, side
<1>5. a \in Shards /\ a.unknownAcks = v.unknownAcks
  <2>1. a \in Shards
    BY <1>1, RecordFacts
  <2> QED BY <2>1 DEF recordExpectedFill, Shards
<1> HIDE DEF a
<1>6. b \in Shards /\ b.unknownAcks = v.unknownAcks
  <2>1. b \in Shards
    BY <1>1, <1>5, RecordFacts
  <2> QED BY <1>5, <2>1 DEF recordExpectedFill, Shards
<1> HIDE DEF b
<1>7. new \in Seq(OrderSet)
  <2>1. old \in Seq(OrderSet)
    BY <1>1, <1>2, <1>6, BookFacts
  <2>2. part \in OrderSet \/ qty = r.qty
    BY <1>1, ValidatorAssumption DEF OrderSet
  <2> HIDE DEF old, part
  <2>3. Without(old, r.id) \in Seq(OrderSet)
    BY <2>1, WithoutFacts
  <2>4. qty # r.qty => ReplaceAll(old, r, part) \in Seq(OrderSet)
    BY <2>1, <2>2, ReplaceFacts
  <2> QED BY <2>3, <2>4
<1> HIDE DEF new
<1>8. c \in Shards /\ SameFills(b, c)
  BY <1>1, <1>2, <1>6, <1>7, LevelFacts, LevelFills
<1> HIDE DEF c
<1>9. checkCleanup(c, r.id) \in Shards /\ Cleaned(c, r.id, checkCleanup(c, r.id))
  BY <1>1, <1>8, CleanupFacts, CleanupCleans
<1>10. Counts(v, w)
  BY <1>4, <1>6, <1>8, <1>9 DEF Counts, SameFills, Cleaned
<1> QED BY <1>10 DEF w

\* nor does the matching loop,
LEMMA MatchCounts ==
    ASSUME NEW v \in Shards, NEW o \in OrderSet
    PROVE  \A s \in Seq(OrderSet) : Counts(v, MatchSeq(v, o, s).v)
<1> DEFINE T == {s \in Seq(OrderSet) : Counts(v, MatchSeq(v, o, s).v)}
<1>1. <<>> \in T
  <2>1. MatchSeq(v, o, <<>>) = [v |-> v, left |-> o.qty]
    BY MatchSeqEmpty
  <2> QED BY <2>1 DEF Counts
<1>2. ASSUME NEW s \in Seq(OrderSet), NEW r \in OrderSet, s \in T PROVE Append(s, r) \in T
  <2> DEFINE sr == Append(s, r)
             a == MatchSeq(v, o, s)
             b == MatchStep(o, a, r)
             q == Smallest(r.qty, a.left)
  <2>1. sr \in Seq(OrderSet) /\ a \in Accs /\ MatchSeq(v, o, sr) = b
    BY MatchSeqAppend
  <2>2. Counts(v, a.v)
    BY <1>2
  <2> HIDE DEF sr, a
  <2>3. a.v \in Shards /\ (a.left # 0 => q \in 1..r.qty)
    BY <2>1, MatchStepFacts DEF Accs
  <2>4. Counts(v, b.v)
    <3>1. CASE a.left = 0
      BY <2>2, <3>1 DEF MatchStep
    <3>2. CASE a.left # 0
      <4> DEFINE w == TradeWith(a.v, o, r, q)
      <4>1. b.v = w
        BY <3>2 DEF MatchStep
      <4>2. Counts(a.v, w)
        <5> HIDE DEF q
        <5> QED BY <2>3, <3>2, TradeCounts
      <4> HIDE DEF w, b
      <4> QED BY <2>2, <4>1, <4>2 DEF Counts
    <3> QED BY <3>1, <3>2
  <2> HIDE DEF b
  <2>5. sr \in T
    BY <2>1, <2>4
  <2> QED BY <2>5 DEF sr
<1>3. \A s \in Seq(OrderSet) : s \in T
  <2> HIDE DEF T
  <2> QED BY <1>1, <1>2, SeqsInduction
<1> QED BY <1>3

\* ProcessFill and ProcessAck forget no unknown acknowledgement.
LEMMA FillCounts ==
    ASSUME NEW v \in Shards, NEW id \in Orders, NEW f \in FillSet
    PROVE  ProcessFill(v, id, f).unknownAcks = v.unknownAcks
<1> DEFINE fills == [v.actualFills EXCEPT ![id] = Append(@, f)]
           next == [v EXCEPT !.actualFills = fills]
<1>1. v.actualFills \in [Orders -> Seq(FillSet)]
  BY DEF Shards
<1>2. fills \in [Orders -> Seq(FillSet)]
  BY <1>1
<1>3. ProcessFill(v, id, f) = checkCleanup(next, id)
  BY DEF ProcessFill
<1> HIDE DEF fills
<1>4. next \in Shards /\ next.unknownAcks = v.unknownAcks
  BY <1>2 DEF Shards
<1> HIDE DEF next
<1>5. Cleaned(next, id, checkCleanup(next, id))
  BY <1>4, CleanupCleans
<1> QED BY <1>3, <1>4, <1>5 DEF Cleaned

\* nor the acceptance of a pending order.
LEMMA AcceptCounts ==
    ASSUME NEW v, ShardInv(v), NEW o \in OrderSet
    PROVE  Counts(v, Accept(v, o))
<1> DEFINE L == o.type = "limit"
           ms == Makers(v, o, L)
           a == matchIncoming(v, o, L)
           w == Accept(v, o)
           rest == [o EXCEPT !.qty = a.left]
<1>1. v \in Shards /\ L \in BOOLEAN
  BY DEF ShardInv
<1>2. ms \in Seq(OrderSet)
  BY <1>1, MakersFacts
<1>3. a = MatchSeq(v, o, ms)
  BY MatchIsSeq
<1>4. ShardInv(w)
  BY LimitInv, MatchInv DEF Accept, matchMarketOrder
<1>5. w = IF L /\ a.left # 0 THEN addOrderToBook(a.v, rest) ELSE a.v
  BY DEF Accept, matchLimitOrder, matchMarketOrder
<1> HIDE DEF ms, a, w, L
<1>6. Counts(v, a.v)
  BY <1>1, <1>2, <1>3, MatchCounts
<1>7. ASSUME NEW q PROVE addOrderToBook(a.v, q).unknownAcks = a.v.unknownAcks
  BY <1>6 DEF Counts, addOrderToBook, Shards, Own
<1> HIDE DEF rest
<1>8. w.unknownAcks = v.unknownAcks
  BY <1>5, <1>6, <1>7 DEF Counts
<1>9. Counts(v, w)
  BY <1>4, <1>8 DEF Counts, ShardInv
<1> QED BY <1>9 DEF w

\* ProcessAck counts up, and does so for the acceptance of an order it does not know.
LEMMA AckCounts ==
    ASSUME NEW v, ShardInv(v), NEW id \in Orders, NEW status
    PROVE  LET w == ProcessAck(v, id, status)
           IN  /\ w.unknownAcks \in Nat /\ v.unknownAcks \in Nat /\ w.unknownAcks >= v.unknownAcks
               /\ status = "accepted" /\ ~IsPending(v, id) => w.unknownAcks # 0
<1> DEFINE order == CHOOSE o \in v.pendingOrders : o.id = id
           P == v.pendingOrders \ {order}
           acked == [v EXCEPT !.pendingOrders = P]
           refused == [acked EXCEPT !.ackViolations = @ + 1]
           unknown == [v EXCEPT !.unknownAcks = @ + 1]
           next == CASE status = "cancelled" -> removeRestingOrder(v, id)
                     [] status # "cancelled" /\ ~IsPending(v, id) ->
                          IF status = "rejected" THEN v ELSE unknown
                     [] OTHER -> IF status # "accepted" THEN refused
                                 ELSE Accept(acked, order)
           w == ProcessAck(v, id, status)
<1>1. v \in Shards /\ v.unknownAcks \in Nat
  BY DEF ShardInv, Shards
<1>2. w = checkCleanup(next, id)
  BY DEF ProcessAck, Accept
<1>3. P \in SUBSET OrderSet
  BY <1>1 DEF Shards
<1>4. IsPending(v, id) => order \in OrderSet
  BY <1>1 DEF IsPending, Shards
<1> HIDE DEF P, order
<1>5. acked \in Shards /\ acked.bids = v.bids /\ acked.asks = v.asks
      /\ acked.unknownAcks = v.unknownAcks
  BY <1>1, <1>3 DEF Shards
<1>6. ShardInv(acked)
  BY <1>5, OutsideInv
<1>7. refused \in Shards /\ refused.unknownAcks = v.unknownAcks
  <2> DEFINE m == acked.ackViolations + 1
  <2> HIDE DEF acked
  <2>1. refused = [acked EXCEPT !.ackViolations = m]
    BY <1>5 DEF Shards
  <2>2. m \in Nat
    BY <1>5 DEF Shards
  <2> HIDE DEF m, refused
  <2> QED BY <1>5, <2>1, <2>2 DEF Shards
<1>8. unknown \in Shards /\ unknown.unknownAcks = v.unknownAcks + 1
  <2> DEFINE k == v.unknownAcks + 1
  <2>1. unknown = [v EXCEPT !.unknownAcks = k]
    BY <1>1 DEF Shards
  <2>2. k \in Nat
    BY <1>1
  <2> HIDE DEF k, unknown
  <2>3. unknown \in Shards /\ unknown.unknownAcks = k
    BY <1>1, <2>1, <2>2 DEF Shards
  <2> QED BY <2>3 DEF k
<1>9. removeRestingOrder(v, id) \in Shards /\ removeRestingOrder(v, id).unknownAcks = v.unknownAcks
  <2> DEFINE bids == [p \in Prices |-> Without(v.bids[p], id)]
             asks == [p \in Prices |-> Without(v.asks[p], id)]
             gone == removeRestingOrder(v, id)
  <2>1. gone = [v EXCEPT !.bids = bids, !.asks = asks]
    BY DEF removeRestingOrder
  <2>2. ShardInv(gone)
    BY RemoveInv
  <2> HIDE DEF bids, asks, gone
  <2>3. gone.unknownAcks = v.unknownAcks
    BY <1>1, <2>1 DEF Shards
  <2>4. gone \in Shards
    BY <2>2 DEF ShardInv
  <2> QED BY <2>3, <2>4 DEF gone
<1> HIDE DEF acked, refused, unknown
<1>10. IsPending(v, id) => Counts(acked, Accept(acked, order))
  BY <1>4, <1>6, AcceptCounts
<1>11. next \in Shards /\ next.unknownAcks \in {v.unknownAcks, v.unknownAcks + 1}
       /\ (status = "accepted" /\ ~IsPending(v, id) => next.unknownAcks = v.unknownAcks + 1)
  <2>1. CASE status = "cancelled"
    BY <1>9, <2>1
  <2>2. CASE status # "cancelled" /\ ~IsPending(v, id)
    BY <1>1, <1>8, <2>2
  <2>3. CASE status # "cancelled" /\ IsPending(v, id)
    BY <1>5, <1>7, <1>10, <2>3 DEF Counts
  <2> QED BY <2>1, <2>2, <2>3
<1> HIDE DEF next
<1>12. Cleaned(next, id, checkCleanup(next, id))
  BY <1>11, CleanupCleans
<1>13. w.unknownAcks = next.unknownAcks
  BY <1>2, <1>12 DEF Cleaned
<1> HIDE DEF w
<1>14. /\ w.unknownAcks \in Nat /\ w.unknownAcks >= v.unknownAcks
       /\ status = "accepted" /\ ~IsPending(v, id) => w.unknownAcks # 0
  BY <1>1, <1>11, <1>13
<1> QED BY <1>1, <1>14 DEF w

\* orderMap holds the ids of the book.
LEMMA RestingIds == ASSUME NEW v \in Shards PROVE Resting(v) = BookIds(Form(v))
<1>1. ASSUME NEW levels \in Levels, NEW side PROVE Ids(levels) = IdsOf(Line(levels, side))
  <2>1. \A x : x \in ToSet(Line(levels, side)) <=> \E p \in Prices : x \in ToSet(levels[p])
    BY <1>1, LineFacts
  <2> DEFINE s == Line(levels, side)
  <2> HIDE DEF s
  <2>2. \A x : x \in ToSet(s) <=> \E p \in Prices : x \in ToSet(levels[p])
    BY <2>1 DEF s
  <2>3. IdsOf(s) = {x.id : x \in ToSet(s)}
    BY DEF IdsOf, ToSet
  <2>4. ToSet(s) = UNION {ToSet(levels[p]) : p \in Prices}
    BY <2>2
  <2>5. IdsOf(s) = Ids(levels)
    BY <2>3, <2>4 DEF Ids
  <2> QED BY <2>5 DEF s
<1>2. v.bids \in Levels /\ v.asks \in Levels
  BY DEF Shards, Levels
<1>3. Ids(v.bids) = IdsOf(Line(v.bids, "bids")) /\ Ids(v.asks) = IdsOf(Line(v.asks, "asks"))
  BY <1>1, <1>2
<1> QED BY <1>3 DEF Resting, BookIds, Form

\* ProcessOrder on an order that the validator does not have.
LEMMA ProcessOrderFacts ==
    ASSUME NEW v \in Shards, NEW o \in OrderSet, ~IsPending(v, o.id), o.id \notin BookIds(Form(v))
    PROVE  LET w == ProcessOrder(v, o)
           IN  /\ w \in Shards /\ SameFills(v, w)
               /\ w.bids = v.bids /\ w.asks = v.asks
               /\ w.pendingOrders = v.pendingOrders \cup {o}
<1> DEFINE repeats == (IF IsPending(v, o.id) THEN 1 ELSE 0)
                      + (IF o.id \in Resting(v) THEN 1 ELSE 0)
           d == v.duplicateOrders
           V == {p \in v.pendingOrders : p.id # o.id} \cup {o}
           w == ProcessOrder(v, o)
<1>1. d \in Nat /\ v.pendingOrders \in SUBSET OrderSet
  BY DEF Shards
<1>2. repeats = 0
  BY RestingIds
<1>3. w = [v EXCEPT !.duplicateOrders = d + repeats, !.pendingOrders = V]
  BY DEF ProcessOrder
<1>4. d + repeats = d
  BY <1>1, <1>2
<1>5. w = [v EXCEPT !.duplicateOrders = d, !.pendingOrders = V]
  BY <1>3, <1>4
<1>6. V = v.pendingOrders \cup {o} /\ V \in SUBSET OrderSet
  BY <1>1 DEF IsPending
<1> HIDE DEF V, w, d
<1>7. w \in Shards
  BY <1>1, <1>5, <1>6 DEF Shards
<1>8. SameFills(v, w) /\ w.bids = v.bids /\ w.asks = v.asks /\ w.pendingOrders = V
  BY <1>5 DEF SameFills, Shards, d
<1> QED BY <1>6, <1>7, <1>8 DEF w

\* Judged is about the book and the fills.
LEMMA JudgedSame ==
    ASSUME NEW v, NEW w \in Shards, NEW P, NEW acc, NEW rs, NEW bk, Judged(v, P, acc, rs, bk),
           SameFills(v, w), Form(w) = Form(v)
    PROVE  Judged(w, P, acc, rs, bk)
<1>1. PICK s : JudgedBy(v, s, P, acc, rs, bk)
  BY DEF Judged
<1>2. Lacks(w, s)
  BY <1>1, LacksSame DEF JudgedBy
<1>3. JudgedBy(w, s, P, acc, rs, bk)
  BY <1>1, <1>2 DEF JudgedBy
<1> QED BY <1>3 DEF Judged

\* One more order that nobody has reported on.
LEMMA JudgedMore ==
    ASSUME NEW v, NEW P, NEW acc, NEW rs, NEW bk, Judged(v, P, acc, rs, bk),
           NEW o \in OrderSet, o.id \notin acc, \A p \in P : p.id # o.id
    PROVE  Judged(v, P \cup {o}, acc, rs, bk)
<1> DEFINE Q == P \cup {o}
<1>1. PICK s : JudgedBy(v, s, P, acc, rs, bk)
  BY DEF Judged
<1>2. P \subseteq Q /\ Q \subseteq OrderSet /\ UniqueIds(Q) /\ \A p \in Q : p.id \notin acc
  BY <1>1 DEF JudgedBy, UniqueIds
<1> HIDE DEF Q
<1>3. Replayed(Account(Form(v), s), Q, rs, Settled(bk))
  BY <1>1, <1>2, ReplaySame DEF JudgedBy
<1>4. JudgedBy(v, s, Q, acc, rs, bk)
  BY <1>1, <1>2, <1>3 DEF JudgedBy
<1> QED BY <1>4 DEF Judged, Q

\* The engine handles an order.
LEMMA EngineOrder ==
    ASSUME NEW v, NEW P, NEW acc, NEW rs \in Seq(ReportSet), NEW bk \in BookSet,
           Judged(v, P, acc, rs, bk), NEW o \in P, o.id \notin Known(acc, rs)
    PROVE  LET r == Engine!HandleOrder(bk, o)
           IN  /\ Judged(v, P, acc, rs \o r.reports, r.book)
               /\ Known(acc, rs \o r.reports) = Known(acc, rs) \cup {o.id}
<1> DEFINE r == Engine!HandleOrder(bk, o)
           t == r.reports
           c == r.book
<1>0. PICK s : JudgedBy(v, s, P, acc, rs, bk)
  BY DEF Judged
<1>1. o \in OrderSet
  BY <1>0 DEF JudgedBy
<1>2. t \in Seq(ReportSet) /\ c \in BookSet
  BY <1>1, HandleFacts
<1>3. Answers(t, o.id, BookIds(bk))
  BY <1>1, HandleAnswers
<1>4. /\ Proper(bk) /\ BookIds(bk) \subseteq Known(acc, rs) /\ Ordered(acc, rs)
      /\ Replayed(Account(Form(v), s), P, rs, Settled(bk))
  BY <1>0 DEF JudgedBy
<1>5. Proper(c) /\ BookIds(c) \subseteq BookIds(bk) \cup {o.id}
  BY <1>1, <1>4, HandleKeeps
<1>6. Replayed(Settled(bk), P, t, Settled(c))
  BY <1>1, ReplayAnswers
<1> HIDE DEF t, c, r
<1>7. Replayed(Account(Form(v), s), P, rs \o t, Settled(c))
  BY <1>2, <1>4, <1>6, ReplayMore
<1>8. Ordered(acc, rs \o t) /\ Known(acc, rs \o t) = Known(acc, rs) \cup {o.id}
  BY <1>2, <1>3, <1>4, OrderedAnswers
<1>9. Judged(v, P, acc, rs \o t, c)
  <2> DEFINE u == rs \o t
  <2> HIDE DEF u
  <2>1. /\ Replayed(Account(Form(v), s), P, u, Settled(c))
        /\ Ordered(acc, u) /\ Known(acc, u) = Known(acc, rs) \cup {o.id}
    BY <1>7, <1>8 DEF u
  <2>2. BookIds(c) \subseteq Known(acc, u)
    BY <1>4, <1>5, <2>1
  <2>3. JudgedBy(v, s, P, acc, u, c)
    BY <1>0, <1>5, <2>1, <2>2 DEF JudgedBy
  <2> QED BY <2>3 DEF u, Judged
<1> QED BY <1>8, <1>9 DEF r, t, c

\* The engine handles a cancel.
LEMMA EngineCancel ==
    ASSUME NEW v, NEW P, NEW acc, NEW rs \in Seq(ReportSet), NEW bk \in BookSet,
           Judged(v, P, acc, rs, bk), NEW id \in Orders, id \in Known(acc, rs)
    PROVE  LET r == Engine!HandleCancel(bk, id)
           IN  /\ Judged(v, P, acc, rs \o r.reports, r.book)
               /\ Known(acc, rs \o r.reports) = Known(acc, rs)
<1> DEFINE r == Engine!HandleCancel(bk, id)
           c == r.book
           x == IF id \in BookIds(bk) THEN Engine!Ack(id, "cancelled")
                ELSE Engine!Ack(id, "rejected")
           t == <<x>>
<1>0. PICK s : JudgedBy(v, s, P, acc, rs, bk)
  BY DEF Judged
<1>1. /\ Proper(bk) /\ BookIds(bk) \subseteq Known(acc, rs) /\ Ordered(acc, rs)
      /\ Replayed(Account(Form(v), s), P, rs, Settled(bk))
  BY <1>0 DEF JudgedBy
<1>2. /\ c = WithoutBook(bk, id) /\ r.reports = t
      /\ id \notin BookIds(bk) => c = bk
  BY <1>1, CancelBook
<1>3. c \in BookSet /\ Proper(c) /\ BookIds(c) \subseteq BookIds(bk)
  BY <1>1, <1>2, WithoutProper
<1>4. x \in ReportSet
  BY ReportFacts
<1>5. x.order = id /\ x.status \in {"cancelled", "rejected"}
      /\ (x.status = "rejected" => id \notin BookIds(bk))
  BY DEF Engine!Ack
<1> HIDE DEF x, c, r
<1>6. Replayed(Settled(bk), P, t, Settled(c))
  <2>1. Settled(bk) \in Accounts /\ Settled(c) \in Accounts
    BY <1>3 DEF Settled, Account, Accounts
  <2>2. Settled(bk).book = bk /\ Settled(bk).due = <<>>
    BY DEF Settled, Account
  <2>3. Moves(Settled(bk), x, P, Settled(c))
    BY <1>2, <1>5, <2>2 DEF Moves
  <2> QED BY <1>4, <2>1, <2>3, ReplayOne
<1>7. t \in Seq(ReportSet)
  BY <1>4
<1>9. Ordered(acc, rs \o t) /\ Known(acc, rs \o t) = Known(acc, rs)
  BY <1>1, <1>4, <1>5, OrderedOne
<1> HIDE DEF t
<1>10. Replayed(Account(Form(v), s), P, rs \o t, Settled(c))
  BY <1>1, <1>6, <1>7, ReplayMore
<1>11. Judged(v, P, acc, rs \o t, c)
  <2> DEFINE u == rs \o t
  <2> HIDE DEF u
  <2>1. /\ Replayed(Account(Form(v), s), P, u, Settled(c))
        /\ Ordered(acc, u) /\ Known(acc, u) = Known(acc, rs)
    BY <1>9, <1>10 DEF u
  <2>2. JudgedBy(v, s, P, acc, u, c)
    BY <1>0, <1>1, <1>3, <2>1 DEF JudgedBy
  <2> QED BY <2>2 DEF u, Judged
<1> QED BY <1>2, <1>9, <1>11 DEF r, c

\* The bots and the connections.
Sending(inb, P, known, act, snt) ==
    /\ Mail(inb, P, known) /\ Awaited(inb, known, act)
    /\ known \subseteq snt /\ \A p \in P : p.id \in snt

\* The validator judges the engine with the orders U still to be published.
Sound(v, U, acc, rs, bk, inb, act, snt) ==
    /\ v.pendingOrders \cap U = {}
    /\ Judged(v, v.pendingOrders \cup U, acc, rs, bk)
    /\ Sending(inb, v.pendingOrders \cup U, Known(acc, rs), act, snt)

\* What is judged when the validator takes the first report.
LEMMA JudgeTake ==
    ASSUME NEW v \in Shards, NEW s, NEW P, NEW acc, NEW rs \in Seq(ReportSet), rs # <<>>, NEW bk,
           JudgedBy(v, s, P, acc, rs, bk), NEW w, Takes(v, s, P, Head(rs), w)
    PROVE  /\ Judged(w, PendingWithout(P, Head(rs)), AccWith(acc, Head(rs)), Tail(rs), bk)
           /\ Known(AccWith(acc, Head(rs)), Tail(rs)) = Known(acc, rs)
           /\ \A p \in P : p.id \notin Known(acc, rs) => p \in PendingWithout(P, Head(rs))
<1>1. PICK t : Lacks(w, t) /\ Moves(Account(Form(v), s), Head(rs), P, Account(Form(w), t))
  BY DEF Takes
<1>2. w \in Shards
  BY <1>1 DEF Lacks
<1> QED BY <1>1, <1>2, JudgeHead

\* The orders that the validator has not seen acknowledged, published or not.
IsPool(P, v, U) == P = v.pendingOrders \cup U

\* The same with the orders to be published and the connections.
LEMMA SoundTake ==
    ASSUME NEW v \in Shards, NEW U, NEW acc, NEW rs \in Seq(ReportSet), rs # <<>>, NEW bk,
           NEW inb, NEW act, NEW snt, Sound(v, U, acc, rs, bk, inb, act, snt),
           Head(rs).status = "accepted" => IsPending(v, Head(rs).order),
           NEW s, NEW P, IsPool(P, v, U), JudgedBy(v, s, P, acc, rs, bk),
           NEW w, Takes(v, s, P, Head(rs), w)
    PROVE  Sound(w, U, AccWith(acc, Head(rs)), Tail(rs), bk, inb, act, snt)
<1> DEFINE r == Head(rs)
           V == v.pendingOrders
           known == Known(acc, rs)
           Q == PendingWithout(P, r)
           W == w.pendingOrders
<1>1. /\ V \cap U = {}
      /\ Mail(inb, P, known) /\ Awaited(inb, known, act)
      /\ known \subseteq snt /\ \A p \in P : p.id \in snt
  BY DEF Sound, Sending, IsPool
<1>2. /\ Judged(w, Q, AccWith(acc, r), Tail(rs), bk)
      /\ Known(AccWith(acc, r), Tail(rs)) = known
      /\ \A p \in P : p.id \notin known => p \in Q
  BY JudgeTake
<1>3. W = PendingWithout(V, r)
  BY DEF Takes
<1>4. UniqueIds(P) /\ (r.status = "accepted" => \E p \in V : p.id = r.order)
  BY DEF JudgedBy, IsPending
<1> HIDE DEF r
<1>5. W \cap U = {} /\ W \cup U = Q /\ Q \subseteq P
  BY <1>1, <1>3, <1>4 DEF PendingWithout, UniqueIds, IsPool
<1> HIDE DEF Q, W, known, V
<1>6. Mail(inb, Q, known)
  BY <1>1, <1>2, MailLess
<1>7. Sending(inb, Q, known, act, snt)
  BY <1>1, <1>5, <1>6 DEF Sending
<1>8. Sound(w, U, AccWith(acc, r), Tail(rs), bk, inb, act, snt)
  BY <1>2, <1>5, <1>7 DEF Sound, W
<1> QED BY <1>8 DEF r

\* The shard when the consumer has applied the report r.
Applied(v, r) == IF r.status = "filled" THEN ProcessFill(v, r.order, Fill(r))
                 ELSE ProcessAck(v, r.order, r.status)

\* The validator takes the next report.
LEMMA TakeReport ==
    ASSUME NEW v, ShardInv(v), NEW U, NEW acc, NEW rs \in Seq(ReportSet), rs # <<>>, NEW bk,
           NEW inb, NEW act, NEW snt, Sound(v, U, acc, rs, bk, inb, act, snt),
           Head(rs).status = "accepted" => IsPending(v, Head(rs).order)
    PROVE  Sound(Applied(v, Head(rs)), U, AccWith(acc, Head(rs)), Tail(rs), bk, inb, act, snt)
<1> DEFINE r == Head(rs)
           P == v.pendingOrders \cup U
           w == Applied(v, r)
<1>1. PICK s : JudgedBy(v, s, P, acc, rs, bk)
  BY DEF Judged, Sound
<1>2. v.pendingOrders \subseteq P /\ v \in Shards
  BY DEF ShardInv
<1>3. Takes(v, s, P, r, w)
  <2>1. CASE r.status = "filled"
    <3>1. w = ProcessFill(v, r.order, Fill(r))
      BY <2>1 DEF Applied
    <3> HIDE DEF P
    <3> QED BY <1>1, <1>2, <2>1, <3>1, TakeFill
  <2>2. CASE r.status # "filled"
    <3>1. w = ProcessAck(v, r.order, r.status)
      BY <2>2 DEF Applied
    <3> HIDE DEF P
    <3> QED BY <1>1, <1>2, <2>2, <3>1, TakeAnswer
  <2> QED BY <2>1, <2>2
<1>4. IsPool(P, v, U)
  BY DEF IsPool
<1> HIDE DEF P, w
<1>5. Sound(w, U, AccWith(acc, Head(rs)), Tail(rs), bk, inb, act, snt)
  BY <1>1, <1>2, <1>3, <1>4, SoundTake
<1> QED BY <1>5 DEF w

-----------------------------------------------------------------------------
(* The specification: the books agree and an honest engine scores full.    *)

\* What Sound says about ids.
LEMMA SoundFacts ==
    ASSUME NEW v, NEW U, NEW acc, NEW rs, NEW bk, NEW inb, NEW act, NEW snt,
           Sound(v, U, acc, rs, bk, inb, act, snt), NEW P, IsPool(P, v, U)
    PROVE  /\ v.pendingOrders \cap U = {} /\ Judged(v, P, acc, rs, bk)
           /\ Sending(inb, P, Known(acc, rs), act, snt)
           /\ P \in SUBSET OrderSet /\ UniqueIds(P) /\ \A p \in P : p.id \notin acc
           /\ BookIds(Form(v)) \subseteq acc /\ acc \subseteq snt /\ \A p \in P : p.id \in snt
<1>1. /\ v.pendingOrders \cap U = {} /\ Judged(v, P, acc, rs, bk)
      /\ Sending(inb, P, Known(acc, rs), act, snt)
  BY DEF Sound, IsPool
<1>2. PICK s : JudgedBy(v, s, P, acc, rs, bk)
  BY <1>1 DEF Judged
<1>3. acc \subseteq snt /\ \A p \in P : p.id \in snt
  BY <1>1 DEF Sending, Known
<1> QED BY <1>1, <1>2, <1>3 DEF JudgedBy

\* A bot sends an order, and tells the validator of it or publishes it later.
LEMMA SoundOrder ==
    ASSUME NEW v \in Shards, NEW U, NEW acc, NEW rs, NEW bk,
           NEW inb \in [Bots -> Seq(Messages)], NEW act \in SUBSET Orders, NEW snt,
           Sound(v, U, acc, rs, bk, inb, act, snt), NEW o \in OrderSet, o.id \notin snt,
           NEW more \in SUBSET (act \cup {o.id}),
           NEW next, next = [inb EXCEPT ![BotOf[o.id]] = Append(@, o)]
    PROVE  /\ Sound(ProcessOrder(v, o), U, acc, rs, bk, next, more, snt \cup {o.id})
           /\ Sound(v, U \cup {o}, acc, rs, bk, next, more, snt \cup {o.id})
<1> DEFINE P == v.pendingOrders \cup U
           Q == P \cup {o}
           known == Known(acc, rs)
           w == ProcessOrder(v, o)
<1>1. IsPool(P, v, U)
  BY DEF IsPool
<1> HIDE DEF P
<1>2. /\ v.pendingOrders \cap U = {} /\ Judged(v, P, acc, rs, bk)
      /\ Sending(inb, P, known, act, snt)
      /\ P \in SUBSET OrderSet
      /\ BookIds(Form(v)) \subseteq acc /\ acc \subseteq snt /\ \A p \in P : p.id \in snt
  BY <1>1, SoundFacts
<1>3. /\ o.id \notin acc /\ o.id \notin BookIds(Form(v)) /\ \A p \in P : p.id # o.id
      /\ o.id \notin known
  BY <1>2 DEF Sending
<1>4. Judged(v, Q, acc, rs, bk)
  BY <1>2, <1>3, JudgedMore
<1>5. Mail(next, Q, known) /\ Awaited(next, known, more)
  <2> HIDE DEF known
  <2>1. Mail(inb, P, known) /\ Awaited(inb, known, act)
    BY <1>2 DEF Sending
  <2> QED BY <1>2, <1>3, <2>1, MailOrder
<1> HIDE DEF Q
<1>6. Sending(next, Q, known, more, snt \cup {o.id})
  <2> HIDE DEF known
  <2>1. known \subseteq snt /\ \A p \in Q : p.id \in snt \cup {o.id}
    BY <1>2 DEF Sending, Q
  <2> QED BY <1>5, <2>1 DEF Sending
<1>7. v.pendingOrders \cup (U \cup {o}) = Q /\ v.pendingOrders \cap (U \cup {o}) = {}
      /\ (v.pendingOrders \cup {o}) \cup U = Q /\ (v.pendingOrders \cup {o}) \cap U = {}
      /\ ~IsPending(v, o.id)
  BY <1>2, <1>3 DEF P, Q, IsPending
<1>8. /\ w \in Shards /\ SameFills(v, w) /\ w.bids = v.bids /\ w.asks = v.asks
      /\ w.pendingOrders = v.pendingOrders \cup {o}
  BY <1>3, <1>7, ProcessOrderFacts
<1> HIDE DEF w
<1>9. Judged(w, Q, acc, rs, bk)
  BY <1>4, <1>8, SameForm, JudgedSame
<1>10. Sound(v, U \cup {o}, acc, rs, bk, next, more, snt \cup {o.id})
  BY <1>4, <1>6, <1>7 DEF Sound
<1>11. Sound(w, U, acc, rs, bk, next, more, snt \cup {o.id})
  BY <1>6, <1>7, <1>8, <1>9 DEF Sound
<1> QED BY <1>10, <1>11 DEF w

\* The record of an order reaches the validator.
LEMMA SoundPublish ==
    ASSUME NEW v \in Shards, NEW U, NEW acc, NEW rs, NEW bk, NEW inb, NEW act, NEW snt,
           Sound(v, U, acc, rs, bk, inb, act, snt), NEW o \in U
    PROVE  Sound(ProcessOrder(v, o), U \ {o}, acc, rs, bk, inb, act, snt)
<1> DEFINE P == v.pendingOrders \cup U
           w == ProcessOrder(v, o)
<1>1. IsPool(P, v, U)
  BY DEF IsPool
<1> HIDE DEF P
<1>2. /\ v.pendingOrders \cap U = {} /\ Judged(v, P, acc, rs, bk)
      /\ Sending(inb, P, Known(acc, rs), act, snt)
      /\ P \in SUBSET OrderSet /\ UniqueIds(P) /\ \A p \in P : p.id \notin acc
      /\ BookIds(Form(v)) \subseteq acc
  BY <1>1, SoundFacts
<1>3. o \in P /\ o \in OrderSet /\ o.id \notin BookIds(Form(v)) /\ ~IsPending(v, o.id)
  BY <1>2 DEF P, UniqueIds, IsPending
<1>4. /\ w \in Shards /\ SameFills(v, w) /\ w.bids = v.bids /\ w.asks = v.asks
      /\ w.pendingOrders = v.pendingOrders \cup {o}
  BY <1>3, ProcessOrderFacts
<1> HIDE DEF w
<1>5. Judged(w, P, acc, rs, bk)
  BY <1>2, <1>4, SameForm, JudgedSame
<1>6. w.pendingOrders \cup (U \ {o}) = P /\ w.pendingOrders \cap (U \ {o}) = {}
  BY <1>2, <1>4 DEF P
<1>7. Sound(w, U \ {o}, acc, rs, bk, inb, act, snt)
  BY <1>2, <1>5, <1>6 DEF Sound
<1> QED BY <1>7 DEF w

\* A bot cancels an order of its own.
LEMMA SoundCancel ==
    ASSUME NEW v, NEW U, NEW acc, NEW rs, NEW bk,
           NEW inb \in [Bots -> Seq(Messages)], NEW act \in SUBSET Orders, NEW snt,
           Sound(v, U, acc, rs, bk, inb, act, snt), NEW id \in act,
           NEW m \in Messages, m.id = id, ~IsOrder(m),
           NEW next, next = [inb EXCEPT ![BotOf[id]] = Append(@, m)]
    PROVE  Sound(v, U, acc, rs, bk, next, act \ {id}, snt)
<1> DEFINE P == v.pendingOrders \cup U
           known == Known(acc, rs)
<1>1. Sending(inb, P, known, act, snt)
  BY DEF Sound
<1> HIDE DEF P, known
<1>2. Mail(next, P, known) /\ Awaited(next, known, act \ {id})
  BY <1>1, MailCancel DEF Sending
<1>3. Sending(next, P, known, act \ {id}, snt)
  BY <1>1, <1>2 DEF Sending
<1> QED BY <1>3 DEF Sound, P, known

\* The engine handles the first message of a connection.
LEMMA SoundEngine ==
    ASSUME NEW v, NEW U, NEW acc, NEW rs \in Seq(ReportSet), NEW bk \in BookSet,
           NEW inb \in [Bots -> Seq(Messages)], NEW act \in SUBSET Orders, NEW snt,
           Sound(v, U, acc, rs, bk, inb, act, snt), NEW bot \in Bots, inb[bot] # <<>>
    PROVE  LET m == Head(inb[bot])
               r == IF m.type = "cancel" THEN Engine!HandleCancel(bk, m.id)
                    ELSE Engine!HandleOrder(bk, m)
           IN  Sound(v, U, acc, rs \o r.reports, r.book, [inb EXCEPT ![bot] = Tail(@)], act, snt)
<1> DEFINE m == Head(inb[bot])
           r == IF m.type = "cancel" THEN Engine!HandleCancel(bk, m.id)
                ELSE Engine!HandleOrder(bk, m)
           P == v.pendingOrders \cup U
           known == Known(acc, rs)
           next == [inb EXCEPT ![bot] = Tail(@)]
<1>1. /\ v.pendingOrders \cap U = {} /\ Judged(v, P, acc, rs, bk)
      /\ Sending(inb, P, known, act, snt)
  BY DEF Sound
<1>2. m \in Messages
  <2>1. inb[bot] \in Seq(Messages)
    OBVIOUS
  <2> QED BY <2>1, HeadTail
<1> HIDE DEF P
<1>3. /\ Mail(next, P, KnownWith(known, m)) /\ Awaited(next, KnownWith(known, m), act)
      /\ IsOrder(m) => m \in P /\ m.id \notin known
      /\ ~IsOrder(m) => m.id \in known
  <2> HIDE DEF known
  <2> QED BY <1>1, MailHead DEF Sending
<1>4. m.id \in Orders
  BY <1>2 DEF Messages, OrderSet
<1> HIDE DEF m, next
<1>5. /\ Judged(v, P, acc, rs \o r.reports, r.book)
      /\ Known(acc, rs \o r.reports) = KnownWith(known, m)
  <2>1. CASE IsOrder(m)
    <3>1. r = Engine!HandleOrder(bk, m) /\ KnownWith(known, m) = known \cup {m.id}
      BY <2>1 DEF IsOrder, KnownWith
    <3> QED BY <1>1, <1>3, <2>1, <3>1, EngineOrder
  <2>2. CASE ~IsOrder(m)
    <3>1. r = Engine!HandleCancel(bk, m.id) /\ KnownWith(known, m) = known
      BY <2>2 DEF IsOrder, KnownWith
    <3> QED BY <1>1, <1>3, <1>4, <2>2, <3>1, EngineCancel
  <2> QED BY <2>1, <2>2
<1> HIDE DEF r, known
<1>6. KnownWith(known, m) \subseteq snt /\ \A p \in P : p.id \in snt
  BY <1>1, <1>3 DEF KnownWith, Sending
<1>7. Sending(next, P, KnownWith(known, m), act, snt)
  BY <1>3, <1>6 DEF Sending
<1>8. Sound(v, U, acc, rs \o r.reports, r.book, next, act, snt)
  BY <1>1, <1>5, <1>7 DEF Sound, P
<1> QED BY <1>8 DEF m, r, next

\* An honest run so far; in the fleet, one in which no acknowledgement came
\* before its ORDER_SENT, none was withheld and no report was passed over.
Honest ==
    /\ faults = 0
    /\ path = "fleet" =>
         shard.unknownAcks = 0 /\ withheld = {} /\ late = <<>> /\ ~flushed

\* The accepted orders are acc: in a pretest, the ones of acceptedOrders.
Accounted(acc) ==
    /\ path = "pretest" => unpublished = {} /\ acc = accepted
    /\ Sound(shard, unpublished, acc, reports, book, inbox, active, sent)

\* The inductive strengthening of BooksAgree, HonestScoresFull and
\* FleetScoresInOrder.
AccountInv == Honest => \E acc : Accounted(acc)

\* What is to show of a step.
LEMMA AccountPrime ==
    ASSUME NEW acc, path' = "pretest" => unpublished' = {} /\ acc = accepted',
           Sound(shard', unpublished', acc, reports', book', inbox', active', sent')
    PROVE  AccountInv'
  BY DEF AccountInv, Accounted

\* A new shard expects no fill.
LEMMA NewShardLacks == ASSUME NEW none, none = <<>> PROVE Lacks(NewSymbolShard, none)
<1> DEFINE v == NewSymbolShard
           fills == [x \in Orders |-> none]
<1>1. v \in Shards
  BY NewShardInv DEF ShardInv
<1>2. v.expectedFills = fills /\ v.actualFills = fills /\ NoFaults(v)
  BY DEF NewSymbolShard, NoFaults
<1>3. none \in Seq(ReportSet) /\ PosFills(none) /\ none \in Seq(FillSet)
  BY DEF PosFills
<1>4. ASSUME NEW x \in Orders PROVE fills[x] = none /\ none = none \o Mine(x, none)
  BY MineEmpty
<1> HIDE DEF v, fills
<1>5. Lacks(v, none)
  BY <1>1, <1>2, <1>3, <1>4 DEF Lacks
<1> QED BY <1>5 DEF v

\* The invariant holds initially,
LEMMA InitAccount == ASSUME Init PROVE AccountInv
<1> DEFINE none == <<>>
           v == NewSymbolShard
           empty == [p \in Prices |-> none]
<1>1. v \in Shards
  BY NewShardInv DEF ShardInv
<1>2. v.bids = empty /\ v.asks = empty /\ v.pendingOrders = {}
  BY DEF NewSymbolShard
<1>3. none \in Seq(OrderSet) /\ ToSet(none) = {} /\ DOMAIN none = {} /\ Len(none) = 0
  BY EmptyFacts
<1>4. Lacks(v, none)
  <2> HIDE DEF none
  <2>1. none = <<>>
    BY DEF none
  <2> QED BY <2>1, NewShardLacks
<1> HIDE DEF none
<1>5. empty \in Levels /\ \A p \in Prices : empty[p] = none
  BY <1>3 DEF Levels
<1> HIDE DEF empty, v
<1>6. ASSUME NEW side PROVE Line(empty, side) = none
  <2>1. Line(empty, side) \in Seq(OrderSet) /\ \A x : x \notin ToSet(Line(empty, side))
    BY <1>3, <1>5, LineFacts
  <2> DEFINE s == Line(empty, side)
  <2> HIDE DEF s
  <2>2. s \in Seq(OrderSet) /\ \A x : x \notin ToSet(s)
    BY <2>1 DEF s
  <2>3. \A i \in DOMAIN s : s[i] \in ToSet(s)
    BY DEF ToSet
  <2>4. DOMAIN s = 1..Len(s) /\ Len(s) \in Nat
    BY <2>2, SeqFacts
  <2>5. Len(s) = 0
    BY <2>2, <2>3, <2>4
  <2>6. s = none
    BY <2>2, <2>5 DEF none
  <2> QED BY <2>6 DEF s
<1>7. Form(v) = [buyOrders |-> none, sellOrders |-> none]
  BY <1>2, <1>6 DEF Form
<1>8. Engine!EmptyBook = Form(v)
  BY <1>7 DEF Engine!EmptyBook, none
<1>9. Form(v) \in BookSet
  BY <1>1, FormFacts
<1>10. IdsOf(none) = {} /\ Distinct(none)
  BY EmptyFacts DEF none
<1>11. Proper(Form(v)) /\ BookIds(Form(v)) = {}
  BY <1>7, <1>10 DEF Proper, BookIds
<1>12. Replayed(Account(Form(v), none), {}, none, Settled(Form(v)))
  <2>1. Settled(Form(v)) \in Accounts
    BY <1>9 DEF Settled, Account, Accounts
  <2>2. Account(Form(v), none) = Settled(Form(v))
    BY DEF Settled, none
  <2>3. Replayed(Settled(Form(v)), {}, <<>>, Settled(Form(v)))
    BY <2>1, ReplayDone
  <2> QED BY <2>2, <2>3 DEF none
<1>13. Ordered({}, none) /\ Known({}, none) = {}
  BY <1>3 DEF Ordered, Known, AckIds
<1>14. Judged(v, {}, {}, none, Form(v))
  <2>1. JudgedBy(v, none, {}, {}, none, Form(v))
    BY <1>4, <1>11, <1>12, <1>13 DEF JudgedBy, UniqueIds
  <2> QED BY <2>1 DEF Judged
<1>15. Sending([b \in Bots |-> none], {}, {}, {}, {})
  <2>1. \A b \in Bots : [c \in Bots |-> none][b] = none
    OBVIOUS
  <2>2. 1..Len(none) = {}
    BY <1>3
  <2> QED BY <2>1, <2>2 DEF Sending, Mail, Awaited
<1>16. Sound(v, {}, {}, none, Form(v), [b \in Bots |-> none], {}, {})
  <2>1. v.pendingOrders \cup {} = {} /\ v.pendingOrders \cap {} = {}
    BY <1>2
  <2> QED BY <1>13, <1>14, <1>15, <2>1 DEF Sound
<1>17. /\ unpublished = {} /\ shard = v /\ accepted = {} /\ reports = none
       /\ book = Form(v) /\ inbox = [b \in Bots |-> none] /\ active = {} /\ sent = {}
  BY <1>8 DEF Init, v, none
<1>18. Sound(shard, unpublished, {}, reports, book, inbox, active, sent)
  BY <1>16, <1>17
<1>19. Accounted({})
  BY <1>17, <1>18 DEF Accounted
<1> QED BY <1>19 DEF AccountInv

\* and each action keeps it: SendOrder, on both paths,
LEMMA SendOrderAccount == ASSUME IInv, AccountInv, SendOrder PROVE AccountInv'
<1>1. OthersOK /\ ShardInv(shard)
  BY IInvParts
<1>2. PICK id \in Orders : Generated(id) /\ \E o \in NextOrders(id) :
        /\ sent' = sent \cup {id}
        /\ active' = IF o.type = "limit" THEN active \cup {id} ELSE active
        /\ IF path = "pretest"
           THEN shard' = ProcessOrder(shard, o) /\ UNCHANGED unpublished
           ELSE unpublished' = unpublished \cup {o} /\ UNCHANGED shard
        /\ Send(BotOf[id], o)
  BY DEF SendOrder
<1>3. PICK o \in NextOrders(id) :
        /\ sent' = sent \cup {id}
        /\ active' = IF o.type = "limit" THEN active \cup {id} ELSE active
        /\ IF path = "pretest"
           THEN shard' = ProcessOrder(shard, o) /\ UNCHANGED unpublished
           ELSE unpublished' = unpublished \cup {o} /\ UNCHANGED shard
        /\ Send(BotOf[id], o)
  BY <1>2
<1>4. o \in OrderSet /\ o.id = id
  BY DEF NextOrders
<1>5. UNCHANGED <<path, faults, book, reports, accepted, withheld, late, flushed>>
  BY DEF SendOrder, faultVars, lateVars
<1>6. SUFFICES ASSUME Honest' PROVE AccountInv'
  BY DEF AccountInv
<1>7. Honest
  BY <1>1, <1>3, <1>5, <1>6 DEF Honest, OthersOK
<1>8. PICK acc : Accounted(acc)
  BY <1>7 DEF AccountInv
<1>9. /\ path = "pretest" => unpublished = {} /\ acc = accepted
      /\ Sound(shard, unpublished, acc, reports, book, inbox, active, sent)
  BY <1>8 DEF Accounted
<1>10. o.id \notin sent /\ sent' = sent \cup {o.id}
  BY <1>2, <1>3, <1>4 DEF Generated
<1>11. inbox' = [inbox EXCEPT ![BotOf[o.id]] = Append(@, o)]
  BY <1>3, <1>4 DEF Send
<1>12. /\ inbox \in [Bots -> Seq(Messages)] /\ active \in SUBSET Orders
       /\ active' \in SUBSET (active \cup {o.id}) /\ shard \in Shards
  BY <1>1, <1>3, <1>4 DEF OthersOK, ShardInv
<1>13. /\ Sound(ProcessOrder(shard, o), unpublished, acc, reports, book, inbox', active',
                sent \cup {o.id})
       /\ Sound(shard, unpublished \cup {o}, acc, reports, book, inbox', active', sent \cup {o.id})
  BY <1>4, <1>9, <1>10, <1>11, <1>12, SoundOrder
<1>14. Sound(shard', unpublished', acc, reports', book', inbox', active', sent')
  <2>1. CASE path = "pretest"
    BY <1>3, <1>5, <1>10, <1>13, <2>1
  <2>2. CASE path # "pretest"
    BY <1>3, <1>5, <1>10, <1>13, <2>2
  <2> QED BY <2>1, <2>2
<1>15. path' = "pretest" => unpublished' = {} /\ acc = accepted'
  BY <1>3, <1>5, <1>9
<1> QED BY <1>14, <1>15, AccountPrime

\* SendCancel,
LEMMA SendCancelAccount == ASSUME IInv, AccountInv, SendCancel PROVE AccountInv'
<1>1. OthersOK /\ ShardInv(shard)
  BY IInvParts
<1>2. PICK id \in active :
        /\ active' = active \ {id}
        /\ Send(BotOf[id], [id |-> id, type |-> "cancel"])
  BY DEF SendCancel
<1>3. UNCHANGED <<path, sent, unpublished, book, reports, shard, accepted, faults,
                  withheld, late, flushed>>
  BY DEF SendCancel, judgeVars, faultVars, lateVars
<1> DEFINE m == [id |-> id, type |-> "cancel"]
<1>4. SUFFICES ASSUME Honest' PROVE AccountInv'
  BY DEF AccountInv
<1>5. PICK acc : Accounted(acc)
  BY <1>3, <1>4 DEF AccountInv, Honest
<1>6. /\ path = "pretest" => unpublished = {} /\ acc = accepted
      /\ Sound(shard, unpublished, acc, reports, book, inbox, active, sent)
  BY <1>5 DEF Accounted
<1>7. inbox \in [Bots -> Seq(Messages)] /\ active \in SUBSET Orders
  BY <1>1 DEF OthersOK
<1>8. m \in Messages /\ m.id = id /\ ~IsOrder(m)
  BY <1>7 DEF Messages, IsOrder
<1>9. inbox' = [inbox EXCEPT ![BotOf[id]] = Append(@, m)]
  BY <1>2 DEF Send
<1> HIDE DEF m
<1>10. Sound(shard, unpublished, acc, reports, book, inbox', active \ {id}, sent)
  BY <1>6, <1>7, <1>8, <1>9, SoundCancel
<1>11. Sound(shard', unpublished', acc, reports', book', inbox', active', sent')
  BY <1>2, <1>3, <1>10
<1> QED BY <1>3, <1>6, <1>11, AccountPrime

\* the engine,
LEMMA HandleMessageAccount ==
    ASSUME IInv, AccountInv, NEW bot \in Bots, HandleMessage(bot) PROVE AccountInv'
<1> DEFINE m == Head(inbox[bot])
           r == IF m.type = "cancel" THEN Engine!HandleCancel(book, m.id)
                ELSE Engine!HandleOrder(book, m)
           next == [inbox EXCEPT ![bot] = Tail(@)]
<1>1. OthersOK /\ ShardInv(shard)
  BY IInvParts
<1>0. /\ inbox[bot] # <<>> /\ book' = r.book /\ inbox' = next
      /\ \/ reports' = reports \o r.reports /\ withheld' = withheld
         \/ path = "fleet" /\ withheld' = withheld \cup {m.id}
  BY DEF HandleMessage
<1>3. UNCHANGED <<path, sent, active, unpublished, shard, accepted, faults, late, flushed>>
  BY DEF HandleMessage, botVars, judgeVars, faultVars, lateVars
<1>4. SUFFICES ASSUME Honest' PROVE AccountInv'
  BY DEF AccountInv
<1>2. /\ inbox[bot] # <<>> /\ book' = r.book /\ reports' = reports \o r.reports
      /\ inbox' = next /\ withheld' = withheld
  <2>1. path = "fleet" => withheld' = {}
    BY <1>3, <1>4 DEF Honest
  <2> HIDE DEF m, r, next
  <2> QED BY <1>0, <2>1
<1>5. PICK acc : Accounted(acc)
  <2> HIDE DEF m, r, next
  <2> QED BY <1>2, <1>3, <1>4 DEF AccountInv, Honest
<1>6. /\ path = "pretest" => unpublished = {} /\ acc = accepted
      /\ Sound(shard, unpublished, acc, reports, book, inbox, active, sent)
  BY <1>5 DEF Accounted
<1>7. /\ inbox \in [Bots -> Seq(Messages)] /\ active \in SUBSET Orders
      /\ book \in BookSet /\ reports \in Seq(ReportSet)
  BY <1>1 DEF OthersOK
<1>8. Sound(shard, unpublished, acc, reports \o r.reports, r.book, next, active, sent)
  BY <1>2, <1>6, <1>7, SoundEngine
<1> HIDE DEF r, next, m
<1>9. Sound(shard', unpublished', acc, reports', book', inbox', active', sent')
  BY <1>2, <1>3, <1>8
<1> QED BY <1>3, <1>6, <1>9, AccountPrime

\* the consumer of a pretest: an honest engine accepts pending orders only,
LEMMA ProcessEventAccount == ASSUME IInv, AccountInv, processEvent PROVE AccountInv'
<1> DEFINE r == Head(reports)
           w == Applied(shard, r)
           P == shard.pendingOrders \cup unpublished
<1>1. OthersOK /\ ShardInv(shard)
  BY IInvParts
<1>2. path = "pretest" /\ reports # <<>> /\ reports' = Tail(reports)
  BY DEF processEvent
<1>3. UNCHANGED <<path, sent, active, unpublished, inbox, book, faults, withheld, late,
                  flushed>>
  BY DEF processEvent, botVars, faultVars, lateVars
<1>4. SUFFICES ASSUME Honest' PROVE AccountInv'
  BY DEF AccountInv
<1>5. PICK acc : Accounted(acc)
  BY <1>2, <1>3, <1>4 DEF AccountInv, Honest
<1>6. /\ unpublished = {} /\ acc = accepted
      /\ Sound(shard, unpublished, acc, reports, book, inbox, active, sent)
  BY <1>2, <1>5 DEF Accounted
<1>7. reports \in Seq(ReportSet)
  BY <1>1 DEF OthersOK
<1>8. PICK s : JudgedBy(shard, s, P, acc, reports, book)
  BY <1>6 DEF Sound, Judged
<1>9. r.status # "accepted" => r.order \in acc
  BY <1>2, <1>7, <1>8, OrderedHead DEF JudgedBy
<1>10. r.status = "accepted" => IsPending(shard, r.order)
  <2>1. \E c : Moves(Account(Form(shard), s), r, P, c)
    <3> HIDE DEF P
    <3> QED BY <1>2, <1>7, <1>8, ReplayFirst DEF JudgedBy
  <2>2. P = shard.pendingOrders
    BY <1>6
  <2> QED BY <2>1, <2>2 DEF Moves, IsPending
<1>11. Sound(w, unpublished, AccWith(acc, r), Tail(reports), book, inbox, active, sent)
  BY <1>1, <1>2, <1>6, <1>7, <1>10, TakeReport
<1>12. shard' = w /\ accepted' = AccWith(acc, r)
  <2>1. CASE r.status = "filled"
    <3>1. Acknowledged(r.order) = shard /\ accepted \cup {r.order} = accepted
      BY <1>6, <1>9, <2>1 DEF Acknowledged
    <3>2. \/ /\ shard' = ProcessFill(Acknowledged(r.order), r.order, Fill(r))
             /\ accepted' = accepted \cup {r.order}
          \/ /\ shard' = ProcessFill(shard, r.order, Fill(r))
             /\ accepted' = accepted
      BY <2>1 DEF processEvent
    <3> QED BY <1>6, <2>1, <3>1, <3>2 DEF AccWith, Applied
  <2>2. CASE r.status # "filled"
    BY <1>6, <2>2 DEF processEvent, AccWith, Applied
  <2> QED BY <2>1, <2>2
<1> HIDE DEF w
<1>13. Sound(shard', unpublished', accepted', reports', book', inbox', active', sent')
  <2> HIDE DEF r
  <2> QED BY <1>2, <1>3, <1>11, <1>12
<1>14. unpublished' = {}
  BY <1>3, <1>6
<1> QED BY <1>13, <1>14 DEF AccountInv, Accounted

\* the consumer of the fleet: it counts an acceptance that came too early,
LEMMA ConsumeEventAccount == ASSUME IInv, AccountInv, ConsumeEvent PROVE AccountInv'
<1> DEFINE r == Head(reports)
           w == Applied(shard, r)
<1>1. OthersOK /\ ShardInv(shard)
  BY IInvParts
<1>2. path = "fleet" /\ reports # <<>> /\ reports' = Tail(reports)
  BY DEF ConsumeEvent
<1>3. UNCHANGED <<path, sent, active, unpublished, inbox, book, faults, withheld, late,
                  flushed>>
  BY DEF ConsumeEvent, botVars, faultVars
<1>4. shard' = w
  BY DEF ConsumeEvent, Applied
<1>5. SUFFICES ASSUME Honest' PROVE AccountInv'
  BY DEF AccountInv
<1>6. w.unknownAcks = 0 /\ faults = 0 /\ withheld = {} /\ late = <<>> /\ ~flushed
  BY <1>2, <1>3, <1>4, <1>5 DEF Honest
<1>7. reports \in Seq(ReportSet) /\ shard \in Shards
  BY <1>1 DEF OthersOK, ShardInv
<1>8. r \in ReportSet /\ r.order \in Orders
      /\ (r.status = "filled" => Fill(r) \in FillSet)
  BY <1>2, <1>7, HeadTail, FillReportFacts
<1>9. shard.unknownAcks = 0 /\ (r.status = "accepted" => IsPending(shard, r.order))
  <2>1. CASE r.status = "filled"
    <3>1. w = ProcessFill(shard, r.order, Fill(r))
      BY <2>1 DEF Applied
    <3>2. w.unknownAcks = shard.unknownAcks
      BY <1>7, <1>8, <2>1, <3>1, FillCounts
    <3> QED BY <1>6, <2>1, <3>2
  <2>2. CASE r.status # "filled"
    <3>1. w = ProcessAck(shard, r.order, r.status)
      BY <2>2 DEF Applied
    <3>2. /\ w.unknownAcks \in Nat /\ shard.unknownAcks \in Nat
          /\ w.unknownAcks >= shard.unknownAcks
          /\ r.status = "accepted" /\ ~IsPending(shard, r.order) => w.unknownAcks # 0
      BY <1>1, <1>8, <3>1, AckCounts
    <3> HIDE DEF w, r
    <3> QED BY <1>6, <3>2
  <2> QED BY <2>1, <2>2
<1>10. PICK acc : Accounted(acc)
  BY <1>6, <1>9 DEF AccountInv, Honest
<1>11. Sound(shard, unpublished, acc, reports, book, inbox, active, sent)
  BY <1>10 DEF Accounted
<1>12. Sound(w, unpublished, AccWith(acc, r), Tail(reports), book, inbox, active, sent)
  BY <1>1, <1>2, <1>7, <1>9, <1>11, TakeReport
<1> HIDE DEF w, r
<1>13. Sound(shard', unpublished', AccWith(acc, r), reports', book', inbox', active', sent')
  BY <1>2, <1>3, <1>4, <1>12
<1>14. path' # "pretest"
  BY <1>2, <1>3
<1> QED BY <1>13, <1>14 DEF AccountInv, Accounted

\* the record of an order,
LEMMA ConsumeOrderSentAccount == ASSUME IInv, AccountInv, ConsumeOrderSent PROVE AccountInv'
<1>1. OthersOK /\ ShardInv(shard)
  BY IInvParts
<1>2. PICK o \in unpublished : unpublished' = unpublished \ {o} /\ shard' = ProcessOrder(shard, o)
  BY DEF ConsumeOrderSent
<1>3. UNCHANGED <<path, sent, active, inbox, book, reports, accepted, faults, withheld,
                  late, flushed>>
  BY DEF ConsumeOrderSent, faultVars, lateVars
<1>4. SUFFICES ASSUME Honest' PROVE AccountInv'
  BY DEF AccountInv
<1>5. shard \in Shards
  BY <1>1 DEF ShardInv
<1>6. ProcessOrder(shard, o).unknownAcks = shard.unknownAcks
  BY <1>5 DEF ProcessOrder, Shards
<1>7. Honest
  BY <1>2, <1>3, <1>4, <1>6 DEF Honest
<1>8. PICK acc : Accounted(acc)
  BY <1>7 DEF AccountInv
<1>9. /\ path = "pretest" => unpublished = {} /\ acc = accepted
      /\ Sound(shard, unpublished, acc, reports, book, inbox, active, sent)
  BY <1>8 DEF Accounted
<1>10. Sound(ProcessOrder(shard, o), unpublished \ {o}, acc, reports, book, inbox, active, sent)
  BY <1>2, <1>5, <1>9, SoundPublish
<1>11. Sound(shard', unpublished', acc, reports', book', inbox', active', sent')
  BY <1>2, <1>3, <1>10
<1> QED BY <1>2, <1>3, <1>9, <1>11, AccountPrime

\* and a misreport, a report passed over or the flush, after which nothing is claimed.
LEMMA OtherAccount ==
    ASSUME IInv, AccountInv,
           Misreport \/ PassOver \/ flushRemainingBuffer \/ UNCHANGED vars
    PROVE  AccountInv'
<1>1. CASE Misreport
  <2>1. faults' # 0
    BY <1>1 DEF Misreport, IInv, TypeOK
  <2> QED BY <2>1 DEF AccountInv, Honest
<1>2. CASE UNCHANGED vars
  <2>1. UNCHANGED <<path, faults, unpublished, shard, accepted, reports, book, inbox, active, sent,
                    withheld, late, flushed>>
    BY <1>2 DEF vars, botVars, judgeVars, faultVars, lateVars
  <2> QED BY <2>1 DEF AccountInv, Honest, Accounted
<1>3. CASE PassOver
  <2>1. late \in Seq(ReportSet) /\ late' = Append(late, Head(reports))
    BY <1>3 DEF PassOver, IInv, TypeOK
  <2>2. Len(late') = Len(late) + 1 /\ Len(late) \in Nat
    BY <2>1
  <2>3. late' # <<>> /\ path' = "fleet"
    BY <1>3, <2>2 DEF PassOver, botVars
  <2> QED BY <2>3 DEF AccountInv, Honest
<1>4. CASE flushRemainingBuffer
  <2>1. flushed' /\ path' = "fleet"
    BY <1>4 DEF flushRemainingBuffer, botVars
  <2> QED BY <2>1 DEF AccountInv, Honest
<1> QED BY <1>1, <1>2, <1>3, <1>4

\* A validator that has been told everything: its book is the engine's, and
\* every fill it expects was reported.
LEMMA ToldFacts ==
    ASSUME IInv, AccountInv, Told,
           path = "fleet" => shard.unknownAcks = 0 /\ withheld = {} /\ ~flushed
    PROVE  book = Form(shard) /\ FullScore(shard)
<1> DEFINE none == <<>>
           v == shard
           P == shard.pendingOrders \cup unpublished
<1>1. Honest
  BY DEF Honest, Told
<1>2. PICK acc : Accounted(acc)
  BY <1>1 DEF AccountInv
<1>3. Judged(v, P, acc, none, book)
  BY <1>2 DEF Accounted, Sound, Told
<1>4. book \in BookSet /\ none = <<>>
  BY IInvParts DEF OthersOK
<1>5. ASSUME NEW x \in Orders PROVE Mine(x, none) = none
  BY MineEmpty
<1> HIDE DEF none, P, v
<1>6. book = Form(v) /\ Lacks(v, none)
  BY <1>3, <1>4, JudgedTold
<1>7. v \in Shards /\ NoFaults(v)
  BY <1>6 DEF Lacks
<1>8. v.expectedFills \in [Orders -> Seq(FillSet)] /\ v.actualFills \in [Orders -> Seq(FillSet)]
  BY <1>7 DEF Shards
<1> DEFINE E == v.expectedFills
           A == v.actualFills
<1>9. ASSUME NEW x \in Orders PROVE E[x] = A[x]
  <2>1. E[x] = A[x] \o Mine(x, none) /\ A[x] \in Seq(FillSet)
    BY <1>6, <1>8 DEF Lacks
  <2> DEFINE s == A[x]
  <2>2. Mine(x, none) = <<>> /\ s \in Seq(FillSet)
    BY <1>4, <1>5, <2>1
  <2> HIDE DEF s
  <2>3. s \o <<>> = s
    BY <2>2, CatEmpty
  <2> QED BY <2>1, <2>2, <2>3 DEF s
<1> HIDE DEF E, A
<1>10. E = A
  BY <1>8, <1>9 DEF E, A
<1>11. Even(v)
  BY <1>7, <1>10 DEF Even, E, A
<1> QED BY <1>6, <1>11, EvenScores DEF v

\* The invariant, with its strengthening.
LEMMA AccountInductive == Spec => [](IInv /\ AccountInv)
<1>1. Init => IInv /\ AccountInv
  BY InitInv, InitAccount
<1>2. IInv /\ AccountInv /\ [Next]_vars => AccountInv'
  <2> SUFFICES ASSUME IInv, AccountInv, [Next]_vars PROVE AccountInv'
    OBVIOUS
  <2> QED BY SendOrderAccount, SendCancelAccount, HandleMessageAccount, ProcessEventAccount,
             ConsumeEventAccount, ConsumeOrderSentAccount, OtherAccount
      DEF Next
<1>3. Spec => []IInv
  BY Inductive
<1> QED BY <1>1, <1>2, <1>3, PTL DEF Spec

\* BooksAgree: whenever the validator of an honest pretest has been told
\* everything, its trees of FIFO levels hold the engine's two sorted slices,
\* order by order, whatever the bots sent and however messages interleaved.
THEOREM BooksStayEqual == Spec => []BooksAgree
<1>1. IInv /\ AccountInv => BooksAgree
  <2> SUFFICES ASSUME IInv, AccountInv, path = "pretest", Told
               PROVE  Sorted("bids") = book.buyOrders /\ Sorted("asks") = book.sellOrders
    BY DEF BooksAgree
  <2>1. book = Form(shard)
    BY ToldFacts
  <2> QED BY <2>1 DEF Form, Sorted, Line
<1> QED BY <1>1, AccountInductive, PTL

\* HonestScoresFull: an honest engine, judged in a pretest by a validator that
\* has been told everything, has the full score, whatever the bots sent.
THEOREM HonestFullScore == Spec => []HonestScoresFull
<1>1. IInv /\ AccountInv => HonestScoresFull
  BY ToldFacts DEF HonestScoresFull
<1> QED BY <1>1, AccountInductive, PTL

\* FleetScoresInOrder: in the fleet too, when every report was published and
\* none was passed over, unless an acknowledgement came before its order.
THEOREM FleetFullScore == Spec => []FleetScoresInOrder
<1>1. IInv /\ AccountInv => FleetScoresInOrder
  BY ToldFacts DEF FleetScoresInOrder
<1> QED BY <1>1, AccountInductive, PTL
=============================================================================
