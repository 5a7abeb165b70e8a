------------------------- MODULE RegionCounters_proofs -------------------------
(***************************************************************************)
(* Proofs about RegionCounters: for any function and any markers in it,    *)
(* the state has its types, and the sets of blocks that share a counter    *)
(* partition each region.                                                  *)
(***************************************************************************)
EXTENDS RegionCounters, FiniteSetTheorems, SequenceTheorems, WellFoundedInduction, TLAPS

N == Cardinality(GroupIDs)

Graphs == {g \in Seq(Seq(Nat)) : g # <<>> /\ g \in Seq(Seq(BlocksOf(g)))}

(* What a block looks like once it is split.                               *)
Shaped(code) ==
  \A i \in DOMAIN code : /\ code[i].op = "begin" => i = 1
                         /\ code[i].op = "end" => i = Len(code)

Split ==
  /\ stage \in {"split", "record", "instrument", "run", "returned"}
  /\ succ \in Graphs
  /\ body \in Seq(Seq(Instr)) /\ Len(body) = Len(succ)
  /\ unsplit \subseteq Blocks
  /\ stage # "split" => unsplit = {}
  /\ \A b \in Blocks \ unsplit : Shaped(body[b])

GroupLists(B) == Seq([group : GroupIDs, blocks : Seq(B)])

(* No group has two lists, no list has a block twice, and what a call of   *)
(* recordPragmaRegions was handed as open has a list.                      *)
Recorded ==
  /\ BasicBlockGroupList \in GroupLists(BasicBlocksVisited)
  /\ \A r, q \in Regions : BasicBlockGroupList[r].group = BasicBlockGroupList[q].group => r = q
  /\ \A r \in Regions : IsInjective(BBList(r))
  /\ stage # "split" =>
       /\ OrderedCFG \in Seq(Blocks)
       /\ exits \in Seq(Seq(1 .. N)) /\ Len(exits) = Len(succ)
  /\ stage = "record" =>
       /\ todo \in Seq([bb : Blocks, open : [GroupIDs -> Nat]])
       /\ \A i \in DOMAIN todo : \A g \in GroupIDs :
            todo[i].open[g] > 0 => g \in Known(BasicBlockGroupList)

SetLists(B, L) == Seq([blocks : Seq(B), loop : L])

(* Each block of S is in one set of mine, once, and no other block is.     *)
IsPartition(mine, S) ==
  /\ \A k \in DOMAIN mine : \A i \in DOMAIN mine[k].blocks : mine[k].blocks[i] \in S
  /\ \A b \in S : \E k \in DOMAIN mine : \E i \in DOMAIN mine[k].blocks : mine[k].blocks[i] = b
  /\ \A k, m \in DOMAIN mine :
       \A i \in DOMAIN mine[k].blocks : \A j \in DOMAIN mine[m].blocks :
         mine[k].blocks[i] = mine[m].blocks[j] => k = m /\ i = j

Events ==
  [op : {"enter"}, region : 1 .. N]
    \cup [op : {"count"}, region : 1 .. N, set : Nat]
    \cup [op : {"hoist"}, region : 1 .. N, set : Nat, loop : Nat]

(* The regions below the next one are instrumented.                        *)
Placed ==
  /\ region \in Nat \ {0} /\ region <= Len(BasicBlockGroupList) + 1
  /\ stage \in {"split", "record"} => region = 1
  /\ Ready => region \notin Regions
  /\ sets \in Seq(SetLists(BasicBlocksVisited, Nat)) /\ Len(sets) = region - 1
  /\ \A r \in DOMAIN sets : IsPartition(sets[r], Range(BBList(r)))
  /\ stage \notin {"split", "record"} => head \in Seq(Seq(Events)) /\ Len(head) = Len(succ)

(* A row is saved for each region that is open.                            *)
IsRuntime(m) ==
  /\ m = [row |-> m.row, depth |-> m.depth, save |-> m.save, count |-> m.count,
          pending |-> m.pending, stray |-> m.stray, dropped |-> m.dropped]
  /\ m.row \in Nat
  /\ m.depth \in [1 .. N -> Nat]
  /\ m.save \in Seq(Nat)
  /\ Len(m.save) = Cardinality(Open(m))

Running ==
  /\ at \in Blocks
  /\ IsRuntime(runtime)

IInv ==
  /\ Split
  /\ Recorded
  /\ Placed
  /\ Running

-----------------------------------------------------------------------------
(* Numbers.                                                                *)

LEMMA MinIsLeast ==
  ASSUME NEW S, S \subseteq Nat, S # {}
  PROVE  Min(S) \in S /\ \A x \in S : Min(S) <= x
<1>1. PICK m \in S : \A x \in S : <<x, m>> \notin OpToRel(<, Nat)
  BY NatLessThanWellFounded, WFMin
<1>2. ASSUME NEW x \in S PROVE m <= x
  <2>1. m \in Nat /\ x \in Nat
    OBVIOUS
  <2>2. <<x, m>> \notin OpToRel(<, Nat)
    BY <1>1
  <2>3. ~ x < m
    BY <2>1, <2>2 DEF OpToRel
  <2>4. QED
    BY <2>1, <2>3
<1>3. QED
  BY <1>2 DEF Min

(* What holds of 0, and of each number up to n if of the one before, holds *)
(* up to n.                                                                *)
LEMMA Climb ==
  ASSUME NEW n \in Nat, NEW P, 0 \in P, \A k \in 1 .. n : k - 1 \in P => k \in P
  PROVE  \A k \in 0 .. n : k \in P
<1> DEFINE Missed == (0 .. n) \ P
<1>1. SUFFICES ASSUME Missed # {} PROVE FALSE
  OBVIOUS
<1>2. Missed \subseteq Nat
  OBVIOUS
<1> HIDE DEF Missed
<1>3. Min(Missed) \in Missed /\ \A x \in Missed : Min(Missed) <= x
  BY <1>1, <1>2, MinIsLeast
<1>4. PICK k \in Missed : \A x \in Missed : k <= x
  BY <1>3
<1>5. k \in 0 .. n /\ k \notin P
  BY DEF Missed
<1>6. k \in 1 .. n /\ k - 1 \in 0 .. n /\ k - 1 < k
  BY <1>5
<1>7. k - 1 \in P
  BY <1>4, <1>6 DEF Missed
<1>8. QED
  BY <1>5, <1>6, <1>7

LEMMA MaxIsGreatest ==
  ASSUME NEW n \in Nat, NEW S, S \subseteq 1 .. n, S # {}
  PROVE  Max(S) \in S /\ \A x \in S : x <= Max(S)
<1> DEFINE Gaps == {n - x : x \in S}
<1>1. Gaps \subseteq Nat /\ Gaps # {}
  <2>1. \A x \in S : n - x \in Nat
    OBVIOUS
  <2>2. QED
    BY <2>1
<1>2. PICK m \in S : n - m = Min(Gaps)
  BY <1>1, MinIsLeast
<1>3. ASSUME NEW x \in S PROVE x <= m
  <2>1. n - x \in Gaps
    OBVIOUS
  <2>2. Min(Gaps) <= n - x
    BY <1>1, <2>1, MinIsLeast
  <2>3. x \in Nat /\ m \in Nat
    OBVIOUS
  <2>4. QED
    BY <1>2, <2>2, <2>3
<1>4. m >= m /\ \A x \in S : m >= x
  BY <1>3
<1>5. QED
  BY <1>3, <1>4 DEF Max

LEMMA MaxOfInterval ==
  ASSUME NEW k \in Nat \ {0}
  PROVE  Max(1 .. k) = k /\ (1 .. k) \ {k} = 1 .. k - 1
<1>1. Max(1 .. k) \in 1 .. k /\ \A x \in 1 .. k : x <= Max(1 .. k)
  <2>1. (1 .. k) # {} /\ 1 .. k \subseteq 1 .. k
    OBVIOUS
  <2>2. QED
    BY <2>1, MaxIsGreatest
<1>2. QED
  BY <1>1

-----------------------------------------------------------------------------
(* Folds.  FoldLeft takes the elements one at a time, last one outermost;  *)
(* the lemmas here turn each fold of the model into a chain of values, one *)
(* for each element.                                                       *)

(* step[k][v] is what element k makes of v.                                *)
Steps(n, V) == [1 .. n -> [V -> V]]

IsFold(f, n, base, step) ==
  \A d \in SUBSET (1 .. n) : f[d] = IF d = {} THEN base ELSE step[Max(d)][f[d \ {Max(d)}]]

HasFold(n, V, base, step) == \E f \in [SUBSET (1 .. n) -> V] : IsFold(f, n, base, step)

LEMMA FoldExists ==
  ASSUME NEW n \in Nat, NEW V, NEW base \in V, NEW step \in Steps(n, V)
  PROVE  HasFold(n, V, base, step)
<1> DEFINE P == {k \in 0 .. n : \E f \in [SUBSET (1 .. k) -> V] : IsFold(f, k, base, step)}
<1>1. 0 \in P
  <2>1. [d \in SUBSET (1 .. 0) |-> base] \in [SUBSET (1 .. 0) -> V]
    OBVIOUS
  <2>2. IsFold([d \in SUBSET (1 .. 0) |-> base], 0, base, step)
    <3>1. 1 .. 0 = {}
      OBVIOUS
    <3>2. QED
      BY <3>1 DEF IsFold
  <2>3. QED
    BY <2>1, <2>2
<1>2. ASSUME NEW k \in 1 .. n, k - 1 \in P
      PROVE  k \in P
  <2>1. PICK f \in [SUBSET (1 .. k - 1) -> V] : IsFold(f, k - 1, base, step)
    BY <1>2
  <2> DEFINE g == [d \in SUBSET (1 .. k) |-> IF k \in d THEN step[k][f[d \ {k}]] ELSE f[d]]
  <2>2. \A d \in SUBSET (1 .. k) : /\ k \in d => d \ {k} \in SUBSET (1 .. k - 1)
                                   /\ k \notin d => d \in SUBSET (1 .. k - 1)
    OBVIOUS
  <2>3. step[k] \in [V -> V]
    BY DEF Steps
  <2>4. g \in [SUBSET (1 .. k) -> V]
    BY <2>1, <2>2, <2>3
  <2>5. IsFold(g, k, base, step)
    <3> SUFFICES ASSUME NEW d \in SUBSET (1 .. k)
                 PROVE  g[d] = IF d = {} THEN base ELSE step[Max(d)][g[d \ {Max(d)}]]
      BY DEF IsFold
    <3>1. CASE d = {}
      <4>1. k \notin d /\ d \in SUBSET (1 .. k - 1)
        BY <3>1
      <4>2. f[d] = base
        BY <2>1, <3>1, <4>1 DEF IsFold
      <4>3. QED
        BY <3>1, <4>1, <4>2
    <3>2. CASE d # {}
      <4>1. Max(d) \in d /\ \A x \in d : x <= Max(d)
        <5>1. k \in Nat /\ d \subseteq 1 .. k
          OBVIOUS
        <5>2. QED
          BY <3>2, <5>1, MaxIsGreatest
      <4>2. d \ {Max(d)} \in SUBSET (1 .. k)
        OBVIOUS
      <4>3. CASE k \in d
        <5>1. Max(d) = k
          <6>1. Max(d) \in 1 .. k /\ k <= Max(d)
            BY <4>1, <4>3
          <6>2. QED
            BY <6>1
        <5>2. g[d \ {k}] = f[d \ {k}]
          BY <4>2, <5>1
        <5>3. QED
          BY <3>2, <4>3, <5>1, <5>2
      <4>4. CASE k \notin d
        <5>1. f[d] = step[Max(d)][f[d \ {Max(d)}]]
          BY <2>1, <2>2, <3>2, <4>4 DEF IsFold
        <5>2. g[d] = f[d] /\ g[d \ {Max(d)}] = f[d \ {Max(d)}]
          BY <4>2, <4>4
        <5>3. QED
          BY <3>2, <5>1, <5>2
      <4>5. QED
        BY <4>3, <4>4
    <3>3. QED
      BY <3>1, <3>2
  <2>6. k \in 0 .. n
    OBVIOUS
  <2>7. QED
    BY <2>4, <2>5, <2>6
<1> HIDE DEF P
<1>3. n \in P
  BY <1>1, <1>2, Climb
<1>4. QED
  BY <1>3 DEF HasFold, P

(* A chain of values, one made of the other, and where it ends.            *)
IsChain(g, n, base, step) == g[0] = base /\ \A k \in 1 .. n : g[k] = step[k][g[k - 1]]

EndsIn(n, V, base, step, v) == \E g \in [0 .. n -> V] : IsChain(g, n, base, step) /\ v = g[n]

(* f is a fold as far as its values are in V.                              *)
Folds(f, n, V, base, step) ==
  /\ f[{}] = base
  /\ \A d \in SUBSET (1 .. n) :
       d # {} /\ f[d \ {Max(d)}] \in V => f[d] = step[Max(d)][f[d \ {Max(d)}]]

LEMMA FoldEndsIn ==
  ASSUME NEW n \in Nat, NEW V, NEW base \in V, NEW step \in Steps(n, V), NEW f,
         Folds(f, n, V, base, step)
  PROVE  EndsIn(n, V, base, step, f[1 .. n])
<1> DEFINE P == {k \in 0 .. n : f[1 .. k] \in V}
<1>1. 0 \in P
  <2>1. 1 .. 0 = {}
    OBVIOUS
  <2>2. QED
    BY <2>1 DEF Folds
<1>2. ASSUME NEW k \in 1 .. n, f[1 .. k - 1] \in V
      PROVE  f[1 .. k] = step[k][f[1 .. k - 1]] /\ f[1 .. k] \in V
  <2>1. Max(1 .. k) = k /\ (1 .. k) \ {k} = 1 .. k - 1
    BY MaxOfInterval
  <2>2. 1 .. k \in SUBSET (1 .. n) /\ 1 .. k # {}
    OBVIOUS
  <2>3. f[1 .. k] = step[k][f[1 .. k - 1]]
    BY <1>2, <2>1, <2>2 DEF Folds
  <2>4. step[k] \in [V -> V]
    BY DEF Steps
  <2>5. QED
    BY <1>2, <2>3, <2>4
<1>3. \A k \in 1 .. n : k - 1 \in P => k \in P
  BY <1>2
<1>4. \A k \in 0 .. n : k \in P
  <2> HIDE DEF P
  <2>1. QED
    BY <1>1, <1>3, Climb
<1> DEFINE g == [k \in 0 .. n |-> f[1 .. k]]
<1>5. g \in [0 .. n -> V]
  BY <1>4
<1>6. IsChain(g, n, base, step)
  <2>1. g[0] = base
    <3>1. 1 .. 0 = {}
      OBVIOUS
    <3>2. QED
      BY <3>1 DEF Folds
  <2>2. ASSUME NEW k \in 1 .. n PROVE g[k] = step[k][g[k - 1]]
    <3>1. k - 1 \in 0 .. n /\ k \in 0 .. n
      OBVIOUS
    <3>2. f[1 .. k - 1] \in V
      BY <1>4, <3>1
    <3>3. QED
      BY <1>2, <3>1, <3>2
  <2>3. QED
    BY <2>1, <2>2 DEF IsChain
<1>7. QED
  BY <1>5, <1>6 DEF EndsIn

(* What every link of a chain keeps holds at its end.                      *)
LEMMA ChainInduction ==
  ASSUME NEW n \in Nat, NEW V, NEW base \in V, NEW step \in Steps(n, V), NEW v,
         EndsIn(n, V, base, step, v),
         NEW I, <<0, base>> \in I,
         \A k \in 1 .. n : \A u \in V : <<k - 1, u>> \in I => <<k, step[k][u]>> \in I
  PROVE  v \in V /\ <<n, v>> \in I
<1>1. PICK g \in [0 .. n -> V] : IsChain(g, n, base, step) /\ v = g[n]
  BY DEF EndsIn
<1> DEFINE P == {k \in 0 .. n : <<k, g[k]>> \in I}
<1>2. 0 \in P
  BY <1>1 DEF IsChain
<1>3. ASSUME NEW k \in 1 .. n, k - 1 \in P PROVE k \in P
  BY <1>1, <1>3 DEF IsChain
<1> HIDE DEF P
<1>4. \A k \in 0 .. n : k \in P
  BY <1>2, <1>3, Climb
<1>5. n \in P
  BY <1>4
<1>6. QED
  BY <1>1, <1>5 DEF P

-----------------------------------------------------------------------------
(* The elements of a sequence that are in a set.                           *)

AmongStep(s, S, X) ==
  [k \in DOMAIN s |-> [v \in Seq(X) |-> IF s[k] \in S THEN Append(v, s[k]) ELSE v]]

LEMMA AmongUnfolds ==
  ASSUME NEW X, NEW s \in Seq(X), NEW S
  PROVE  /\ AmongStep(s, S, X) \in Steps(Len(s), Seq(X))
         /\ EndsIn(Len(s), Seq(X), <<>>, AmongStep(s, S, X), Among(s, S))
<1> DEFINE n == Len(s)
           V == Seq(X)
           step == AmongStep(s, S, X)
           op(v, x) == IF x \in S THEN Append(v, x) ELSE v
           It == CHOOSE iter : iter = [d \in SUBSET DOMAIN s |->
                   IF d = {} THEN <<>> ELSE op(iter[d \ {Max(d)}], s[Max(d)])]
<1>1. n \in Nat /\ DOMAIN s = 1 .. n /\ <<>> \in V
  OBVIOUS
<1>2. step \in Steps(n, V) /\ \A k \in 1 .. n : \A v \in V : step[k][v] = op(v, s[k])
  BY <1>1 DEF Steps, AmongStep
<1>3. Among(s, S) = It[DOMAIN s]
  BY DEF Among, FoldLeft, MapThenFoldSet
<1> HIDE DEF V, n, step, op
<1>4. PICK f \in [SUBSET (1 .. n) -> V] : IsFold(f, n, <<>>, step)
  BY <1>1, <1>2, FoldExists DEF HasFold
<1>5. f = [d \in SUBSET DOMAIN s |-> IF d = {} THEN <<>> ELSE op(f[d \ {Max(d)}], s[Max(d)])]
  <2>1. ASSUME NEW d \in SUBSET (1 .. n), d # {}
        PROVE  f[d] = op(f[d \ {Max(d)}], s[Max(d)])
    BY <1>1, <1>2, <1>4, <2>1, MaxIsGreatest DEF IsFold
  <2>2. f[{}] = <<>>
    BY <1>4 DEF IsFold
  <2>3. QED
    BY <1>1, <2>1, <2>2
<1>6. It = [d \in SUBSET DOMAIN s |-> IF d = {} THEN <<>> ELSE op(It[d \ {Max(d)}], s[Max(d)])]
  BY <1>5
<1> HIDE DEF It
<1>7. Folds(It, n, V, <<>>, step)
  BY <1>1, <1>2, <1>6, MaxIsGreatest DEF Folds
<1>8. EndsIn(n, V, <<>>, step, It[1 .. n])
  BY <1>1, <1>2, <1>7, FoldEndsIn
<1>9. EndsIn(n, V, <<>>, step, Among(s, S))
  BY <1>1, <1>3, <1>8
<1>10. QED
  BY <1>2, <1>9 DEF n, V, step

(* v holds what of the first k elements of s is in S.                      *)
Kept(v, k, s, S) ==
  /\ \A j \in DOMAIN v : \E i \in 1 .. k : v[j] = s[i] /\ s[i] \in S
  /\ \A i \in 1 .. k : s[i] \in S => \E j \in DOMAIN v : v[j] = s[i]
  /\ IsInjective(s) => IsInjective(v)

LEMMA AmongFacts ==
  ASSUME NEW X, NEW s \in Seq(X), NEW S
  PROVE  /\ Among(s, S) \in Seq(X)
         /\ Range(Among(s, S)) = Range(s) \cap S
         /\ IsInjective(s) => IsInjective(Among(s, S))
<1> DEFINE n == Len(s)
           V == Seq(X)
           step == AmongStep(s, S, X)
           I == {p \in (0 .. n) \X V : Kept(p[2], p[1], s, S)}
<1>1. n \in Nat /\ DOMAIN s = 1 .. n /\ <<>> \in V /\ \A i \in 1 .. n : s[i] \in X
  OBVIOUS
<1>2. step \in Steps(n, V) /\ EndsIn(n, V, <<>>, step, Among(s, S))
  BY AmongUnfolds
<1>3. <<0, <<>> >> \in I
  <2>1. Kept(<<>>, 0, s, S)
    BY DEF Kept, IsInjective
  <2>2. 0 \in 0 .. n
    BY <1>1
  <2>3. \A v \in V : Kept(v, 0, s, S) => <<0, v>> \in I
    BY <2>2
  <2>4. QED
    BY <1>1, <2>1, <2>3
<1>4. ASSUME NEW k \in 1 .. n, NEW u \in V, <<k - 1, u>> \in I
      PROVE  <<k, step[k][u]>> \in I
  <2>1. Kept(u, k - 1, s, S)
    BY <1>4
  <2>2. step[k][u] = IF s[k] \in S THEN Append(u, s[k]) ELSE u
    BY <1>1 DEF AmongStep
  <2>3. CASE s[k] \notin S
    <3>1. Kept(u, k, s, S)
      BY <2>1, <2>3 DEF Kept
    <3>2. QED
      BY <2>2, <2>3, <3>1
  <2>4. CASE s[k] \in S
    <3> DEFINE w == Append(u, s[k])
    <3>1. /\ w \in V /\ Len(w) = Len(u) + 1 /\ DOMAIN w = 1 .. Len(u) + 1
          /\ DOMAIN u = 1 .. Len(u) /\ Len(u) \in Nat
          /\ \A j \in 1 .. Len(u) : w[j] = u[j]
          /\ w[Len(u) + 1] = s[k]
      BY <1>1
    <3> HIDE DEF w
    <3>2. \A j \in DOMAIN w : \E i \in 1 .. k : w[j] = s[i] /\ s[i] \in S
      <4> SUFFICES ASSUME NEW j \in DOMAIN w PROVE \E i \in 1 .. k : w[j] = s[i] /\ s[i] \in S
        OBVIOUS
      <4>1. CASE j \in 1 .. Len(u)
        BY <2>1, <3>1, <4>1 DEF Kept
      <4>2. CASE j = Len(u) + 1
        BY <2>4, <3>1, <4>2
      <4>3. QED
        BY <3>1, <4>1, <4>2
    <3>3. \A i \in 1 .. k : s[i] \in S => \E j \in DOMAIN w : w[j] = s[i]
      <4> SUFFICES ASSUME NEW i \in 1 .. k, s[i] \in S PROVE \E j \in DOMAIN w : w[j] = s[i]
        OBVIOUS
      <4>1. CASE i = k
        BY <3>1, <4>1
      <4>2. CASE i # k
        <5>1. i \in 1 .. k - 1
          BY <4>2
        <5>2. PICK j \in DOMAIN u : u[j] = s[i]
          BY <2>1, <5>1 DEF Kept
        <5>3. QED
          BY <3>1, <5>2
      <4>3. QED
        BY <4>1, <4>2
    <3>4. ASSUME IsInjective(s) PROVE IsInjective(w)
      <4>1. \A j \in 1 .. Len(u) : w[j] # s[k]
        <5> SUFFICES ASSUME NEW j \in 1 .. Len(u), w[j] = s[k] PROVE FALSE
          OBVIOUS
        <5>1. PICK i \in 1 .. k - 1 : u[j] = s[i]
          BY <2>1, <3>1 DEF Kept
        <5>2. s[i] = s[k] /\ i \in DOMAIN s /\ k \in DOMAIN s /\ i # k
          BY <1>1, <3>1, <5>1
        <5>3. QED
          BY <3>4, <5>2 DEF IsInjective
      <4>2. \A a, b \in 1 .. Len(u) : w[a] = w[b] => a = b
        BY <2>1, <3>1, <3>4 DEF Kept, IsInjective
      <4>3. QED
        BY <3>1, <4>1, <4>2 DEF IsInjective
    <3>5. Kept(w, k, s, S)
      BY <3>2, <3>3, <3>4 DEF Kept
    <3>6. step[k][u] = w
      BY <2>2, <2>4 DEF w
    <3>7. QED
      BY <3>1, <3>5, <3>6
  <2>5. QED
    BY <2>3, <2>4
<1> HIDE DEF n, V, step, I
<1>5. Among(s, S) \in V /\ <<n, Among(s, S)>> \in I
  BY <1>1, <1>2, <1>3, <1>4, ChainInduction
<1>6. Kept(Among(s, S), n, s, S)
  BY <1>5 DEF I
<1>7. Range(Among(s, S)) = Range(s) \cap S
  BY <1>1, <1>6 DEF Kept, Range
<1>8. QED
  BY <1>5, <1>6, <1>7 DEF Kept, V

-----------------------------------------------------------------------------
(* Partitions of a set of blocks.                                          *)

LEMMA EmptyPartition == IsPartition(<<>>, {})
BY DEF IsPartition

LEMMA SetListsMonotonic ==
  ASSUME NEW B, NEW C, B \subseteq C, NEW L, NEW mine \in SetLists(B, L)
  PROVE  mine \in SetLists(C, L)
<1>1. \A s \in Seq(B) : s \in Seq(C)
  BY SeqMonotonic
<1>2. [blocks : Seq(B), loop : L] \subseteq [blocks : Seq(C), loop : L]
  BY <1>1
<1>3. QED
  BY <1>2, SeqMonotonic DEF SetLists

LEMMA PartitionConcat ==
  ASSUME NEW B, NEW L, NEW p \in SetLists(B, L), NEW q \in SetLists(B, L), NEW S, NEW T,
         S \cap T = {}, IsPartition(p, S), IsPartition(q, T)
  PROVE  p \o q \in SetLists(B, L) /\ IsPartition(p \o q, S \cup T)
<1> DEFINE w == p \o q
<1>1. /\ w \in SetLists(B, L) /\ Len(w) = Len(p) + Len(q)
      /\ DOMAIN w = 1 .. Len(p) + Len(q) /\ DOMAIN p = 1 .. Len(p) /\ DOMAIN q = 1 .. Len(q)
      /\ Len(p) \in Nat /\ Len(q) \in Nat
      /\ \A k \in 1 .. Len(p) : w[k] = p[k]
      /\ \A k \in 1 .. Len(q) : w[Len(p) + k] = q[k]
  BY DEF SetLists
<1> HIDE DEF w
<1>2. \A k \in DOMAIN w : \/ k \in DOMAIN p /\ w[k] = p[k]
                          \/ k - Len(p) \in DOMAIN q /\ w[k] = q[k - Len(p)]
  <2> SUFFICES ASSUME NEW k \in DOMAIN w, k \notin DOMAIN p
               PROVE  k - Len(p) \in DOMAIN q /\ w[k] = q[k - Len(p)]
    BY <1>1
  <2>1. k - Len(p) \in 1 .. Len(q) /\ Len(p) + (k - Len(p)) = k
    BY <1>1
  <2>2. QED
    BY <1>1, <2>1
<1>3. \A k \in DOMAIN w : \A i \in DOMAIN w[k].blocks : w[k].blocks[i] \in S \cup T
  BY <1>2 DEF IsPartition
<1>4. \A b \in S \cup T : \E k \in DOMAIN w : \E i \in DOMAIN w[k].blocks : w[k].blocks[i] = b
  <2> SUFFICES ASSUME NEW b \in S \cup T
               PROVE  \E k \in DOMAIN w : \E i \in DOMAIN w[k].blocks : w[k].blocks[i] = b
    OBVIOUS
  <2>1. CASE b \in S
    <3>1. PICK k \in DOMAIN p : \E i \in DOMAIN p[k].blocks : p[k].blocks[i] = b
      BY <2>1 DEF IsPartition
    <3>2. k \in DOMAIN w /\ w[k] = p[k]
      BY <1>1
    <3>3. QED
      BY <3>1, <3>2
  <2>2. CASE b \in T
    <3>1. PICK k \in DOMAIN q : \E i \in DOMAIN q[k].blocks : q[k].blocks[i] = b
      BY <2>2 DEF IsPartition
    <3>2. Len(p) + k \in DOMAIN w /\ w[Len(p) + k] = q[k]
      BY <1>1
    <3>3. QED
      BY <3>1, <3>2
  <2>3. QED
    BY <2>1, <2>2
<1>5. ASSUME NEW k \in DOMAIN w, NEW m \in DOMAIN w,
             NEW i \in DOMAIN w[k].blocks, NEW j \in DOMAIN w[m].blocks,
             w[k].blocks[i] = w[m].blocks[j]
      PROVE  k = m /\ i = j
  <2>1. CASE k \in DOMAIN p /\ w[k] = p[k] /\ m \in DOMAIN p /\ w[m] = p[m]
    BY <1>5, <2>1 DEF IsPartition
  <2>2. CASE /\ k - Len(p) \in DOMAIN q /\ w[k] = q[k - Len(p)]
             /\ m - Len(p) \in DOMAIN q /\ w[m] = q[m - Len(p)]
    <3>1. k - Len(p) = m - Len(p) /\ i = j
      BY <1>5, <2>2 DEF IsPartition
    <3>2. k \in Int /\ m \in Int
      BY <1>1
    <3>3. QED
      BY <1>1, <3>1, <3>2
  <2>3. CASE k \in DOMAIN p /\ w[k] = p[k] /\ m - Len(p) \in DOMAIN q /\ w[m] = q[m - Len(p)]
    <3>1. w[k].blocks[i] \in S /\ w[m].blocks[j] \in T
      BY <2>3 DEF IsPartition
    <3>2. QED
      BY <1>5, <3>1
  <2>4. CASE m \in DOMAIN p /\ w[m] = p[m] /\ k - Len(p) \in DOMAIN q /\ w[k] = q[k - Len(p)]
    <3>1. w[m].blocks[j] \in S /\ w[k].blocks[i] \in T
      BY <2>4 DEF IsPartition
    <3>2. QED
      BY <1>5, <3>1
  <2>5. QED
    BY <1>2, <2>1, <2>2, <2>3, <2>4
<1>6. IsPartition(w, S \cup T)
  BY <1>3, <1>4, <1>5 DEF IsPartition
<1>7. QED
  BY <1>1, <1>6 DEF w

(* One set of its own.                                                     *)
Single(s, h) == <<[blocks |-> s, loop |-> h]>>

LEMMA OneSet ==
  ASSUME NEW B, NEW L, NEW s \in Seq(B), NEW h \in L, IsInjective(s)
  PROVE  Single(s, h) \in SetLists(B, L) /\ IsPartition(Single(s, h), Range(s))
<1> USE DEF Single
<1> DEFINE w == <<[blocks |-> s, loop |-> h]>>
<1>1. w \in SetLists(B, L)
  BY DEF SetLists
<1>2. DOMAIN w = {1} /\ w[1].blocks = s
  OBVIOUS
<1> HIDE DEF w
<1>3. IsPartition(w, Range(s))
  BY <1>2 DEF IsPartition, IsInjective, Range
<1>4. QED
  BY <1>1, <1>3 DEF w

(* The sequence of one block.                                              *)
LEMMA OneBlock ==
  ASSUME NEW B, NEW x \in B
  PROVE  <<x>> \in Seq(B) /\ IsInjective(<<x>>) /\ Range(<<x>>) = {x}
<1>1. PICK s : s = <<x>>
  OBVIOUS
<1>2. DOMAIN s = {1} /\ s[1] = x
  BY <1>1
<1>3. s \in Seq(B)
  BY <1>1
<1>4. IsInjective(s) /\ Range(s) = {x}
  BY <1>2 DEF IsInjective, Range
<1>5. QED
  BY <1>1, <1>3, <1>4

(* createPostDomSets puts block x into a set there is, or starts one.      *)
Leads(done, x) == {i \in 1 .. Len(done) : ControlEquivalent(Head(done[i].blocks), x)}

Host(done, x) == IF Leads(done, x) # {} THEN Min(Leads(done, x)) ELSE 0

Joined(done, x) ==
  IF Host(done, x) = 0 THEN Append(done, [blocks |-> <<x>>, loop |-> 0])
  ELSE [done EXCEPT ![Host(done, x)].blocks = Append(@, x)]

LEMMA SetListFacts ==
  ASSUME NEW B, NEW L, NEW mine \in SetLists(B, L)
  PROVE  /\ Len(mine) \in Nat /\ DOMAIN mine = 1 .. Len(mine)
         /\ \A k \in DOMAIN mine :
              /\ mine[k] \in [blocks : Seq(B), loop : L]
              /\ mine[k].blocks \in Seq(B) /\ mine[k].loop \in L
              /\ Len(mine[k].blocks) \in Nat
              /\ DOMAIN mine[k].blocks = 1 .. Len(mine[k].blocks)
<1>1. Len(mine) \in Nat /\ DOMAIN mine = 1 .. Len(mine)
  BY DEF SetLists
<1>2. ASSUME NEW k \in DOMAIN mine
      PROVE  mine[k] \in [blocks : Seq(B), loop : L]
  BY <1>1, ElementOfSeq DEF SetLists
<1>3. QED
  BY <1>1, <1>2

LEMMA HostFacts ==
  ASSUME NEW B, NEW L, NEW done \in SetLists(B, L), NEW x
  PROVE  Host(done, x) = 0 \/ Host(done, x) \in DOMAIN done
<1>1. Len(done) \in Nat /\ DOMAIN done = 1 .. Len(done)
  BY DEF SetLists
<1>2. Leads(done, x) \subseteq Nat /\ Leads(done, x) \subseteq 1 .. Len(done)
  BY <1>1 DEF Leads
<1>3. Leads(done, x) # {} => Min(Leads(done, x)) \in 1 .. Len(done)
  BY <1>2, MinIsLeast
<1>4. QED
  BY <1>1, <1>3 DEF Host

LEMMA JoinedType ==
  ASSUME NEW B, NEW L, 0 \in L, NEW done \in SetLists(B, L), NEW x \in B
  PROVE  Joined(done, x) \in SetLists(B, L)
<1> DEFINE h == Host(done, x)
<1>1. CASE h = 0
  <2>1. [blocks |-> <<x>>, loop |-> 0] \in [blocks : Seq(B), loop : L]
    OBVIOUS
  <2>2. QED
    BY <1>1, <2>1 DEF Joined, SetLists
<1>2. CASE h # 0
  <2>1. h \in DOMAIN done /\ h \in 1 .. Len(done)
    BY <1>2, HostFacts, SetListFacts
  <2>2. done[h] \in [blocks : Seq(B), loop : L] /\ done[h].blocks \in Seq(B)
    BY <2>1, SetListFacts
  <2> HIDE DEF h
  <2>3. [done[h] EXCEPT !.blocks = Append(@, x)] \in [blocks : Seq(B), loop : L]
    <3>1. PICK c : c = Append(done[h].blocks, x)
      OBVIOUS
    <3>2. c \in Seq(B)
      BY <2>2, <3>1
    <3>3. [done[h] EXCEPT !.blocks = c] \in [blocks : Seq(B), loop : L]
      BY <2>2, <3>2
    <3>4. QED
      BY <3>1, <3>3
  <2>4. Joined(done, x) = [done EXCEPT ![h] = [done[h] EXCEPT !.blocks = Append(@, x)]]
    BY <1>2 DEF Joined, h
  <2>5. QED
    BY <2>1, <2>3, <2>4, ExceptSeq DEF SetLists
<1>3. QED
  BY <1>1, <1>2

LEMMA JoinedKeepsPartition ==
  ASSUME NEW B, NEW L, 0 \in L, NEW done \in SetLists(B, L), NEW x \in B,
         NEW S, IsPartition(done, S), x \notin S
  PROVE  IsPartition(Joined(done, x), S \cup {x})
<1>1. CASE Host(done, x) = 0
  <2>1. PICK s : s = <<x>>
    OBVIOUS
  <2>2. s \in Seq(B) /\ IsInjective(s) /\ Range(s) = {x}
    BY <2>1, OneBlock
  <2> DEFINE one == Single(s, 0)
  <2>3. one \in SetLists(B, L) /\ IsPartition(one, {x})
    <3> HIDE DEF one
    <3>1. Single(s, 0) \in SetLists(B, L) /\ IsPartition(Single(s, 0), Range(s))
      BY <2>2, OneSet
    <3>2. QED
      BY <2>2, <3>1 DEF one
  <2>4. Joined(done, x) = done \o one
    BY <1>1, <2>1 DEF Joined, SetLists, Single
  <2> HIDE DEF one
  <2>5. IsPartition(done \o one, S \cup {x})
    <3>1. S \cap {x} = {}
      OBVIOUS
    <3>2. QED
      BY <2>3, <3>1, PartitionConcat
  <2>6. QED
    BY <2>4, <2>5
<1>2. CASE Host(done, x) # 0
  <2>1. PICK h \in DOMAIN done : h = Host(done, x)
    BY <1>2, HostFacts
  <2>2. PICK w : w = Joined(done, x)
    OBVIOUS
  <2>3. PICK n \in Nat : n = Len(done[h].blocks) /\ DOMAIN done[h].blocks = 1 .. n
    BY SetListFacts
  <2>4. DOMAIN w = DOMAIN done /\ \A k \in DOMAIN done : k # h => w[k] = done[k]
    BY <1>2, <2>1, <2>2 DEF Joined
  <2>5. w[h].blocks = Append(done[h].blocks, x)
    <3>1. w = [done EXCEPT ![h].blocks = Append(@, x)]
      BY <1>2, <2>1, <2>2 DEF Joined
    <3>2. done[h] \in [blocks : Seq(B), loop : L]
      BY SetListFacts
    <3>3. w[h] = [done[h] EXCEPT !.blocks = Append(@, x)]
      BY <3>1
    <3>4. QED
      BY <3>2, <3>3
  <2>6. /\ DOMAIN w[h].blocks = 1 .. n + 1
        /\ \A i \in 1 .. n : w[h].blocks[i] = done[h].blocks[i]
        /\ w[h].blocks[n + 1] = x
    <3>1. done[h].blocks \in Seq(B)
      BY SetListFacts
    <3>2. QED
      BY <2>3, <2>5, <3>1, AppendProperties
  <2>7. ASSUME NEW k \in DOMAIN w, NEW i \in DOMAIN w[k].blocks
        PROVE  \/ i \in DOMAIN done[k].blocks /\ w[k].blocks[i] = done[k].blocks[i]
               \/ k = h /\ i = n + 1 /\ w[k].blocks[i] = x
    BY <2>3, <2>4, <2>6
  <2>8. \A k \in DOMAIN w : \A i \in DOMAIN w[k].blocks : w[k].blocks[i] \in S \cup {x}
    BY <2>4, <2>7 DEF IsPartition
  <2>9. \A b \in S \cup {x} : \E k \in DOMAIN w : \E i \in DOMAIN w[k].blocks : w[k].blocks[i] = b
    <3> SUFFICES ASSUME NEW b \in S \cup {x}
                 PROVE  \E k \in DOMAIN w : \E i \in DOMAIN w[k].blocks : w[k].blocks[i] = b
      OBVIOUS
    <3>1. CASE b = x
      BY <2>4, <2>6, <3>1
    <3>2. CASE b \in S
      <4>1. PICK k \in DOMAIN done : \E i \in DOMAIN done[k].blocks : done[k].blocks[i] = b
        BY <3>2 DEF IsPartition
      <4>2. PICK i \in DOMAIN done[k].blocks : done[k].blocks[i] = b
        BY <4>1
      <4>3. i \in DOMAIN w[k].blocks /\ w[k].blocks[i] = b
        BY <2>3, <2>4, <2>6, <4>2
      <4>4. QED
        BY <2>4, <4>3
    <3>3. QED
      BY <3>1, <3>2
  <2>10. ASSUME NEW k \in DOMAIN w, NEW m \in DOMAIN w,
                NEW i \in DOMAIN w[k].blocks, NEW j \in DOMAIN w[m].blocks,
                w[k].blocks[i] = w[m].blocks[j]
         PROVE  k = m /\ i = j
    <3>1. CASE i \in DOMAIN done[k].blocks /\ w[k].blocks[i] = done[k].blocks[i]
      <4>1. w[k].blocks[i] \in S /\ w[k].blocks[i] # x
        BY <2>4, <3>1 DEF IsPartition
      <4>2. j \in DOMAIN done[m].blocks /\ w[m].blocks[j] = done[m].blocks[j]
        BY <2>7, <2>10, <4>1
      <4>3. k \in DOMAIN done /\ m \in DOMAIN done /\ done[k].blocks[i] = done[m].blocks[j]
        BY <2>4, <2>10, <3>1, <4>2
      <4>4. QED
        BY <3>1, <4>2, <4>3 DEF IsPartition
    <3>2. CASE k = h /\ i = n + 1 /\ w[k].blocks[i] = x
      <4>1. ~(j \in DOMAIN done[m].blocks /\ w[m].blocks[j] = done[m].blocks[j])
        BY <2>4, <2>10, <3>2 DEF IsPartition
      <4>2. QED
        BY <2>7, <3>2, <4>1
    <3>3. QED
      BY <2>7, <3>1, <3>2
  <2>11. IsPartition(w, S \cup {x})
    BY <2>8, <2>9, <2>10 DEF IsPartition
  <2>12. QED
    BY <2>2, <2>11
<1>3. QED
  BY <1>1, <1>2

JoinStep(pool, B, L) == [k \in DOMAIN pool |-> [v \in SetLists(B, L) |-> Joined(v, pool[k])]]

LEMMA CreatePostDomSetsUnfolds ==
  ASSUME NEW B, NEW L, 0 \in L, NEW pool \in Seq(B)
  PROVE  /\ JoinStep(pool, B, L) \in Steps(Len(pool), SetLists(B, L))
         /\ EndsIn(Len(pool), SetLists(B, L), <<>>, JoinStep(pool, B, L), createPostDomSets(pool))
<1> DEFINE n == Len(pool)
           V == SetLists(B, L)
           step == JoinStep(pool, B, L)
           It == CHOOSE iter : iter = [d \in SUBSET DOMAIN pool |->
                   IF d = {} THEN <<>> ELSE Joined(iter[d \ {Max(d)}], pool[Max(d)])]
<1>1. n \in Nat /\ DOMAIN pool = 1 .. n /\ <<>> \in V /\ \A k \in 1 .. n : pool[k] \in B
  BY DEF SetLists
<1>2. step \in Steps(n, V) /\ \A k \in 1 .. n : \A v \in V : step[k][v] = Joined(v, pool[k])
  BY <1>1, JoinedType DEF Steps, JoinStep
<1>3. createPostDomSets(pool) = It[DOMAIN pool]
  BY DEF createPostDomSets, FoldLeft, MapThenFoldSet, Joined, Host, Leads, SelectInSeq
<1> HIDE DEF V, n, step
<1>4. PICK f \in [SUBSET (1 .. n) -> V] : IsFold(f, n, <<>>, step)
  BY <1>1, <1>2, FoldExists DEF HasFold
<1>5. f = [d \in SUBSET DOMAIN pool |->
             IF d = {} THEN <<>> ELSE Joined(f[d \ {Max(d)}], pool[Max(d)])]
  <2>1. ASSUME NEW d \in SUBSET (1 .. n), d # {}
        PROVE  f[d] = Joined(f[d \ {Max(d)}], pool[Max(d)])
    BY <1>1, <1>2, <1>4, <2>1, MaxIsGreatest DEF IsFold
  <2>2. f[{}] = <<>>
    BY <1>4 DEF IsFold
  <2>3. QED
    BY <1>1, <2>1, <2>2
<1>6. It = [d \in SUBSET DOMAIN pool |->
              IF d = {} THEN <<>> ELSE Joined(It[d \ {Max(d)}], pool[Max(d)])]
  BY <1>5
<1> HIDE DEF It
<1>7. Folds(It, n, V, <<>>, step)
  BY <1>1, <1>2, <1>6, MaxIsGreatest DEF Folds
<1>8. EndsIn(n, V, <<>>, step, It[1 .. n])
  BY <1>1, <1>2, <1>7, FoldEndsIn
<1>9. EndsIn(n, V, <<>>, step, createPostDomSets(pool))
  BY <1>1, <1>3, <1>8
<1>10. QED
  BY <1>2, <1>9 DEF n, V, step

(* Whatever the control flow: every block of the pool is put in one set.   *)
LEMMA CreatePostDomSetsPartitions ==
  ASSUME NEW B, NEW L, 0 \in L, NEW pool \in Seq(B), IsInjective(pool)
  PROVE  /\ createPostDomSets(pool) \in SetLists(B, L)
         /\ IsPartition(createPostDomSets(pool), Range(pool))
<1> DEFINE n == Len(pool)
           V == SetLists(B, L)
           step == JoinStep(pool, B, L)
           upto(k) == {pool[j] : j \in 1 .. k}
           I == {p \in (0 .. n) \X V : IsPartition(p[2], upto(p[1]))}
<1>1. n \in Nat /\ DOMAIN pool = 1 .. n /\ <<>> \in V /\ \A k \in 1 .. n : pool[k] \in B
  BY DEF SetLists
<1>2. step \in Steps(n, V) /\ EndsIn(n, V, <<>>, step, createPostDomSets(pool))
  BY CreatePostDomSetsUnfolds
<1>3. <<0, <<>> >> \in I
  <2>1. upto(0) = {} /\ 0 \in 0 .. n
    BY <1>1
  <2>2. \A v \in V : IsPartition(v, upto(0)) => <<0, v>> \in I
    BY <2>1
  <2>3. QED
    BY <1>1, <2>1, <2>2, EmptyPartition
<1>4. ASSUME NEW k \in 1 .. n, NEW u \in V, <<k - 1, u>> \in I
      PROVE  <<k, step[k][u]>> \in I
  <2>1. IsPartition(u, upto(k - 1))
    BY <1>4
  <2>2. step[k][u] = Joined(u, pool[k]) /\ step[k][u] \in V
    BY <1>1, JoinedType DEF JoinStep
  <2>3. pool[k] \notin upto(k - 1) /\ upto(k) = upto(k - 1) \cup {pool[k]}
    BY <1>1 DEF IsInjective
  <2> HIDE DEF upto
  <2>4. IsPartition(Joined(u, pool[k]), upto(k - 1) \cup {pool[k]})
    BY <1>1, <2>1, <2>3, JoinedKeepsPartition
  <2>5. IsPartition(step[k][u], upto(k))
    BY <2>2, <2>3, <2>4
  <2>6. \A v \in V : IsPartition(v, upto(k)) => <<k, v>> \in I
    BY <1>1
  <2>7. QED
    BY <2>2, <2>5, <2>6
<1>5. upto(n) = Range(pool)
  BY <1>1 DEF Range
<1> HIDE DEF n, V, step, I
<1>6. createPostDomSets(pool) \in V /\ <<n, createPostDomSets(pool)>> \in I
  BY <1>1, <1>2, <1>3, <1>4, ChainInduction
<1>7. IsPartition(createPostDomSets(pool), upto(n))
  BY <1>6 DEF I
<1> HIDE DEF upto
<1>8. QED
  BY <1>5, <1>6, <1>7 DEF V

LEMMA ErasedFacts ==
  ASSUME NEW B, NEW pool \in Seq(B), NEW blocks
  PROVE  /\ Erased(pool, blocks) \in Seq(B)
         /\ Range(Erased(pool, blocks)) = Range(pool) \ Range(blocks)
         /\ IsInjective(pool) => IsInjective(Erased(pool, blocks))
<1>1. Range(pool) \cap (Range(pool) \ Range(blocks)) = Range(pool) \ Range(blocks)
  OBVIOUS
<1>2. QED
  BY <1>1, AmongFacts DEF Erased

(* The blocks that have no counter yet, and the sets of those that have.   *)
Work(B, L) == {d \in [pool : Seq(B), sets : SetLists(B, L)] : IsInjective(d.pool)}

Divides(d, S) == Range(d.pool) \subseteq S /\ IsPartition(d.sets, S \ Range(d.pool))

LEMMA InstrumentLoopDivides ==
  ASSUME NEW B, NEW L, 0 \in L, NEW h \in L, NEW done \in Work(B, L)
  PROVE  /\ InstrumentLoop(done, h) \in Work(B, L)
         /\ \A S : Divides(done, S) => Divides(InstrumentLoop(done, h), S)
<1>1. PICK pool : pool = done.pool
  OBVIOUS
<1>2. PICK mine : mine = Among(pool, UniqueLoopBB(h))
  OBVIOUS
<1>3. PICK every : every = IF h \in counted THEN Among(mine, {b \in Blocks : <<b, h>> \in PostDomTree})
                           ELSE <<>>
  OBVIOUS
<1>4. PICK some : some = Erased(mine, every)
  OBVIOUS
<1>5. PICK left : left = Erased(pool, mine)
  OBVIOUS
<1>6. PICK first : first = IF every = <<>> THEN <<>> ELSE Single(every, h)
  OBVIOUS
<1>7. InstrumentLoop(done, h) =
        [pool |-> left, sets |-> done.sets \o first \o createPostDomSets(some)]
  BY <1>1, <1>2, <1>3, <1>4, <1>5, <1>6 DEF InstrumentLoop, Single
<1>8. pool \in Seq(B) /\ IsInjective(pool) /\ done.sets \in SetLists(B, L)
  BY <1>1 DEF Work
<1>9. mine \in Seq(B) /\ IsInjective(mine) /\ Range(mine) \subseteq Range(pool)
  BY <1>2, <1>8, AmongFacts
<1>10. every \in Seq(B) /\ IsInjective(every) /\ Range(every) \subseteq Range(mine)
  <2>1. CASE h \in counted
    BY <1>3, <1>9, <2>1, AmongFacts
  <2>2. CASE h \notin counted
    BY <1>3, <2>2 DEF IsInjective, Range
  <2>3. QED
    BY <2>1, <2>2
<1>11. some \in Seq(B) /\ IsInjective(some) /\ Range(some) = Range(mine) \ Range(every)
  BY <1>4, <1>9, ErasedFacts
<1>12. left \in Seq(B) /\ IsInjective(left) /\ Range(left) = Range(pool) \ Range(mine)
  BY <1>5, <1>8, ErasedFacts
<1>13. first \in SetLists(B, L) /\ IsPartition(first, Range(every))
  <2>1. CASE every = <<>>
    <3>1. Range(every) = {}
      BY <2>1 DEF Range
    <3>2. first = <<>> /\ <<>> \in SetLists(B, L)
      BY <1>6, <2>1 DEF SetLists
    <3>3. QED
      BY <3>1, <3>2, EmptyPartition
  <2>2. CASE every # <<>>
    BY <1>6, <1>10, <2>2, OneSet
  <2>3. QED
    BY <2>1, <2>2
<1>14. PICK rest : rest = createPostDomSets(some)
  OBVIOUS
<1>15. rest \in SetLists(B, L) /\ IsPartition(rest, Range(some))
  BY <1>11, <1>14, CreatePostDomSetsPartitions
<1>16. /\ done.sets \o first \in SetLists(B, L)
       /\ (done.sets \o first) \o rest \in SetLists(B, L)
  BY <1>8, <1>13, <1>15, ConcatProperties DEF SetLists
<1>17. InstrumentLoop(done, h) \in Work(B, L)
  BY <1>7, <1>12, <1>14, <1>16 DEF Work
<1>18. ASSUME NEW S, Divides(done, S)
       PROVE  Divides(InstrumentLoop(done, h), S)
  <2>1. Range(pool) \subseteq S /\ IsPartition(done.sets, S \ Range(pool))
    BY <1>1, <1>18 DEF Divides
  <2>2. IsPartition(done.sets \o first, (S \ Range(pool)) \cup Range(every))
    <3>1. (S \ Range(pool)) \cap Range(every) = {}
      BY <1>9, <1>10
    <3>2. QED
      BY <1>8, <1>13, <2>1, <3>1, PartitionConcat
  <2>3. IsPartition((done.sets \o first) \o rest,
                    ((S \ Range(pool)) \cup Range(every)) \cup Range(some))
    <3>1. ((S \ Range(pool)) \cup Range(every)) \cap Range(some) = {}
      BY <1>9, <1>10, <1>11
    <3>2. QED
      BY <1>13, <1>15, <1>16, <2>2, <3>1, PartitionConcat
  <2>4. ((S \ Range(pool)) \cup Range(every)) \cup Range(some) = S \ Range(left)
    BY <1>9, <1>10, <1>11, <1>12, <2>1
  <2>5. Range(left) \subseteq S
    BY <1>12, <2>1
  <2>6. IsPartition((done.sets \o first) \o rest, S \ Range(left))
    BY <2>3, <2>4
  <2>7. /\ InstrumentLoop(done, h).pool = left
        /\ InstrumentLoop(done, h).sets = (done.sets \o first) \o rest
    BY <1>7, <1>14
  <2>8. QED
    BY <2>5, <2>6, <2>7 DEF Divides
<1>19. QED
  BY <1>17, <1>18

LoopStep(loops, B, L) == [k \in DOMAIN loops |-> [v \in Work(B, L) |-> InstrumentLoop(v, loops[k])]]

InstrumentLoops(pool, loops) == FoldLeft(InstrumentLoop, [pool |-> pool, sets |-> <<>>], loops)

LEMMA InstrumentLoopsUnfolds ==
  ASSUME NEW B, NEW L, 0 \in L, NEW pool \in Seq(B), IsInjective(pool), NEW loops \in Seq(L)
  PROVE  /\ LoopStep(loops, B, L) \in Steps(Len(loops), Work(B, L))
         /\ [pool |-> pool, sets |-> <<>>] \in Work(B, L)
         /\ EndsIn(Len(loops), Work(B, L), [pool |-> pool, sets |-> <<>>],
                   LoopStep(loops, B, L), InstrumentLoops(pool, loops))
<1> DEFINE n == Len(loops)
           V == Work(B, L)
           base == [pool |-> pool, sets |-> <<>>]
           step == LoopStep(loops, B, L)
           It == CHOOSE iter : iter = [d \in SUBSET DOMAIN loops |->
                   IF d = {} THEN base ELSE InstrumentLoop(iter[d \ {Max(d)}], loops[Max(d)])]
<1>1. n \in Nat /\ DOMAIN loops = 1 .. n /\ base \in V /\ \A k \in 1 .. n : loops[k] \in L
  BY DEF Work, SetLists
<1>2. step \in Steps(n, V) /\ \A k \in 1 .. n : \A v \in V : step[k][v] = InstrumentLoop(v, loops[k])
  BY <1>1, InstrumentLoopDivides DEF Steps, LoopStep
<1>3. InstrumentLoops(pool, loops) = It[DOMAIN loops]
  BY DEF InstrumentLoops, FoldLeft, MapThenFoldSet
<1> HIDE DEF V, n, step, base
<1>4. PICK f \in [SUBSET (1 .. n) -> V] : IsFold(f, n, base, step)
  BY <1>1, <1>2, FoldExists DEF HasFold
<1>5. f = [d \in SUBSET DOMAIN loops |->
             IF d = {} THEN base ELSE InstrumentLoop(f[d \ {Max(d)}], loops[Max(d)])]
  <2>1. ASSUME NEW d \in SUBSET (1 .. n), d # {}
        PROVE  f[d] = InstrumentLoop(f[d \ {Max(d)}], loops[Max(d)])
    BY <1>1, <1>2, <1>4, <2>1, MaxIsGreatest DEF IsFold
  <2>2. f[{}] = base
    BY <1>4 DEF IsFold
  <2>3. QED
    BY <1>1, <2>1, <2>2
<1>6. It = [d \in SUBSET DOMAIN loops |->
              IF d = {} THEN base ELSE InstrumentLoop(It[d \ {Max(d)}], loops[Max(d)])]
  BY <1>5
<1> HIDE DEF It
<1>7. Folds(It, n, V, base, step)
  BY <1>1, <1>2, <1>6, MaxIsGreatest DEF Folds
<1>8. EndsIn(n, V, base, step, It[1 .. n])
  BY <1>1, <1>2, <1>7, FoldEndsIn
<1>9. EndsIn(n, V, base, step, InstrumentLoops(pool, loops))
  BY <1>1, <1>3, <1>8
<1>10. QED
  BY <1>1, <1>2, <1>9 DEF n, V, step, base

(* The sets of a region are a partition of its blocks.                     *)
LEMMA SetsOfPartitions ==
  ASSUME NEW B, NEW L, 0 \in L, NEW r, BBList(r) \in Seq(B), IsInjective(BBList(r)),
         LoopsOf(r) \in Seq(L)
  PROVE  SetsOf(r) \in SetLists(B, L) /\ IsPartition(SetsOf(r), Range(BBList(r)))
<1>1. PICK pool \in Seq(B) : pool = BBList(r) /\ IsInjective(pool)
  OBVIOUS
<1>2. PICK loops \in Seq(L) : loops = LoopsOf(r)
  OBVIOUS
<1> DEFINE n == Len(loops)
           V == Work(B, L)
           S == Range(pool)
           base == [pool |-> pool, sets |-> <<>>]
           step == LoopStep(loops, B, L)
           done == InstrumentLoops(pool, loops)
           I == {p \in (0 .. n) \X V : Divides(p[2], S)}
<1>3. SetsOf(r) = done.sets \o createPostDomSets(done.pool)
  BY <1>1, <1>2 DEF SetsOf, InstrumentLoops
<1>4. n \in Nat /\ DOMAIN loops = 1 .. n /\ \A k \in 1 .. n : loops[k] \in L
  OBVIOUS
<1>5. step \in Steps(n, V) /\ base \in V /\ EndsIn(n, V, base, step, done)
  BY <1>1, InstrumentLoopsUnfolds
<1>6. <<0, base>> \in I
  <2>1. S \ Range(base.pool) = {}
    OBVIOUS
  <2>2. Divides(base, S)
    BY <2>1, EmptyPartition DEF Divides
  <2>3. QED
    BY <1>4, <1>5, <2>2
<1>7. ASSUME NEW k \in 1 .. n, NEW u \in V, <<k - 1, u>> \in I
      PROVE  <<k, step[k][u]>> \in I
  <2>1. Divides(u, S)
    BY <1>7
  <2>2. step[k][u] = InstrumentLoop(u, loops[k]) /\ loops[k] \in L
    BY <1>4 DEF LoopStep
  <2>3. Divides(step[k][u], S) /\ step[k][u] \in V
    BY <2>1, <2>2, InstrumentLoopDivides
  <2>4. QED
    BY <2>3
<1> HIDE DEF n, V, step, I, base, done
<1>8. done \in V /\ <<n, done>> \in I
  BY <1>4, <1>5, <1>6, <1>7, ChainInduction
<1>9. Divides(done, S)
  BY <1>8 DEF I
<1>10. done.pool \in Seq(B) /\ IsInjective(done.pool) /\ done.sets \in SetLists(B, L)
  BY <1>8 DEF V, Work
<1>11. PICK rest : rest = createPostDomSets(done.pool)
  OBVIOUS
<1>12. rest \in SetLists(B, L) /\ IsPartition(rest, Range(done.pool))
  BY <1>10, <1>11, CreatePostDomSetsPartitions
<1>13. done.sets \o rest \in SetLists(B, L)
       /\ IsPartition(done.sets \o rest, (S \ Range(done.pool)) \cup Range(done.pool))
  <2>1. (S \ Range(done.pool)) \cap Range(done.pool) = {}
    OBVIOUS
  <2>2. IsPartition(done.sets, S \ Range(done.pool))
    BY <1>9 DEF Divides
  <2>3. QED
    BY <1>10, <1>12, <2>1, <2>2, PartitionConcat
<1>14. (S \ Range(done.pool)) \cup Range(done.pool) = Range(BBList(r))
  BY <1>1, <1>9 DEF Divides
<1>15. QED
  BY <1>3, <1>11, <1>13, <1>14

-----------------------------------------------------------------------------
(* The order of the blocks.                                                *)

LEMMA GraphFacts ==
  ASSUME NEW g \in Graphs
  PROVE  /\ g \in Seq(Seq(BlocksOf(g))) /\ Len(g) \in Nat \ {0}
         /\ BlocksOf(g) = 1 .. Len(g) /\ Entry \in BlocksOf(g)
         /\ \A b \in BlocksOf(g) : g[b] \in Seq(BlocksOf(g))
<1>1. g \in Seq(Seq(Nat)) /\ g # <<>> /\ g \in Seq(Seq(BlocksOf(g)))
  BY DEF Graphs
<1>2. Len(g) \in Nat /\ BlocksOf(g) = 1 .. Len(g)
  BY <1>1 DEF BlocksOf
<1>3. Len(g) # 0
  BY <1>1
<1>4. Entry \in BlocksOf(g)
  BY <1>2, <1>3 DEF Entry
<1>5. \A b \in BlocksOf(g) : g[b] \in Seq(BlocksOf(g))
  BY <1>1, <1>2, ElementOfSeq
<1>6. QED
  BY <1>1, <1>2, <1>3, <1>4, <1>5

EdgesOf(g) == FoldLeft(LAMBDA n, s : n + Len(s), 0, g)

EdgeStep(g) == [k \in DOMAIN g |-> [v \in Nat |-> v + Len(g[k])]]

LEMMA EdgesUnfolds ==
  ASSUME NEW g \in Graphs
  PROVE  /\ EdgeStep(g) \in Steps(Len(g), Nat)
         /\ 0 \in Nat
         /\ EndsIn(Len(g), Nat, 0, EdgeStep(g), EdgesOf(g))
<1> DEFINE n == Len(g)
           V == Nat
           base == 0
           step == EdgeStep(g)
           It == CHOOSE iter : iter = [d \in SUBSET DOMAIN g |->
                   IF d = {} THEN base ELSE iter[d \ {Max(d)}] + Len(g[Max(d)])]
<1>1. n \in Nat /\ DOMAIN g = 1 .. n /\ base \in V /\ \A k \in 1 .. n : Len(g[k]) \in Nat
  BY GraphFacts DEF BlocksOf
<1>2. step \in Steps(n, V) /\ \A k \in 1 .. n : \A v \in V : step[k][v] = v + Len(g[k])
  BY <1>1 DEF Steps, EdgeStep
<1>3. EdgesOf(g) = It[DOMAIN g]
  BY DEF EdgesOf, FoldLeft, MapThenFoldSet
<1> HIDE DEF V, n, step, base
<1>4. PICK f \in [SUBSET (1 .. n) -> V] : IsFold(f, n, base, step)
  BY <1>1, <1>2, FoldExists DEF HasFold
<1>5. f = [d \in SUBSET DOMAIN g |->
             IF d = {} THEN base ELSE f[d \ {Max(d)}] + Len(g[Max(d)])]
  <2>1. ASSUME NEW d \in SUBSET (1 .. n), d # {}
        PROVE  f[d] = f[d \ {Max(d)}] + Len(g[Max(d)])
    BY <1>1, <1>2, <1>4, <2>1, MaxIsGreatest DEF IsFold
  <2>2. f[{}] = base
    BY <1>4 DEF IsFold
  <2>3. QED
    BY <1>1, <2>1, <2>2
<1>6. It = [d \in SUBSET DOMAIN g |->
              IF d = {} THEN base ELSE It[d \ {Max(d)}] + Len(g[Max(d)])]
  BY <1>5
<1> HIDE DEF It
<1>7. Folds(It, n, V, base, step)
  BY <1>1, <1>2, <1>6, MaxIsGreatest DEF Folds
<1>8. EndsIn(n, V, base, step, It[1 .. n])
  BY <1>1, <1>2, <1>7, FoldEndsIn
<1>9. EndsIn(n, V, base, step, EdgesOf(g))
  BY <1>1, <1>3, <1>8
<1>10. QED
  BY <1>1, <1>2, <1>9 DEF n, V, step, base

LEMMA EdgesNat == \A g \in Graphs : EdgesOf(g) \in Nat
<1> SUFFICES ASSUME NEW g \in Graphs PROVE EdgesOf(g) \in Nat
  OBVIOUS
<1>1. EndsIn(Len(g), Nat, 0, EdgeStep(g), EdgesOf(g)) /\ Len(g) \in Nat
  BY EdgesUnfolds, GraphFacts
<1>2. QED
  BY <1>1 DEF EndsIn

(* One step of the walk in depth-first order.                              *)
Visited(g, walk) ==
  IF walk.todo = <<>> THEN walk
  ELSE IF Head(walk.todo) \in Range(walk.seen) THEN [walk EXCEPT !.todo = Tail(@)]
  ELSE [todo |-> g[Head(walk.todo)] \o Tail(walk.todo), seen |-> Append(walk.seen, Head(walk.todo))]

Walks(g) == [todo : Seq(BlocksOf(g)), seen : Seq(BlocksOf(g))]
Start == [todo |-> <<Entry>>, seen |-> <<>>]
Turns(g) == [i \in 1 .. EdgesOf(g) + 1 |-> i]
Walked(g) == FoldLeft(LAMBDA walk, i : Visited(g, walk), Start, Turns(g))
WalkStep(g) == [k \in DOMAIN Turns(g) |-> [v \in Walks(g) |-> Visited(g, v)]]

LEMMA VisitedType ==
  ASSUME NEW g \in Graphs, NEW walk \in Walks(g)
  PROVE  /\ Visited(g, walk) \in Walks(g)
         /\ walk.seen # <<>> => Visited(g, walk).seen # <<>>
         /\ walk = Start => Visited(g, walk).seen # <<>>
<1>1. PICK B : B = BlocksOf(g)
  OBVIOUS
<1>2. walk \in [todo : Seq(B), seen : Seq(B)]
  BY <1>1 DEF Walks
<1>3. CASE walk.todo = <<>>
  BY <1>3 DEF Visited, Start
<1>4. CASE walk.todo # <<>> /\ Head(walk.todo) \in Range(walk.seen)
  <2>1. Visited(g, walk) = [walk EXCEPT !.todo = Tail(@)]
    BY <1>4 DEF Visited
  <2>2. Tail(walk.todo) \in Seq(B)
    BY <1>2, <1>4
  <2>3. Range(<<>>) = {}
    BY DEF Range
  <2>4. Visited(g, walk) \in [todo : Seq(B), seen : Seq(B)] /\ Visited(g, walk).seen = walk.seen
    BY <1>2, <2>1, <2>2
  <2>5. walk # Start
    BY <1>4, <2>3 DEF Start
  <2>6. QED
    BY <1>1, <2>4, <2>5 DEF Walks
<1>5. CASE walk.todo # <<>> /\ Head(walk.todo) \notin Range(walk.seen)
  <2>1. PICK b : b = Head(walk.todo)
    OBVIOUS
  <2>2. Visited(g, walk) = [todo |-> g[b] \o Tail(walk.todo), seen |-> Append(walk.seen, b)]
    BY <1>5, <2>1 DEF Visited
  <2>3. b \in B /\ Tail(walk.todo) \in Seq(B)
    BY <1>2, <1>5, <2>1
  <2>4. g[b] \in Seq(B)
    BY <1>1, <2>3, GraphFacts
  <2>5. g[b] \o Tail(walk.todo) \in Seq(B) /\ Append(walk.seen, b) \in Seq(B)
    BY <1>2, <2>3, <2>4
  <2>6. Append(walk.seen, b) # <<>>
    BY <1>2
  <2>7. QED
    BY <1>1, <2>2, <2>5, <2>6 DEF Walks
<1>6. QED
  BY <1>3, <1>4, <1>5

LEMMA WalkUnfolds ==
  ASSUME NEW g \in Graphs
  PROVE  /\ WalkStep(g) \in Steps(EdgesOf(g) + 1, Walks(g))
         /\ Start \in Walks(g)
         /\ EndsIn(EdgesOf(g) + 1, Walks(g), Start, WalkStep(g), Walked(g))
<1> DEFINE n == EdgesOf(g) + 1
           V == Walks(g)
           base == Start
           step == WalkStep(g)
           It == CHOOSE iter : iter = [d \in SUBSET DOMAIN Turns(g) |->
                   IF d = {} THEN base ELSE Visited(g, iter[d \ {Max(d)}])]
<1>1. n \in Nat /\ DOMAIN Turns(g) = 1 .. n /\ base \in V
  BY EdgesNat, GraphFacts DEF Turns, Walks, Start
<1>2. step \in Steps(n, V) /\ \A k \in 1 .. n : \A v \in V : step[k][v] = Visited(g, v)
  BY <1>1, VisitedType DEF Steps, WalkStep
<1>3. Walked(g) = It[DOMAIN Turns(g)]
  BY DEF Walked, FoldLeft, MapThenFoldSet
<1> HIDE DEF V, n, step, base
<1>4. PICK f \in [SUBSET (1 .. n) -> V] : IsFold(f, n, base, step)
  BY <1>1, <1>2, FoldExists DEF HasFold
<1>5. f = [d \in SUBSET DOMAIN Turns(g) |->
             IF d = {} THEN base ELSE Visited(g, f[d \ {Max(d)}])]
  <2>1. ASSUME NEW d \in SUBSET (1 .. n), d # {}
        PROVE  f[d] = Visited(g, f[d \ {Max(d)}])
    BY <1>1, <1>2, <1>4, <2>1, MaxIsGreatest DEF IsFold
  <2>2. f[{}] = base
    BY <1>4 DEF IsFold
  <2>3. QED
    BY <1>1, <2>1, <2>2
<1>6. It = [d \in SUBSET DOMAIN Turns(g) |->
              IF d = {} THEN base ELSE Visited(g, It[d \ {Max(d)}])]
  BY <1>5
<1> HIDE DEF It
<1>7. Folds(It, n, V, base, step)
  BY <1>1, <1>2, <1>6, MaxIsGreatest DEF Folds
<1>8. EndsIn(n, V, base, step, It[1 .. n])
  BY <1>1, <1>2, <1>7, FoldEndsIn
<1>9. EndsIn(n, V, base, step, Walked(g))
  BY <1>1, <1>3, <1>8
<1>10. QED
  BY <1>1, <1>2, <1>9 DEF n, V, step, base

LEMMA PreorderFacts ==
  ASSUME NEW g \in Graphs
  PROVE  Preorder(g) \in Seq(BlocksOf(g)) /\ Preorder(g) # <<>>
<1> DEFINE n == EdgesOf(g) + 1
           V == Walks(g)
           step == WalkStep(g)
           I == {p \in (0 .. n) \X V : (p[1] = 0 /\ p[2] = Start) \/ p[2].seen # <<>>}
<1>1. n \in Nat /\ 0 \in 0 .. n /\ n # 0 /\ DOMAIN Turns(g) = 1 .. n
  BY EdgesNat DEF Turns
<1>2. step \in Steps(n, V) /\ Start \in V /\ EndsIn(n, V, Start, step, Walked(g))
  BY WalkUnfolds
<1>3. <<0, Start>> \in I
  BY <1>1, <1>2
<1>4. ASSUME NEW k \in 1 .. n, NEW u \in V, <<k - 1, u>> \in I
      PROVE  <<k, step[k][u]>> \in I
  <2>1. u = Start \/ u.seen # <<>>
    BY <1>4
  <2>2. step[k][u] = Visited(g, u)
    BY <1>1 DEF WalkStep
  <2>3. step[k][u] \in V /\ step[k][u].seen # <<>>
    BY <2>1, <2>2, VisitedType
  <2>4. QED
    BY <2>3
<1> HIDE DEF n, V, step, I
<1>5. Walked(g) \in V /\ <<n, Walked(g)>> \in I
  BY <1>1, <1>2, <1>3, <1>4, ChainInduction
<1>6. Walked(g).seen # <<>>
  BY <1>1, <1>5 DEF I
<1>7. Preorder(g) = Walked(g).seen
  BY DEF Preorder, Walked, Visited, Start, Turns, EdgesOf
<1>8. QED
  BY <1>5, <1>6, <1>7 DEF V, Walks

(* orderBasicBlocks puts each block where it ranks.                        *)
Put(rank, pre, order, i) == [order EXCEPT ![rank[i]] = pre[i]]
Numbers(pre) == [i \in DOMAIN pre |-> i]
Ordered(rank, pre) == FoldLeft(LAMBDA order, i : Put(rank, pre, order, i), pre, Numbers(pre))
PutStep(rank, pre, B) ==
  [k \in DOMAIN Numbers(pre) |-> [v \in [DOMAIN pre -> B] |-> Put(rank, pre, v, k)]]

LEMMA OrderUnfolds ==
  ASSUME NEW B, NEW pre \in Seq(B), NEW rank
  PROVE  /\ PutStep(rank, pre, B) \in Steps(Len(pre), [DOMAIN pre -> B])
         /\ pre \in [DOMAIN pre -> B]
         /\ EndsIn(Len(pre), [DOMAIN pre -> B], pre, PutStep(rank, pre, B), Ordered(rank, pre))
<1> DEFINE n == Len(pre)
           V == [DOMAIN pre -> B]
           base == pre
           step == PutStep(rank, pre, B)
           It == CHOOSE iter : iter = [d \in SUBSET DOMAIN Numbers(pre) |->
                   IF d = {} THEN base ELSE Put(rank, pre, iter[d \ {Max(d)}], Numbers(pre)[Max(d)])]
<1>1. n \in Nat /\ DOMAIN Numbers(pre) = 1 .. n /\ base \in V
      /\ DOMAIN pre = 1 .. n /\ \A k \in 1 .. n : pre[k] \in B /\ Numbers(pre)[k] = k
  BY DEF Numbers
<1>2. step \in Steps(n, V) /\ \A k \in 1 .. n : \A v \in V : step[k][v] = Put(rank, pre, v, Numbers(pre)[k])
  BY <1>1 DEF Steps, PutStep, Put
<1>3. Ordered(rank, pre) = It[DOMAIN Numbers(pre)]
  BY DEF Ordered, FoldLeft, MapThenFoldSet
<1> HIDE DEF V, n, step, base
<1>4. PICK f \in [SUBSET (1 .. n) -> V] : IsFold(f, n, base, step)
  BY <1>1, <1>2, FoldExists DEF HasFold
<1>5. f = [d \in SUBSET DOMAIN Numbers(pre) |->
             IF d = {} THEN base ELSE Put(rank, pre, f[d \ {Max(d)}], Numbers(pre)[Max(d)])]
  <2>1. ASSUME NEW d \in SUBSET (1 .. n), d # {}
        PROVE  f[d] = Put(rank, pre, f[d \ {Max(d)}], Numbers(pre)[Max(d)])
    BY <1>1, <1>2, <1>4, <2>1, MaxIsGreatest DEF IsFold
  <2>2. f[{}] = base
    BY <1>4 DEF IsFold
  <2>3. QED
    BY <1>1, <2>1, <2>2
<1>6. It = [d \in SUBSET DOMAIN Numbers(pre) |->
              IF d = {} THEN base ELSE Put(rank, pre, It[d \ {Max(d)}], Numbers(pre)[Max(d)])]
  BY <1>5
<1> HIDE DEF It
<1>7. Folds(It, n, V, base, step)
  <2>1. ASSUME NEW d \in SUBSET (1 .. n), d # {}, It[d \ {Max(d)}] \in V
        PROVE  It[d] = step[Max(d)][It[d \ {Max(d)}]]
    <3>1. Max(d) \in 1 .. n
      BY <1>1, <2>1, MaxIsGreatest
    <3>2. It[d] = Put(rank, pre, It[d \ {Max(d)}], Numbers(pre)[Max(d)])
      BY <1>1, <1>6, <2>1
    <3>3. QED
      BY <1>2, <2>1, <3>1, <3>2
  <2>2. It[{}] = base
    BY <1>6
  <2>3. QED
    BY <2>1, <2>2 DEF Folds
<1>8. EndsIn(n, V, base, step, It[1 .. n])
  BY <1>1, <1>2, <1>7, FoldEndsIn
<1>9. EndsIn(n, V, base, step, Ordered(rank, pre))
  BY <1>1, <1>3, <1>8
<1>10. QED
  BY <1>1, <1>2, <1>9 DEF n, V, step, base

LEMMA OrderFacts ==
  ASSUME NEW g \in Graphs
  PROVE  orderBasicBlocks(g) \in Seq(BlocksOf(g)) /\ orderBasicBlocks(g) # <<>>
<1>1. PICK B : B = BlocksOf(g)
  OBVIOUS
<1>2. PICK pre \in Seq(B) : pre = Preorder(g) /\ pre # <<>>
  BY <1>1, PreorderFacts
<1>3. PICK rank : rank = Ranks(g, pre)
  OBVIOUS
<1>4. orderBasicBlocks(g) = Ordered(rank, pre)
  BY <1>2, <1>3 DEF orderBasicBlocks, Ordered, Put, Numbers
<1>5. EndsIn(Len(pre), [DOMAIN pre -> B], pre, PutStep(rank, pre, B), Ordered(rank, pre))
  BY OrderUnfolds
<1>6. Len(pre) \in Nat /\ Len(pre) # 0 /\ DOMAIN pre = 1 .. Len(pre)
  BY <1>2
<1>7. Ordered(rank, pre) \in [1 .. Len(pre) -> B]
  BY <1>5, <1>6 DEF EndsIn
<1>8. PICK n \in Nat \ {0} : Ordered(rank, pre) \in [1 .. n -> B]
  BY <1>6, <1>7
<1>9. QED
  BY <1>1, <1>4, <1>8

-----------------------------------------------------------------------------
(* Markers and the lists of the groups.                                    *)

LEMMA InstrFacts ==
  ASSUME NEW i \in Instr
  PROVE  /\ i.op = "begin" => i.group \in GroupIDs /\ i = Begin(i.group)
         /\ i.op = "end" => i.group \in GroupIDs /\ i = End(i.group)
<1>1. CASE i = Code
  BY <1>1 DEF Code
<1>2. ASSUME NEW g \in GroupIDs, i = Begin(g)
      PROVE  i.op = "begin" /\ i.group = g
  BY <1>2 DEF Begin
<1>3. ASSUME NEW g \in GroupIDs, i = End(g)
      PROVE  i.op = "end" /\ i.group = g
  BY <1>3 DEF End
<1>4. i = Code \/ (\E g \in GroupIDs : i = Begin(g)) \/ (\E g \in GroupIDs : i = End(g))
  BY DEF Instr
<1>5. QED
  BY <1>1, <1>2, <1>3, <1>4

LEMMA MarkersFacts ==
  ASSUME Split, NEW b \in Blocks, NEW op
  PROVE  /\ Markers(b, op) \in Seq({i \in Instr : i.op = op})
         /\ \A g : Marks(b, op, g) \in Nat
         /\ \A g : Marks(b, op, g) > 0 =>
                     \E i \in Range(Markers(b, op)) : i \in {Begin(g), End(g)}
<1>1. body \in Seq(Seq(Instr)) /\ Blocks = 1 .. Len(body)
  <2>1. Blocks = 1 .. Len(succ)
    BY GraphFacts DEF Split, Blocks, BlocksOf
  <2>2. QED
    BY <2>1 DEF Split
<1>2. body[b] \in Seq(Instr)
  BY <1>1, ElementOfSeq
<1>3. PICK s : s = Markers(b, op)
  OBVIOUS
<1>4. s \in Seq(Instr) /\ Range(s) = Range(body[b]) \cap {i \in Instr : i.op = op}
  BY <1>2, <1>3, AmongFacts DEF Markers
<1>5. s \in Seq(Range(s))
  BY <1>4, SeqOfRange
<1>6. s \in Seq({i \in Instr : i.op = op})
  <2>1. Range(s) \subseteq {i \in Instr : i.op = op}
    BY <1>4
  <2>2. QED
    BY <1>5, <2>1, SeqMonotonic
<1>7. ASSUME NEW g
      PROVE  /\ Marks(b, op, g) \in Nat
             /\ Marks(b, op, g) > 0 => \E i \in Range(s) : i \in {Begin(g), End(g)}
  <2>1. PICK q : q = Among(s, {Begin(g), End(g)})
    OBVIOUS
  <2>2. q \in Seq(Instr) /\ Range(q) = Range(s) \cap {Begin(g), End(g)}
    BY <1>4, <2>1, AmongFacts
  <2>3. Marks(b, op, g) = Len(q) /\ Len(q) \in Nat
    BY <1>3, <2>1, <2>2 DEF Marks
  <2>4. Len(q) > 0 => q[1] \in Range(q)
    BY <2>2 DEF Range
  <2>5. QED
    BY <2>2, <2>3, <2>4
<1>8. QED
  BY <1>3, <1>6, <1>7

LEMMA BeginsFacts ==
  ASSUME Split, NEW b \in Blocks
  PROVE  /\ Markers(b, "begin") \in Seq({Begin(g) : g \in GroupIDs})
         /\ \A g \in GroupIDs : Marks(b, "begin", g) > 0 => Begin(g) \in Range(Markers(b, "begin"))
<1>1. PICK T : T = {i \in Instr : i.op = "begin"}
  OBVIOUS
<1>2. T \subseteq {Begin(g) : g \in GroupIDs}
  BY <1>1, InstrFacts
<1>3. Markers(b, "begin") \in Seq(T)
  BY <1>1, MarkersFacts
<1>4. ASSUME NEW g \in GroupIDs, Marks(b, "begin", g) > 0
      PROVE  Begin(g) \in Range(Markers(b, "begin"))
  <2>1. PICK i \in Range(Markers(b, "begin")) : i \in {Begin(g), End(g)}
    BY <1>4, MarkersFacts
  <2>2. i \in T
    BY <1>3, RangeOfSeq
  <2>3. i.op = "begin"
    BY <1>1, <2>2
  <2>4. i # End(g)
    BY <2>3 DEF End
  <2>5. QED
    BY <2>1, <2>4
<1>5. QED
  BY <1>2, <1>3, <1>4, SeqMonotonic

LEMMA EndsFacts ==
  ASSUME Split, NEW b \in Blocks
  PROVE  Markers(b, "end") \in Seq({End(g) : g \in GroupIDs})
<1>1. PICK T : T = {i \in Instr : i.op = "end"}
  OBVIOUS
<1>2. T \subseteq {End(g) : g \in GroupIDs}
  BY <1>1, InstrFacts
<1>3. Markers(b, "end") \in Seq(T)
  BY <1>1, MarkersFacts
<1>4. QED
  BY <1>2, <1>3, SeqMonotonic

Distinct(list) == \A r, q \in DOMAIN list : list[r].group = list[q].group => r = q

LEMMA GroupListFacts ==
  ASSUME NEW B, NEW list \in GroupLists(B)
  PROVE  /\ Len(list) \in Nat /\ DOMAIN list = 1 .. Len(list)
         /\ \A r \in DOMAIN list : /\ list[r] \in [group : GroupIDs, blocks : Seq(B)]
                                  /\ list[r].group \in GroupIDs /\ list[r].blocks \in Seq(B)
<1>1. Len(list) \in Nat /\ DOMAIN list = 1 .. Len(list)
  BY DEF GroupLists
<1>2. ASSUME NEW r \in DOMAIN list PROVE list[r] \in [group : GroupIDs, blocks : Seq(B)]
  BY <1>1, ElementOfSeq DEF GroupLists
<1>3. QED
  BY <1>1, <1>2

(* There are no more regions than group ids.                               *)
LEMMA RegionsBounded ==
  ASSUME NEW B, NEW list \in GroupLists(B), Distinct(list)
  PROVE  N \in Nat /\ Len(list) <= N
<1>1. IsFiniteSet(GroupIDs)
  BY SourcesAssumption
<1> DEFINE f == [r \in 1 .. Len(list) |-> list[r].group]
<1>2. f \in Injection(1 .. Len(list), GroupIDs)
  <2>1. f \in [1 .. Len(list) -> GroupIDs]
    BY GroupListFacts
  <2>2. IsInjective(f)
    BY GroupListFacts DEF Distinct, IsInjective
  <2>3. QED
    BY <2>1, <2>2 DEF Injection
<1>3. Cardinality(1 .. Len(list)) <= Cardinality(GroupIDs)
  <2>1. \E h : h \in Injection(1 .. Len(list), GroupIDs)
    BY <1>2
  <2>2. QED
    BY <1>1, <2>1, FS_Injection
<1>4. Cardinality(1 .. Len(list)) = Len(list)
  <2>1. PICK n \in Nat : n = Len(list)
    BY GroupListFacts
  <2>2. Cardinality(1 .. n) = n
    BY FS_Interval
  <2>3. QED
    BY <2>1, <2>2
<1>5. N \in Nat
  BY <1>1, FS_CardinalityType DEF N
<1>6. QED
  BY <1>3, <1>4, <1>5 DEF N

LEMMA RegionIDFacts ==
  ASSUME NEW B, NEW list \in GroupLists(B), NEW g \in Known(list)
  PROVE  RegionID(list, g) \in 1 .. Len(list)
<1> DEFINE I == {i \in 1 .. Len(list) : list[i].group = g}
<1>1. I \subseteq Nat /\ I # {}
  BY GroupListFacts DEF Known
<1>2. RegionID(list, g) = Min(I)
  BY <1>1 DEF RegionID, SelectInSeq
<1>3. Min(I) \in I
  <2> HIDE DEF I
  <2>1. QED
    BY <1>1, MinIsLeast
<1>4. QED
  BY <1>2, <1>3

(* What a BEGIN adds to the lists.                                         *)
Alloc(list, i) ==
  IF i.group \in Known(list) THEN list ELSE Append(list, [group |-> i.group, blocks |-> <<>>])

AllocStep(s, B) == [k \in DOMAIN s |-> [v \in GroupLists(B) |-> Alloc(v, s[k])]]

Extended(list, old) == FoldLeft(Alloc, old, list)

LEMMA AllocType ==
  ASSUME NEW B, NEW list \in GroupLists(B), NEW g \in GroupIDs
  PROVE  Alloc(list, Begin(g)) \in GroupLists(B)
<1>1. [group |-> g, blocks |-> <<>>] \in [group : GroupIDs, blocks : Seq(B)]
  OBVIOUS
<1>2. Begin(g).group = g
  BY DEF Begin
<1>3. PICK e : e = [group |-> g, blocks |-> <<>>]
  OBVIOUS
<1>4. Alloc(list, Begin(g)) = IF g \in Known(list) THEN list ELSE Append(list, e)
  BY <1>2, <1>3 DEF Alloc
<1>5. Append(list, e) \in GroupLists(B)
  BY <1>1, <1>3 DEF GroupLists
<1>6. QED
  BY <1>4, <1>5

LEMMA AllocatedUnfolds ==
  ASSUME NEW B, NEW old \in GroupLists(B), NEW s \in Seq({Begin(g) : g \in GroupIDs})
  PROVE  /\ AllocStep(s, B) \in Steps(Len(s), GroupLists(B))
         /\ old \in GroupLists(B)
         /\ EndsIn(Len(s), GroupLists(B), old, AllocStep(s, B), Extended(s, old))
<1> DEFINE n == Len(s)
           V == GroupLists(B)
           base == old
           step == AllocStep(s, B)
           It == CHOOSE iter : iter = [d \in SUBSET DOMAIN s |->
                   IF d = {} THEN base ELSE Alloc(iter[d \ {Max(d)}], s[Max(d)])]
<1>1. n \in Nat /\ DOMAIN s = 1 .. n /\ base \in V
      /\ \A k \in 1 .. n : \E g \in GroupIDs : s[k] = Begin(g)
  OBVIOUS
<1>2. step \in Steps(n, V) /\ \A k \in 1 .. n : \A v \in V : step[k][v] = Alloc(v, s[k])
  BY <1>1, AllocType DEF Steps, AllocStep
<1>3. Extended(s, old) = It[DOMAIN s]
  BY DEF Extended, Alloc, FoldLeft, MapThenFoldSet
<1> HIDE DEF V, n, step, base
<1>4. PICK f \in [SUBSET (1 .. n) -> V] : IsFold(f, n, base, step)
  BY <1>1, <1>2, FoldExists DEF HasFold
<1>5. f = [d \in SUBSET DOMAIN s |->
             IF d = {} THEN base ELSE Alloc(f[d \ {Max(d)}], s[Max(d)])]
  <2>1. ASSUME NEW d \in SUBSET (1 .. n), d # {}
        PROVE  f[d] = Alloc(f[d \ {Max(d)}], s[Max(d)])
    BY <1>1, <1>2, <1>4, <2>1, MaxIsGreatest DEF IsFold
  <2>2. f[{}] = base
    BY <1>4 DEF IsFold
  <2>3. QED
    BY <1>1, <2>1, <2>2
<1>6. It = [d \in SUBSET DOMAIN s |->
              IF d = {} THEN base ELSE Alloc(It[d \ {Max(d)}], s[Max(d)])]
  BY <1>5
<1> HIDE DEF It
<1>7. Folds(It, n, V, base, step)
  <2>1. ASSUME NEW d \in SUBSET (1 .. n), d # {}, It[d \ {Max(d)}] \in V
        PROVE  It[d] = step[Max(d)][It[d \ {Max(d)}]]
    <3>1. Max(d) \in 1 .. n
      BY <1>1, <2>1, MaxIsGreatest
    <3>2. It[d] = Alloc(It[d \ {Max(d)}], s[Max(d)])
      BY <1>1, <1>6, <2>1
    <3>3. QED
      BY <1>2, <2>1, <3>1, <3>2
  <2>2. It[{}] = base
    BY <1>6
  <2>3. QED
    BY <2>1, <2>2 DEF Folds
<1>8. EndsIn(n, V, base, step, It[1 .. n])
  BY <1>1, <1>2, <1>7, FoldEndsIn
<1>9. EndsIn(n, V, base, step, Extended(s, old))
  BY <1>1, <1>3, <1>8
<1>10. QED
  BY <1>1, <1>2, <1>9 DEF n, V, step, base

(* list extends old by empty lists, for the first k groups of s at least.  *)
Allocates(list, old, k, s) ==
  /\ Distinct(list)
  /\ Len(old) <= Len(list)
  /\ \A r \in DOMAIN list : IF r <= Len(old) THEN list[r] = old[r] ELSE list[r].blocks = <<>>
  /\ \A j \in 1 .. k : s[j].group \in Known(list)

LEMMA AllocatedFacts ==
  ASSUME NEW B, NEW old \in GroupLists(B), Distinct(old), NEW s \in Seq({Begin(g) : g \in GroupIDs})
  PROVE  Extended(s, old) \in GroupLists(B) /\ Allocates(Extended(s, old), old, Len(s), s)
<1> DEFINE n == Len(s)
           V == GroupLists(B)
           step == AllocStep(s, B)
           I == {p \in (0 .. n) \X V : Allocates(p[2], old, p[1], s)}
<1>1. n \in Nat /\ 0 \in 0 .. n /\ DOMAIN s = 1 .. n /\ \A k \in 1 .. n : \E g \in GroupIDs : s[k] = Begin(g)
  OBVIOUS
<1>2. step \in Steps(n, V) /\ EndsIn(n, V, old, step, Extended(s, old))
  BY AllocatedUnfolds
<1>3. <<0, old>> \in I
  <2>1. Allocates(old, old, 0, s)
    BY GroupListFacts DEF Allocates
  <2>2. QED
    BY <1>1, <2>1
<1>4. ASSUME NEW k \in 1 .. n, NEW u \in V, <<k - 1, u>> \in I
      PROVE  <<k, step[k][u]>> \in I
  <2>1. Allocates(u, old, k - 1, s)
    BY <1>4
  <2>2. PICK g \in GroupIDs : s[k] = Begin(g)
    BY <1>1
  <2>3. s[k].group = g
    BY <2>2 DEF Begin
  <2>4. PICK w : w = Alloc(u, s[k])
    OBVIOUS
  <2>5. step[k][u] = w /\ w \in V
    BY <1>1, <2>2, <2>4, AllocType DEF AllocStep
  <2>6. CASE g \in Known(u)
    <3>1. w = u
      BY <2>3, <2>4, <2>6 DEF Alloc
    <3>2. Allocates(u, old, k, s)
      BY <2>1, <2>3, <2>6 DEF Allocates
    <3>3. QED
      BY <2>5, <3>1, <3>2
  <2>7. CASE g \notin Known(u)
    <3>1. PICK l \in Nat : l = Len(u) /\ DOMAIN u = 1 .. l
      BY GroupListFacts
    <3>2. PICK e : e = [group |-> g, blocks |-> <<>>]
      OBVIOUS
    <3>3. w = Append(u, e)
      BY <2>3, <2>4, <2>7, <3>2 DEF Alloc
    <3>4. /\ DOMAIN w = 1 .. l + 1 /\ Len(w) = l + 1
          /\ \A r \in 1 .. l : w[r] = u[r]
          /\ w[l + 1] = e /\ e.group = g /\ e.blocks = <<>>
      BY <3>1, <3>2, <3>3, AppendProperties DEF GroupLists
    <3>5. Distinct(w)
      <4>1. \A r \in 1 .. l : w[r].group # g
        BY <2>7, <3>1, <3>4 DEF Known
      <4>2. \A r, q \in 1 .. l : w[r].group = w[q].group => r = q
        BY <2>1, <3>1, <3>4 DEF Allocates, Distinct
      <4>3. QED
        BY <3>4, <4>1, <4>2 DEF Distinct
    <3>6. PICK m \in Nat : m = Len(old)
      BY GroupListFacts
    <3>7. m <= l /\ m <= Len(w)
      BY <2>1, <3>1, <3>4, <3>6 DEF Allocates
    <3>8. \A r \in DOMAIN w : IF r <= m THEN w[r] = old[r] ELSE w[r].blocks = <<>>
      <4> SUFFICES ASSUME NEW r \in DOMAIN w
                   PROVE  IF r <= m THEN w[r] = old[r] ELSE w[r].blocks = <<>>
        OBVIOUS
      <4>1. CASE r \in 1 .. l
        BY <2>1, <3>1, <3>4, <3>6, <4>1 DEF Allocates
      <4>2. CASE r = l + 1
        BY <3>4, <3>7, <4>2
      <4>3. QED
        BY <3>4, <4>1, <4>2
    <3>9. \A j \in 1 .. k : s[j].group \in Known(w)
      <4>1. \A x \in Known(u) : x \in Known(w)
        BY <3>1, <3>4 DEF Known
      <4>2. g \in Known(w)
        BY <3>4 DEF Known
      <4>3. \A j \in 1 .. k - 1 : s[j].group \in Known(u)
        BY <2>1 DEF Allocates
      <4>4. QED
        BY <2>3, <4>1, <4>2, <4>3
    <3>10. Allocates(w, old, k, s)
      BY <3>5, <3>6, <3>7, <3>8, <3>9 DEF Allocates
    <3>11. QED
      BY <2>5, <3>10
  <2>8. QED
    BY <2>6, <2>7
<1> HIDE DEF n, V, step, I
<1>5. Extended(s, old) \in V /\ <<n, Extended(s, old)>> \in I
  <2>1. old \in V
    BY DEF V
  <2>2. QED
    BY <1>1, <1>2, <1>3, <1>4, <2>1, ChainInduction
<1>6. QED
  BY <1>5 DEF I, V, n

(* The exit events of a block.                                             *)
Lower(list, opened, done, i) ==
  IF Len(Among(done, {ExitOf(list, i)})) < opened[i.group]
  THEN Append(done, ExitOf(list, i)) ELSE done

LoweredFrom(list, opened, s) ==
  FoldLeft(LAMBDA done, i : Lower(list, opened, done, i), <<>>, s)

LowerStep(list, opened, s) ==
  [k \in DOMAIN s |-> [v \in Seq(1 .. N) |-> Lower(list, opened, v, s[k])]]

(* What is open has a list.                                                *)
OpenIsKnown(opened, list) ==
  opened \in [GroupIDs -> Nat] /\ \A g \in GroupIDs : opened[g] > 0 => g \in Known(list)

LEMMA LowerType ==
  ASSUME NEW B, NEW list \in GroupLists(B), Distinct(list), NEW opened, OpenIsKnown(opened, list),
         NEW done \in Seq(1 .. N), NEW g \in GroupIDs
  PROVE  Lower(list, opened, done, End(g)) \in Seq(1 .. N)
<1>1. End(g).group = g
  BY DEF End
<1>2. PICK x : x = ExitOf(list, End(g))
  OBVIOUS
<1>3. PICK c : c = Len(Among(done, {x}))
  OBVIOUS
<1>4. c \in Nat
  BY <1>3, AmongFacts
<1>5. CASE c < opened[g]
  <2>1. g \in Known(list)
    BY <1>4, <1>5 DEF OpenIsKnown
  <2>2. x \in 1 .. Len(list)
    BY <1>1, <1>2, <2>1, RegionIDFacts DEF ExitOf
  <2>3. x \in 1 .. N
    BY <2>2, RegionsBounded, GroupListFacts
  <2>4. Lower(list, opened, done, End(g)) = Append(done, x)
    BY <1>1, <1>2, <1>3, <1>5 DEF Lower
  <2>5. QED
    BY <2>3, <2>4
<1>6. CASE ~(c < opened[g])
  BY <1>1, <1>2, <1>3, <1>6 DEF Lower
<1>7. QED
  BY <1>5, <1>6

LEMMA LoweredUnfolds ==
  ASSUME NEW B, NEW list \in GroupLists(B), Distinct(list), NEW opened, OpenIsKnown(opened, list),
         NEW s \in Seq({End(g) : g \in GroupIDs})
  PROVE  /\ LowerStep(list, opened, s) \in Steps(Len(s), Seq(1 .. N))
         /\ <<>> \in Seq(1 .. N)
         /\ EndsIn(Len(s), Seq(1 .. N), <<>>, LowerStep(list, opened, s), LoweredFrom(list, opened, s))
<1> DEFINE n == Len(s)
           V == Seq(1 .. N)
           base == <<>>
           step == LowerStep(list, opened, s)
           It == CHOOSE iter : iter = [d \in SUBSET DOMAIN s |->
                   IF d = {} THEN base ELSE Lower(list, opened, iter[d \ {Max(d)}], s[Max(d)])]
<1>1. n \in Nat /\ DOMAIN s = 1 .. n /\ base \in V
      /\ \A k \in 1 .. n : \E g \in GroupIDs : s[k] = End(g)
  OBVIOUS
<1>2. step \in Steps(n, V) /\ \A k \in 1 .. n : \A v \in V : step[k][v] = Lower(list, opened, v, s[k])
  BY <1>1, LowerType DEF Steps, LowerStep
<1>3. LoweredFrom(list, opened, s) = It[DOMAIN s]
  BY DEF LoweredFrom, Lower, FoldLeft, MapThenFoldSet
<1> HIDE DEF V, n, step, base
<1>4. PICK f \in [SUBSET (1 .. n) -> V] : IsFold(f, n, base, step)
  BY <1>1, <1>2, FoldExists DEF HasFold
<1>5. f = [d \in SUBSET DOMAIN s |->
             IF d = {} THEN base ELSE Lower(list, opened, f[d \ {Max(d)}], s[Max(d)])]
  <2>1. ASSUME NEW d \in SUBSET (1 .. n), d # {}
        PROVE  f[d] = Lower(list, opened, f[d \ {Max(d)}], s[Max(d)])
    BY <1>1, <1>2, <1>4, <2>1, MaxIsGreatest DEF IsFold
  <2>2. f[{}] = base
    BY <1>4 DEF IsFold
  <2>3. QED
    BY <1>1, <2>1, <2>2
<1>6. It = [d \in SUBSET DOMAIN s |->
              IF d = {} THEN base ELSE Lower(list, opened, It[d \ {Max(d)}], s[Max(d)])]
  BY <1>5
<1> HIDE DEF It
<1>7. Folds(It, n, V, base, step)
  <2>1. ASSUME NEW d \in SUBSET (1 .. n), d # {}, It[d \ {Max(d)}] \in V
        PROVE  It[d] = step[Max(d)][It[d \ {Max(d)}]]
    <3>1. Max(d) \in 1 .. n
      BY <1>1, <2>1, MaxIsGreatest
    <3>2. It[d] = Lower(list, opened, It[d \ {Max(d)}], s[Max(d)])
      BY <1>1, <1>6, <2>1
    <3>3. QED
      BY <1>2, <2>1, <3>1, <3>2
  <2>2. It[{}] = base
    BY <1>6
  <2>3. QED
    BY <2>1, <2>2 DEF Folds
<1>8. EndsIn(n, V, base, step, It[1 .. n])
  BY <1>1, <1>2, <1>7, FoldEndsIn
<1>9. EndsIn(n, V, base, step, LoweredFrom(list, opened, s))
  BY <1>1, <1>3, <1>8
<1>10. QED
  BY <1>1, <1>2, <1>9 DEF n, V, step, base

LEMMA LoweredFacts ==
  ASSUME Split, NEW b \in Blocks,
         NEW B, NEW list \in GroupLists(B), Distinct(list), NEW opened, OpenIsKnown(opened, list)
  PROVE  Lowered(b, list, opened) \in Seq(1 .. N)
<1>1. PICK s \in Seq({End(g) : g \in GroupIDs}) : s = Markers(b, "end")
  BY EndsFacts
<1>2. Lowered(b, list, opened) = LoweredFrom(list, opened, s)
  BY <1>1 DEF Lowered, LoweredFrom, Lower
<1>3. EndsIn(Len(s), Seq(1 .. N), <<>>, LowerStep(list, opened, s), LoweredFrom(list, opened, s))
  BY LoweredUnfolds
<1>4. LoweredFrom(list, opened, s) \in Seq(1 .. N)
  BY <1>3 DEF EndsIn
<1>5. QED
  BY <1>2, <1>4

(* One call of recordPragmaRegions.                                        *)
LEMMA OpenedFacts ==
  ASSUME Split, NEW b \in Blocks, NEW open, OpenIsKnown(open, BasicBlockGroupList),
         NEW B, BasicBlockGroupList \in GroupLists(B), Distinct(BasicBlockGroupList)
  PROVE  /\ Allocated(b) \in GroupLists(B) /\ Distinct(Allocated(b))
         /\ Len(BasicBlockGroupList) <= Len(Allocated(b))
         /\ \A r \in DOMAIN Allocated(b) :
              IF r <= Len(BasicBlockGroupList) THEN Allocated(b)[r] = BasicBlockGroupList[r]
              ELSE Allocated(b)[r].blocks = <<>>
         /\ Known(BasicBlockGroupList) \subseteq Known(Allocated(b))
         /\ OpenIsKnown(Opened(b, open), Allocated(b))
         /\ OpenIsKnown(Passed(Opened(b, open), Closed(b, Opened(b, open))), Allocated(b))
<1>1. PICK s \in Seq({Begin(g) : g \in GroupIDs}) : s = Markers(b, "begin")
  BY BeginsFacts
<1>2. PICK old \in GroupLists(B) : old = BasicBlockGroupList
  OBVIOUS
<1>3. PICK list : list = Allocated(b)
  OBVIOUS
<1>4. list = Extended(s, old)
  BY <1>1, <1>2, <1>3 DEF Allocated, Extended, Alloc
<1>5. list \in GroupLists(B) /\ Allocates(list, old, Len(s), s)
  BY <1>2, <1>4, AllocatedFacts
<1>6. Known(old) \subseteq Known(list)
  <2>1. ASSUME NEW r \in DOMAIN old PROVE r \in DOMAIN list /\ list[r] = old[r]
    BY <1>5, GroupListFacts DEF Allocates
  <2>2. QED
    BY <2>1 DEF Known
<1>7. PICK opened : opened = Opened(b, open)
  OBVIOUS
<1>8. /\ opened \in [GroupIDs -> Nat]
      /\ \A g \in GroupIDs : opened[g] = open[g] + Marks(b, "begin", g)
  <2>1. \A g \in GroupIDs : Marks(b, "begin", g) \in Nat /\ open[g] \in Nat
    BY MarkersFacts DEF OpenIsKnown
  <2>2. opened = [g \in GroupIDs |-> open[g] + Marks(b, "begin", g)]
    BY <1>7 DEF Opened
  <2>3. \A g \in GroupIDs : open[g] + Marks(b, "begin", g) \in Nat
    BY <2>1
  <2>4. QED
    BY <2>2, <2>3
<1>9. OpenIsKnown(opened, list)
  <2>1. ASSUME NEW g \in GroupIDs, opened[g] > 0 PROVE g \in Known(list)
    <3>1. open[g] \in Nat /\ Marks(b, "begin", g) \in Nat
      BY MarkersFacts DEF OpenIsKnown
    <3>2. CASE open[g] > 0
      BY <1>2, <1>6, <3>2 DEF OpenIsKnown
    <3>3. CASE Marks(b, "begin", g) > 0
      <4>1. Begin(g) \in Range(s)
        BY <1>1, <3>3, BeginsFacts
      <4>2. PICK j \in 1 .. Len(s) : s[j] = Begin(g)
        BY <4>1 DEF Range
      <4>3. s[j].group = g
        BY <4>2 DEF Begin
      <4>4. QED
        BY <1>5, <4>3 DEF Allocates
    <3>4. QED
      BY <1>8, <2>1, <3>1, <3>2, <3>3
  <2>2. QED
    BY <1>8, <2>1 DEF OpenIsKnown
<1>10. PICK closed : closed = Closed(b, opened)
  OBVIOUS
<1>11. ASSUME NEW g \in GroupIDs
       PROVE  closed[g] \in Nat /\ (closed[g] > 0 => opened[g] > 0)
  <2>1. PICK m \in Nat : m = Marks(b, "end", g)
    BY MarkersFacts
  <2>2. PICK o \in Nat : o = opened[g]
    BY <1>8
  <2>3. closed[g] = IF m > o THEN 0 ELSE o - m
    BY <1>10, <2>1, <2>2 DEF Closed
  <2>4. QED
    BY <2>2, <2>3
<1>12. closed \in [GroupIDs -> Nat]
  <2>1. closed = [g \in GroupIDs |-> closed[g]]
    BY <1>10 DEF Closed
  <2>2. QED
    BY <1>11, <2>1
<1>13. OpenIsKnown(closed, list)
  BY <1>9, <1>11, <1>12 DEF OpenIsKnown
<1>14. Passed(opened, closed) = closed
  BY DEF Passed
<1>15. QED
  BY <1>2, <1>3, <1>5, <1>6, <1>7, <1>9, <1>10, <1>13, <1>14 DEF Allocates

-----------------------------------------------------------------------------
(* Graphs stay graphs.                                                     *)

LEMMA GraphIntro ==
  ASSUME NEW n \in Nat \ {0}, NEW g \in [1 .. n -> Seq(1 .. n)]
  PROVE  g \in Graphs /\ Len(g) = n
<1>1. g \in Seq(Seq(1 .. n)) /\ Len(g) = n /\ BlocksOf(g) = 1 .. n
  BY DEF BlocksOf
<1>2. g \in Seq(Seq(Nat))
  <2>1. \A s \in Seq(1 .. n) : s \in Seq(Nat)
    <3>1. 1 .. n \subseteq Nat
      OBVIOUS
    <3>2. QED
      BY <3>1, SeqMonotonic
  <2>2. Seq(1 .. n) \subseteq Seq(Nat)
    BY <2>1
  <2>3. QED
    BY <1>1, <2>2, SeqMonotonic
<1>3. g # <<>>
  BY <1>1
<1>4. QED
  BY <1>1, <1>2, <1>3 DEF Graphs

(* A row of the graph is replaced, and a block added at its end.           *)
Rows(n) == [1 .. n - 1 -> Seq(1 .. n)]

LEMMA GraphGrows ==
  ASSUME NEW g \in Graphs, NEW n \in Nat, n = Len(g) + 1, NEW w \in Rows(n),
         NEW s \in Seq(1 .. n)
  PROVE  Append(w, s) \in Graphs /\ Len(Append(w, s)) = n
<1>1. Len(g) \in Nat \ {0} /\ n \in Nat \ {0} /\ n - 1 \in Nat
  BY GraphFacts
<1>2. w \in Seq(Seq(1 .. n)) /\ Len(w) = n - 1
  BY <1>1 DEF Rows
<1>3. PICK u : u = Append(w, s)
  OBVIOUS
<1>4. u \in Seq(Seq(1 .. n)) /\ Len(u) = n
  BY <1>1, <1>2, <1>3
<1>5. u \in [1 .. n -> Seq(1 .. n)]
  BY <1>4
<1>6. QED
  BY <1>1, <1>3, <1>5, GraphIntro

LEMMA RowsOf ==
  ASSUME NEW g \in Graphs, NEW n \in Nat, n = Len(g) + 1
  PROVE  /\ n - 1 = Len(g) /\ BlocksOf(g) = 1 .. n - 1 /\ n \in 1 .. n
         /\ \A b \in 1 .. n - 1 : g[b] \in Seq(1 .. n - 1) /\ g[b] \in Seq(1 .. n)
         /\ g \in Rows(n)
<1>1. Len(g) \in Nat \ {0} /\ BlocksOf(g) = 1 .. Len(g)
  BY GraphFacts
<1>2. n - 1 = Len(g) /\ BlocksOf(g) = 1 .. n - 1 /\ n \in 1 .. n /\ 1 .. n - 1 \subseteq 1 .. n
  BY <1>1
<1>3. ASSUME NEW b \in 1 .. n - 1
      PROVE  g[b] \in Seq(1 .. n - 1) /\ g[b] \in Seq(1 .. n)
  <2>1. g[b] \in Seq(1 .. n - 1)
    BY <1>2, GraphFacts
  <2>2. QED
    BY <1>2, <2>1, SeqMonotonic
<1>4. DOMAIN g = 1 .. n - 1 /\ g = [b \in DOMAIN g |-> g[b]]
  <2>1. g \in Seq(Seq(BlocksOf(g)))
    BY GraphFacts
  <2>2. QED
    BY <1>2, <2>1 DEF BlocksOf
<1>5. QED
  BY <1>2, <1>3, <1>4 DEF Rows

LEMMA SplitEdgeFacts ==
  ASSUME NEW g \in Graphs, NEW h \in BlocksOf(g)
  PROVE  SplitEdge(g, h) \in Graphs /\ Len(SplitEdge(g, h)) = Len(g) + 1
<1>1. PICK n \in Nat : n = Len(g) + 1
  BY GraphFacts
<1>2. PICK p : p = CHOOSE b \in DOMAIN g : h \in Range(g[b]) /\ b \notin LI[h]
  OBVIOUS
<1>3. PICK w : w = [g EXCEPT ![p] = [i \in DOMAIN @ |-> IF @[i] = h THEN n ELSE @[i]]]
  OBVIOUS
<1>4. SplitEdge(g, h) = Append(w, <<h>>)
  BY <1>1, <1>2, <1>3 DEF SplitEdge
<1>5. h \in 1 .. n
  BY <1>1, RowsOf
<1>6. w \in Rows(n)
  <2>1. CASE p \in 1 .. n - 1
    <3>1. PICK row : row = g[p]
      OBVIOUS
    <3>2. row \in Seq(1 .. n) /\ n \in 1 .. n
      BY <1>1, <2>1, <3>1, RowsOf
    <3>3. [i \in DOMAIN row |-> IF row[i] = h THEN n ELSE row[i]] \in Seq(1 .. n)
      BY <3>2
    <3>4. w = [g EXCEPT ![p] = [i \in DOMAIN row |-> IF row[i] = h THEN n ELSE row[i]]]
      BY <1>3, <3>1
    <3>5. g \in Rows(n)
      BY <1>1, RowsOf
    <3>6. QED
      BY <2>1, <3>3, <3>4, <3>5 DEF Rows
  <2>2. CASE p \notin 1 .. n - 1
    <3>1. g \in Rows(n)
      BY <1>1, RowsOf
    <3>2. w = g
      BY <1>3, <2>2, <3>1 DEF Rows
    <3>3. QED
      BY <3>1, <3>2
  <2>3. QED
    BY <2>1, <2>2
<1>7. <<h>> \in Seq(1 .. n)
  BY <1>5
<1>8. PICK s \in Seq(1 .. n) : s = <<h>>
  BY <1>7
<1>9. Append(w, s) \in Graphs /\ Len(Append(w, s)) = n
  BY <1>1, <1>6, GraphGrows
<1>10. QED
  BY <1>1, <1>4, <1>8, <1>9

(* The edges split for the hoisted counters of mine.                       *)
SplitFor(mine, graph, k) == SplitEdge(graph, mine[k].loop)
SplitEdges(mine, graph, hoisted) == FoldLeft(LAMBDA g, k : SplitFor(mine, g, k), graph, hoisted)
GraphsFrom(graph) == {g \in Graphs : BlocksOf(graph) \subseteq BlocksOf(g)}
SplitStep(mine, graph, hoisted) ==
  [k \in DOMAIN hoisted |-> [v \in GraphsFrom(graph) |-> SplitFor(mine, v, hoisted[k])]]

LEMMA SplitForFacts ==
  ASSUME NEW graph \in Graphs, NEW mine, NEW k, mine[k].loop \in BlocksOf(graph),
         NEW g \in GraphsFrom(graph)
  PROVE  SplitFor(mine, g, k) \in GraphsFrom(graph) /\ Len(SplitFor(mine, g, k)) = Len(g) + 1
<1>1. g \in Graphs /\ mine[k].loop \in BlocksOf(g)
  BY DEF GraphsFrom
<1>2. PICK w : w = SplitFor(mine, g, k)
  OBVIOUS
<1>3. w \in Graphs /\ Len(w) = Len(g) + 1
  BY <1>1, <1>2, SplitEdgeFacts DEF SplitFor
<1>4. Len(g) \in Nat /\ BlocksOf(g) = 1 .. Len(g) /\ BlocksOf(w) = 1 .. Len(w)
  BY <1>1, <1>3, GraphFacts
<1>5. BlocksOf(g) \subseteq BlocksOf(w)
  BY <1>3, <1>4
<1>6. QED
  BY <1>2, <1>3, <1>5 DEF GraphsFrom

LEMMA SplitEdgesUnfolds ==
  ASSUME NEW graph \in Graphs, NEW mine, NEW T, NEW hoisted \in Seq(T),
         \A k \in T : mine[k].loop \in BlocksOf(graph)
  PROVE  /\ SplitStep(mine, graph, hoisted) \in Steps(Len(hoisted), GraphsFrom(graph))
         /\ graph \in GraphsFrom(graph)
         /\ EndsIn(Len(hoisted), GraphsFrom(graph), graph,
                   SplitStep(mine, graph, hoisted), SplitEdges(mine, graph, hoisted))
<1> DEFINE n == Len(hoisted)
           V == GraphsFrom(graph)
           base == graph
           step == SplitStep(mine, graph, hoisted)
           It == CHOOSE iter : iter = [d \in SUBSET DOMAIN hoisted |->
                   IF d = {} THEN base ELSE SplitFor(mine, iter[d \ {Max(d)}], hoisted[Max(d)])]
<1>1. n \in Nat /\ DOMAIN hoisted = 1 .. n /\ base \in V
      /\ \A k \in 1 .. n : mine[hoisted[k]].loop \in BlocksOf(graph)
  BY DEF GraphsFrom
<1>2. step \in Steps(n, V) /\ \A k \in 1 .. n : \A v \in V : step[k][v] = SplitFor(mine, v, hoisted[k])
  BY <1>1, SplitForFacts DEF Steps, SplitStep
<1>3. SplitEdges(mine, graph, hoisted) = It[DOMAIN hoisted]
  BY DEF SplitEdges, FoldLeft, MapThenFoldSet
<1> HIDE DEF V, n, step, base
<1>4. PICK f \in [SUBSET (1 .. n) -> V] : IsFold(f, n, base, step)
  BY <1>1, <1>2, FoldExists DEF HasFold
<1>5. f = [d \in SUBSET DOMAIN hoisted |->
             IF d = {} THEN base ELSE SplitFor(mine, f[d \ {Max(d)}], hoisted[Max(d)])]
  <2>1. ASSUME NEW d \in SUBSET (1 .. n), d # {}
        PROVE  f[d] = SplitFor(mine, f[d \ {Max(d)}], hoisted[Max(d)])
    BY <1>1, <1>2, <1>4, <2>1, MaxIsGreatest DEF IsFold
  <2>2. f[{}] = base
    BY <1>4 DEF IsFold
  <2>3. QED
    BY <1>1, <2>1, <2>2
<1>6. It = [d \in SUBSET DOMAIN hoisted |->
              IF d = {} THEN base ELSE SplitFor(mine, It[d \ {Max(d)}], hoisted[Max(d)])]
  BY <1>5
<1> HIDE DEF It
<1>7. Folds(It, n, V, base, step)
  <2>1. ASSUME NEW d \in SUBSET (1 .. n), d # {}, It[d \ {Max(d)}] \in V
        PROVE  It[d] = step[Max(d)][It[d \ {Max(d)}]]
    <3>1. Max(d) \in 1 .. n
      BY <1>1, <2>1, MaxIsGreatest
    <3>2. It[d] = SplitFor(mine, It[d \ {Max(d)}], hoisted[Max(d)])
      BY <1>1, <1>6, <2>1
    <3>3. QED
      BY <1>2, <2>1, <3>1, <3>2
  <2>2. It[{}] = base
    BY <1>6
  <2>3. QED
    BY <2>1, <2>2 DEF Folds
<1>8. EndsIn(n, V, base, step, It[1 .. n])
  BY <1>1, <1>2, <1>7, FoldEndsIn
<1>9. EndsIn(n, V, base, step, SplitEdges(mine, graph, hoisted))
  BY <1>1, <1>3, <1>8
<1>10. QED
  BY <1>1, <1>2, <1>9 DEF n, V, step, base

LEMMA SplitEdgesFacts ==
  ASSUME NEW graph \in Graphs, NEW mine, NEW T, NEW hoisted \in Seq(T),
         \A k \in T : mine[k].loop \in BlocksOf(graph)
  PROVE  /\ SplitEdges(mine, graph, hoisted) \in GraphsFrom(graph)
         /\ Len(SplitEdges(mine, graph, hoisted)) = Len(graph) + Len(hoisted)
<1> DEFINE n == Len(hoisted)
           V == GraphsFrom(graph)
           step == SplitStep(mine, graph, hoisted)
           end == SplitEdges(mine, graph, hoisted)
           I == {p \in (0 .. n) \X V : Len(p[2]) = Len(graph) + p[1]}
<1>1. n \in Nat /\ 0 \in 0 .. n /\ DOMAIN hoisted = 1 .. n /\ Len(graph) \in Nat
      /\ \A k \in 1 .. n : mine[hoisted[k]].loop \in BlocksOf(graph)
  BY GraphFacts
<1>2. step \in Steps(n, V) /\ graph \in V /\ EndsIn(n, V, graph, step, end)
  BY SplitEdgesUnfolds
<1>3. <<0, graph>> \in I
  BY <1>1, <1>2
<1>4. ASSUME NEW k \in 1 .. n, NEW u \in V, <<k - 1, u>> \in I
      PROVE  <<k, step[k][u]>> \in I
  <2>1. Len(u) = Len(graph) + (k - 1)
    BY <1>4
  <2>2. step[k][u] = SplitFor(mine, u, hoisted[k])
    BY <1>1 DEF SplitStep
  <2>3. step[k][u] \in V /\ Len(step[k][u]) = Len(u) + 1
    BY <1>1, <2>2, SplitForFacts
  <2>4. Len(step[k][u]) = Len(graph) + k
    BY <1>1, <2>1, <2>3
  <2>5. QED
    BY <2>3, <2>4
<1> HIDE DEF n, V, step, end, I
<1>5. end \in V /\ <<n, end>> \in I
  BY <1>1, <1>2, <1>3, <1>4, ChainInduction
<1>6. QED
  BY <1>5 DEF I, V, end, n

-----------------------------------------------------------------------------
(* The runtime: one saved row for each open region.                        *)

LEMMA OpenFacts ==
  ASSUME NEW m, IsRuntime(m)
  PROVE  N \in Nat /\ IsFiniteSet(Open(m)) /\ Open(m) \subseteq 1 .. N /\ Cardinality(Open(m)) \in Nat
<1>1. N \in Nat
  BY SourcesAssumption, FS_CardinalityType DEF N
<1>2. Open(m) \subseteq 1 .. N
  BY DEF IsRuntime, Open
<1>3. IsFiniteSet(1 .. N)
  BY <1>1, FS_Interval
<1>4. QED
  BY <1>1, <1>2, <1>3, FS_Subset, FS_CardinalityType

(* Only the fields that are typed matter.                                  *)
LEMMA RuntimeIntro ==
  ASSUME NEW row \in Nat, NEW depth \in [1 .. N -> Nat], NEW save \in Seq(Nat),
         Len(save) = Cardinality({r \in 1 .. N : depth[r] > 0}),
         NEW count, NEW pending, NEW stray, NEW dropped
  PROVE  IsRuntime([row |-> row, depth |-> depth, save |-> save, count |-> count,
                    pending |-> pending, stray |-> stray, dropped |-> dropped])
<1>1. PICK m : m = [row |-> row, depth |-> depth, save |-> save, count |-> count,
                    pending |-> pending, stray |-> stray, dropped |-> dropped]
  OBVIOUS
<1>2. /\ m.row = row /\ m.depth = depth /\ m.save = save /\ m.count = count
      /\ m.pending = pending /\ m.stray = stray /\ m.dropped = dropped
  BY <1>1
<1>3. Open(m) = {r \in 1 .. N : depth[r] > 0}
  BY <1>2 DEF Open
<1>4. IsRuntime(m)
  BY <1>1, <1>2, <1>3 DEF IsRuntime
<1>5. QED
  BY <1>1, <1>4

LEMMA RuntimeTypes ==
  ASSUME NEW m, IsRuntime(m)
  PROVE  /\ m.row \in Nat /\ m.depth \in [1 .. N -> Nat] /\ m.save \in Seq(Nat)
         /\ Open(m) = {r \in 1 .. N : m.depth[r] > 0}
         /\ Len(m.save) = Cardinality(Open(m))
         /\ Len(m.save) = Cardinality({r \in 1 .. N : m.depth[r] > 0})
<1>1. m.row \in Nat /\ m.depth \in [1 .. N -> Nat] /\ m.save \in Seq(Nat)
  BY DEF IsRuntime
<1>2. Len(m.save) = Cardinality(Open(m))
  BY DEF IsRuntime
<1>3. Open(m) = {r \in 1 .. N : m.depth[r] > 0}
  BY <1>1 DEF Open
<1>4. QED
  BY <1>1, <1>2, <1>3

LEMMA RuntimeFields ==
  ASSUME NEW m, IsRuntime(m)
  PROVE  m \in [row : {m.row}, depth : {m.depth}, save : {m.save}, count : {m.count},
                 pending : {m.pending}, stray : {m.stray}, dropped : {m.dropped}]
<1>1. PICK a, b, c, d, e, f, g :
        m = [row |-> a, depth |-> b, save |-> c, count |-> d, pending |-> e, stray |-> f, dropped |-> g]
  BY DEF IsRuntime
<1>2. /\ m.row = a /\ m.depth = b /\ m.save = c /\ m.count = d /\ m.pending = e
      /\ m.stray = f /\ m.dropped = g
  BY <1>1
<1>3. QED
  BY <1>1, <1>2

(* Three fields at once, in either order.                                  *)
LEMMA RuntimeExcept ==
  ASSUME NEW m, IsRuntime(m), NEW depth, NEW save, NEW row
  PROVE  /\ [m EXCEPT !.depth = depth, !.save = save, !.row = row]
              = [row |-> row, depth |-> depth, save |-> save, count |-> m.count,
                 pending |-> m.pending, stray |-> m.stray, dropped |-> m.dropped]
         /\ [m EXCEPT !.depth = depth, !.row = row, !.save = save]
              = [row |-> row, depth |-> depth, save |-> save, count |-> m.count,
                 pending |-> m.pending, stray |-> m.stray, dropped |-> m.dropped]
<1> DEFINE IsSet(w) ==
             /\ w["row"] = row /\ w["depth"] = depth /\ w["save"] = save
             /\ w["count"] = m["count"] /\ w["pending"] = m["pending"]
             /\ w["stray"] = m["stray"] /\ w["dropped"] = m["dropped"]
           Fields == {"row", "depth", "save", "count", "pending", "stray", "dropped"}
<1>1. PICK v : v = [m EXCEPT !.depth = depth, !.save = save, !.row = row]
  OBVIOUS
<1>2. DOMAIN v = Fields
  BY <1>1 DEF IsRuntime
<1>3. IsSet(v)
  BY <1>1 DEF IsRuntime
<1>4. v = [row |-> row, depth |-> depth, save |-> save, count |-> m.count,
           pending |-> m.pending, stray |-> m.stray, dropped |-> m.dropped]
  BY <1>1, <1>2, <1>3
<1>5. PICK w : w = [m EXCEPT !.depth = depth, !.row = row, !.save = save]
  OBVIOUS
<1>6. DOMAIN w = Fields
  BY <1>5 DEF IsRuntime
<1>7. IsSet(w)
  BY <1>5 DEF IsRuntime
<1>8. w = [row |-> row, depth |-> depth, save |-> save, count |-> m.count,
           pending |-> m.pending, stray |-> m.stray, dropped |-> m.dropped]
  BY <1>5, <1>6, <1>7
<1>9. QED
  BY <1>1, <1>4, <1>5, <1>8

LEMMA EnteredFacts ==
  ASSUME NEW m, IsRuntime(m), NEW r \in 1 .. N
  PROVE  IsRuntime(Entered(m, r))
<1>0. /\ m.row \in Nat /\ m.depth \in [1 .. N -> Nat] /\ m.save \in Seq(Nat)
      /\ Open(m) = {q \in 1 .. N : m.depth[q] > 0}
      /\ Len(m.save) = Cardinality(Open(m))
      /\ Len(m.save) = Cardinality({q \in 1 .. N : m.depth[q] > 0})
  BY RuntimeTypes
<1>1. PICK depth : depth = [m.depth EXCEPT ![r] = @ + 1]
  OBVIOUS
<1>2. PICK save : save = IF m.depth[r] = 0 THEN Append(m.save, m.row) ELSE m.save
  OBVIOUS
<1>3. PICK row : row = IF m.depth[r] = 0 THEN r ELSE m.row
  OBVIOUS
<1>4. Entered(m, r) = [row |-> row, depth |-> depth, save |-> save, count |-> m.count,
                       pending |-> m.pending, stray |-> m.stray, dropped |-> m.dropped]
  <2>1. Entered(m, r) = [m EXCEPT !.depth = depth, !.save = save, !.row = row]
    BY <1>1, <1>2, <1>3, RuntimeFields DEF Entered
  <2>2. QED
    BY <2>1, RuntimeExcept
<1>5. r \in Nat /\ m.depth[r] \in Nat
  <2>1. \A k \in 1 .. N : k \in Nat
    BY OpenFacts
  <2>2. QED
    BY <1>0, <2>1
<1>6. row \in Nat /\ depth \in [1 .. N -> Nat] /\ save \in Seq(Nat)
  BY <1>0, <1>1, <1>2, <1>3, <1>5
<1>7. \A q \in 1 .. N : depth[q] = IF q = r THEN m.depth[r] + 1 ELSE m.depth[q]
  BY <1>0, <1>1
<1>8. Len(save) = Cardinality({q \in 1 .. N : depth[q] > 0})
  <2>1. CASE m.depth[r] = 0
    <3>1. {q \in 1 .. N : depth[q] > 0} = Open(m) \cup {r} /\ r \notin Open(m)
      BY <1>0, <1>7, <2>1
    <3>2. Cardinality(Open(m) \cup {r}) = Cardinality(Open(m)) + 1
      BY <3>1, OpenFacts, FS_AddElement
    <3>3. Len(save) = Len(m.save) + 1
      BY <1>0, <1>2, <2>1
    <3>4. QED
      BY <1>0, <3>1, <3>2, <3>3
  <2>2. CASE m.depth[r] # 0
    <3>1. \A q \in 1 .. N : depth[q] > 0 <=> m.depth[q] > 0
      BY <1>5, <1>7, <2>2
    <3>2. {q \in 1 .. N : depth[q] > 0} = Open(m)
      BY <1>0, <3>1
    <3>3. QED
      BY <1>0, <1>2, <2>2, <3>2
  <2>3. QED
    BY <2>1, <2>2
<1>9. QED
  BY <1>4, <1>6, <1>8, RuntimeIntro

LEMMA ExitedFacts ==
  ASSUME NEW m, IsRuntime(m), NEW r \in 1 .. N
  PROVE  IsRuntime(Exited(m, r))
<1>0. /\ m.row \in Nat /\ m.depth \in [1 .. N -> Nat] /\ m.save \in Seq(Nat)
      /\ Open(m) = {q \in 1 .. N : m.depth[q] > 0}
      /\ Len(m.save) = Cardinality(Open(m))
      /\ Len(m.save) = Cardinality({q \in 1 .. N : m.depth[q] > 0})
  BY RuntimeTypes
<1>1. r \in Nat /\ m.depth[r] \in Nat
  <2>1. \A k \in 1 .. N : k \in Nat
    BY OpenFacts
  <2>2. QED
    BY <1>0, <2>1
<1>2. CASE m.depth[r] = 0
  <2>1. PICK stray : stray = m.stray \cup {r}
    OBVIOUS
  <2>2. Exited(m, r) = [row |-> m.row, depth |-> m.depth, save |-> m.save, count |-> m.count,
                        pending |-> m.pending, stray |-> stray, dropped |-> m.dropped]
    <3>1. Exited(m, r) = [m EXCEPT !.stray = stray]
      BY <1>2, <2>1 DEF Exited
    <3>2. QED
      BY <3>1, RuntimeFields
  <2>3. QED
    BY <1>0, <2>2, RuntimeIntro
<1>3. CASE m.depth[r] > 1
  <2>1. PICK depth : depth = [m.depth EXCEPT ![r] = @ - 1]
    OBVIOUS
  <2>2. Exited(m, r) = [row |-> m.row, depth |-> depth, save |-> m.save, count |-> m.count,
                        pending |-> m.pending, stray |-> m.stray, dropped |-> m.dropped]
    <3>1. Exited(m, r) = [m EXCEPT !.depth = depth]
      BY <1>1, <1>3, <2>1, RuntimeFields DEF Exited
    <3>2. QED
      BY <3>1, RuntimeFields
  <2>3. \A q \in 1 .. N : depth[q] = IF q = r THEN m.depth[r] - 1 ELSE m.depth[q]
    BY <1>0, <2>1
  <2>4. depth \in [1 .. N -> Nat]
    BY <1>0, <1>1, <1>3, <2>1
  <2>5. {q \in 1 .. N : depth[q] > 0} = Open(m)
    BY <1>0, <1>1, <1>3, <2>3
  <2>6. Len(m.save) = Cardinality({q \in 1 .. N : depth[q] > 0})
    BY <1>0, <2>5
  <2>7. m.row \in Nat /\ m.save \in Seq(Nat)
    BY <1>0
  <2>8. QED
    BY <2>2, <2>4, <2>6, <2>7, RuntimeIntro
<1>4. CASE m.depth[r] = 1
  <2>1. PICK depth : depth = [m.depth EXCEPT ![r] = 0]
    OBVIOUS
  <2>2. PICK row : row = Last(m.save)
    OBVIOUS
  <2>3. PICK save : save = Front(m.save)
    OBVIOUS
  <2>4. Exited(m, r) = [row |-> row, depth |-> depth, save |-> save, count |-> m.count,
                        pending |-> m.pending, stray |-> m.stray, dropped |-> m.dropped]
    <3>1. Exited(m, r) = [m EXCEPT !.depth = depth, !.row = row, !.save = save]
      BY <1>4, <2>1, <2>2, <2>3, RuntimeFields DEF Exited
    <3>2. QED
      BY <3>1, RuntimeExcept
  <2>5. \A q \in 1 .. N : depth[q] = IF q = r THEN 0 ELSE m.depth[q]
    BY <1>0, <2>1
  <2>6. depth \in [1 .. N -> Nat]
    BY <1>0, <2>1
  <2>7. {q \in 1 .. N : depth[q] > 0} = Open(m) \ {r} /\ r \in Open(m)
    BY <1>0, <1>4, <2>5
  <2>8. Cardinality(Open(m) \ {r}) = Cardinality(Open(m)) - 1
    BY <2>7, OpenFacts, FS_RemoveElement
  <2>9. Cardinality(Open(m)) # 0
    BY <2>7, OpenFacts, FS_EmptySet
  <2>10. m.save \in Seq(Nat) /\ Len(m.save) \in Nat \ {0}
    BY <1>0, <2>9, OpenFacts
  <2>11. row \in Nat
    BY <2>2, <2>10, ElementOfSeq DEF Last
  <2>12. save \in Seq(Nat) /\ Len(save) = Len(m.save) - 1
    BY <2>3, <2>10, SubSeqProperties DEF Front
  <2>13. Len(save) = Cardinality({q \in 1 .. N : depth[q] > 0})
    BY <1>0, <2>7, <2>8, <2>12
  <2>14. QED
    BY <2>4, <2>6, <2>11, <2>12, <2>13, RuntimeIntro
<1>5. QED
  BY <1>1, <1>2, <1>3, <1>4

LEMMA HappenedFacts ==
  ASSUME NEW m, IsRuntime(m), NEW e \in Events
  PROVE  IsRuntime(Happened(m, e))
<1>0. /\ m.row \in Nat /\ m.depth \in [1 .. N -> Nat] /\ m.save \in Seq(Nat)
      /\ Open(m) = {q \in 1 .. N : m.depth[q] > 0}
      /\ Len(m.save) = Cardinality(Open(m))
      /\ Len(m.save) = Cardinality({q \in 1 .. N : m.depth[q] > 0})
  BY RuntimeTypes
<1>1. /\ e.region \in 1 .. N
      /\ e.op \in {"enter", "count", "hoist"}
  BY DEF Events
<1>2. CASE e.op = "enter"
  <2>1. Happened(m, e) = Entered(m, e.region)
    BY <1>2 DEF Happened
  <2>2. QED
    BY <1>1, <2>1, EnteredFacts
<1>3. CASE e.op = "count"
  <2>1. Happened(m, e) = Counted(m, e)
    BY <1>3 DEF Happened
  <2>2. PICK count, dropped :
          Counted(m, e) = [row |-> m.row, depth |-> m.depth, save |-> m.save, count |-> count,
                           pending |-> m.pending, stray |-> m.stray, dropped |-> dropped]
    BY RuntimeFields DEF Counted
  <2>3. QED
    BY <1>0, <2>1, <2>2, RuntimeIntro
<1>4. CASE e.op = "hoist"
  <2>1. Happened(m, e) = Hoisted(m, e)
    BY <1>4 DEF Happened
  <2>2. PICK pending, dropped :
          Hoisted(m, e) = [row |-> m.row, depth |-> m.depth, save |-> m.save, count |-> m.count,
                           pending |-> pending, stray |-> m.stray, dropped |-> dropped]
    BY RuntimeFields DEF Hoisted
  <2>3. /\ m.row \in Nat /\ m.depth \in [1 .. N -> Nat] /\ m.save \in Seq(Nat)
        /\ Len(m.save) = Cardinality({r \in 1 .. N : m.depth[r] > 0})
    BY <1>0
  <2>4. QED
    BY <2>1, <2>2, <2>3, RuntimeIntro
<1>5. QED
  BY <1>1, <1>2, <1>3, <1>4

LEMMA IteratedFacts ==
  ASSUME NEW m, IsRuntime(m), NEW b
  PROVE  IsRuntime(Iterated(m, b))
<1>0. /\ m.row \in Nat /\ m.depth \in [1 .. N -> Nat] /\ m.save \in Seq(Nat)
      /\ Open(m) = {q \in 1 .. N : m.depth[q] > 0}
      /\ Len(m.save) = Cardinality(Open(m))
      /\ Len(m.save) = Cardinality({q \in 1 .. N : m.depth[q] > 0})
  BY RuntimeTypes
<1>1. PICK count : count = FoldSet(LAMBDA p, bag : Added(bag, p.slot), m.count,
                                   {p \in m.pending : p.loop = b})
  OBVIOUS
<1>2. Iterated(m, b) = [m EXCEPT !.count = count]
  BY <1>1 DEF Iterated
<1>3. Iterated(m, b) = [row |-> m.row, depth |-> m.depth, save |-> m.save, count |-> count,
                        pending |-> m.pending, stray |-> m.stray, dropped |-> m.dropped]
  BY <1>2, RuntimeFields
<1>4. QED
  BY <1>0, <1>3, RuntimeIntro

(* All events of a block.                                                  *)
IsHappenedFold(f, D, base, s) ==
  f = [d \in SUBSET D |-> IF d = {} THEN base ELSE Happened(f[d \ {Max(d)}], s[Max(d)])]

LEMMA HappenedExists ==
  ASSUME NEW n \in Nat, NEW base, NEW s
  PROVE  \E f : IsHappenedFold(f, 1 .. n, base, s)
<1> DEFINE P == {k \in 0 .. n :
                   \E f : f = [d \in SUBSET (1 .. k) |->
                               IF d = {} THEN base ELSE Happened(f[d \ {Max(d)}], s[Max(d)])]}
<1>1. 0 \in P
  <2> DEFINE f == [d \in SUBSET (1 .. 0) |-> base]
  <2>1. f = [d \in SUBSET (1 .. 0) |->
               IF d = {} THEN base ELSE Happened(f[d \ {Max(d)}], s[Max(d)])]
    <3>1. \A d \in SUBSET (1 .. 0) : d = {}
      OBVIOUS
    <3>2. QED
      BY <3>1
  <2> HIDE DEF f
  <2>2. QED
    BY <2>1
<1>2. ASSUME NEW k \in 1 .. n, k - 1 \in P
      PROVE  k \in P
  <2>1. PICK f : f = [d \in SUBSET (1 .. k - 1) |->
                        IF d = {} THEN base ELSE Happened(f[d \ {Max(d)}], s[Max(d)])]
    BY <1>2
  <2> DEFINE g == [d \in SUBSET (1 .. k) |-> IF k \in d THEN Happened(f[d \ {k}], s[k]) ELSE f[d]]
  <2>2. ASSUME NEW d \in SUBSET (1 .. k)
        PROVE  g[d] = IF d = {} THEN base ELSE Happened(g[d \ {Max(d)}], s[Max(d)])
    <3>1. CASE k \notin d
      <4>1. d \in SUBSET (1 .. k - 1)
        BY <3>1
      <4>2. d \ {Max(d)} \in SUBSET (1 .. k) /\ k \notin d \ {Max(d)}
        BY <3>1
      <4>3. f[d] = IF d = {} THEN base ELSE Happened(f[d \ {Max(d)}], s[Max(d)])
        BY <2>1, <4>1
      <4>4. g[d] = f[d] /\ g[d \ {Max(d)}] = f[d \ {Max(d)}]
        BY <3>1, <4>2
      <4>5. QED
        BY <4>3, <4>4
    <3>2. CASE k \in d
      <4>1. Max(d) \in d /\ \A x \in d : x <= Max(d)
        <5>1. k \in Nat /\ d \subseteq 1 .. k /\ d # {}
          BY <3>2
        <5>2. QED
          BY <5>1, MaxIsGreatest
      <4>2. Max(d) \in 1 .. k /\ k <= Max(d)
        BY <3>2, <4>1
      <4>3. Max(d) = k
        BY <4>2
      <4>4. d \ {k} \in SUBSET (1 .. k) /\ k \notin d \ {k}
        OBVIOUS
      <4>5. g[d] = Happened(f[d \ {k}], s[k]) /\ g[d \ {k}] = f[d \ {k}]
        BY <3>2, <4>4
      <4>6. QED
        BY <3>2, <4>3, <4>5
    <3>3. QED
      BY <3>1, <3>2
  <2>3. g = [d \in SUBSET (1 .. k) |->
               IF d = {} THEN base ELSE Happened(g[d \ {Max(d)}], s[Max(d)])]
    BY <2>2
  <2>4. k \in 0 .. n
    OBVIOUS
  <2> HIDE DEF g
  <2>5. QED
    BY <2>3, <2>4
<1> HIDE DEF P
<1>3. \A k \in 0 .. n : k \in P
  BY <1>1, <1>2, Climb
<1>4. n \in P
  BY <1>3
<1>5. QED
  BY <1>4 DEF P, IsHappenedFold

LEMMA HappenedAllFacts ==
  ASSUME NEW base, IsRuntime(base), NEW s \in Seq(Events)
  PROVE  IsRuntime(FoldLeft(Happened, base, s))
<1> DEFINE n == Len(s)
           It == CHOOSE iter : iter = [d \in SUBSET DOMAIN s |->
                   IF d = {} THEN base ELSE Happened(iter[d \ {Max(d)}], s[Max(d)])]
           P == {k \in 0 .. n : IsRuntime(It[1 .. k])}
<1>1. n \in Nat /\ DOMAIN s = 1 .. n /\ \A k \in 1 .. n : s[k] \in Events
  <2>1. PICK T : T = Events
    OBVIOUS
  <2>2. s \in Seq(T)
    BY <2>1
  <2>3. Len(s) \in Nat /\ DOMAIN s = 1 .. Len(s) /\ \A k \in 1 .. Len(s) : s[k] \in T
    BY <2>2, ElementOfSeq
  <2>4. QED
    BY <2>1, <2>3
<1>2. FoldLeft(Happened, base, s) = It[DOMAIN s]
  BY DEF FoldLeft, MapThenFoldSet
<1>3. \E f : f = [d \in SUBSET DOMAIN s |->
                  IF d = {} THEN base ELSE Happened(f[d \ {Max(d)}], s[Max(d)])]
  <2> HIDE DEF n
  <2>1. \E f : IsHappenedFold(f, 1 .. n, base, s)
    BY <1>1, HappenedExists
  <2>2. QED
    BY <1>1, <2>1 DEF IsHappenedFold
<1>4. It = [d \in SUBSET DOMAIN s |->
              IF d = {} THEN base ELSE Happened(It[d \ {Max(d)}], s[Max(d)])]
  BY <1>3
<1> HIDE DEF It, n
<1>5. It[1 .. 0] = base
  <2>1. 1 .. 0 = {} /\ {} \in SUBSET DOMAIN s
    OBVIOUS
  <2>2. QED
    BY <1>4, <2>1
<1>6. ASSUME NEW k \in 1 .. n, k - 1 \in P
      PROVE  k \in P
  <2>1. Max(1 .. k) = k /\ (1 .. k) \ {k} = 1 .. k - 1
    BY <1>1, MaxOfInterval
  <2>2. 1 .. k \in SUBSET (1 .. n) /\ 1 .. k # {} /\ k \in 0 .. n
    <3>1. n \in Nat
      BY <1>1
    <3>2. QED
      BY <3>1
  <2>3. It[1 .. k] = Happened(It[1 .. k - 1], s[k])
    BY <1>1, <1>4, <2>1, <2>2
  <2>4. IsRuntime(It[1 .. k - 1])
    BY <1>6
  <2>5. IsRuntime(Happened(It[1 .. k - 1], s[k]))
    BY <1>1, <2>4, HappenedFacts
  <2>6. QED
    BY <2>2, <2>3, <2>5
<1>7. 0 \in P
  BY <1>1, <1>5
<1> HIDE DEF P
<1>8. \A k \in 0 .. n : k \in P
  BY <1>1, <1>6, <1>7, Climb
<1>9. IsRuntime(It[1 .. n])
  BY <1>1, <1>8 DEF P
<1>10. QED
  BY <1>1, <1>2, <1>9

(* All its exits.                                                          *)
IsExitedFold(f, D, base, s) ==
  f = [d \in SUBSET D |-> IF d = {} THEN base ELSE Exited(f[d \ {Max(d)}], s[Max(d)])]

LEMMA ExitedExists ==
  ASSUME NEW n \in Nat, NEW base, NEW s
  PROVE  \E f : IsExitedFold(f, 1 .. n, base, s)
<1> DEFINE P == {k \in 0 .. n :
                   \E f : f = [d \in SUBSET (1 .. k) |->
                               IF d = {} THEN base ELSE Exited(f[d \ {Max(d)}], s[Max(d)])]}
<1>1. 0 \in P
  <2> DEFINE f == [d \in SUBSET (1 .. 0) |-> base]
  <2>1. f = [d \in SUBSET (1 .. 0) |->
               IF d = {} THEN base ELSE Exited(f[d \ {Max(d)}], s[Max(d)])]
    <3>1. \A d \in SUBSET (1 .. 0) : d = {}
      OBVIOUS
    <3>2. QED
      BY <3>1
  <2> HIDE DEF f
  <2>2. QED
    BY <2>1
<1>2. ASSUME NEW k \in 1 .. n, k - 1 \in P
      PROVE  k \in P
  <2>1. PICK f : f = [d \in SUBSET (1 .. k - 1) |->
                        IF d = {} THEN base ELSE Exited(f[d \ {Max(d)}], s[Max(d)])]
    BY <1>2
  <2> DEFINE g == [d \in SUBSET (1 .. k) |-> IF k \in d THEN Exited(f[d \ {k}], s[k]) ELSE f[d]]
  <2>2. ASSUME NEW d \in SUBSET (1 .. k)
        PROVE  g[d] = IF d = {} THEN base ELSE Exited(g[d \ {Max(d)}], s[Max(d)])
    <3>1. CASE k \notin d
      <4>1. d \in SUBSET (1 .. k - 1)
        BY <3>1
      <4>2. d \ {Max(d)} \in SUBSET (1 .. k) /\ k \notin d \ {Max(d)}
        BY <3>1
      <4>3. f[d] = IF d = {} THEN base ELSE Exited(f[d \ {Max(d)}], s[Max(d)])
        BY <2>1, <4>1
      <4>4. g[d] = f[d] /\ g[d \ {Max(d)}] = f[d \ {Max(d)}]
        BY <3>1, <4>2
      <4>5. QED
        BY <4>3, <4>4
    <3>2. CASE k \in d
      <4>1. Max(d) \in d /\ \A x \in d : x <= Max(d)
        <5>1. k \in Nat /\ d \subseteq 1 .. k /\ d # {}
          BY <3>2
        <5>2. QED
          BY <5>1, MaxIsGreatest
      <4>2. Max(d) \in 1 .. k /\ k <= Max(d)
        BY <3>2, <4>1
      <4>3. Max(d) = k
        BY <4>2
      <4>4. d \ {k} \in SUBSET (1 .. k) /\ k \notin d \ {k}
        OBVIOUS
      <4>5. g[d] = Exited(f[d \ {k}], s[k]) /\ g[d \ {k}] = f[d \ {k}]
        BY <3>2, <4>4
      <4>6. QED
        BY <3>2, <4>3, <4>5
    <3>3. QED
      BY <3>1, <3>2
  <2>3. g = [d \in SUBSET (1 .. k) |->
               IF d = {} THEN base ELSE Exited(g[d \ {Max(d)}], s[Max(d)])]
    BY <2>2
  <2>4. k \in 0 .. n
    OBVIOUS
  <2> HIDE DEF g
  <2>5. QED
    BY <2>3, <2>4
<1> HIDE DEF P
<1>3. \A k \in 0 .. n : k \in P
  BY <1>1, <1>2, Climb
<1>4. n \in P
  BY <1>3
<1>5. QED
  BY <1>4 DEF P, IsExitedFold

LEMMA ExitedAllFacts ==
  ASSUME NEW base, IsRuntime(base), NEW s \in Seq((1 .. N))
  PROVE  IsRuntime(FoldLeft(Exited, base, s))
<1> DEFINE n == Len(s)
           It == CHOOSE iter : iter = [d \in SUBSET DOMAIN s |->
                   IF d = {} THEN base ELSE Exited(iter[d \ {Max(d)}], s[Max(d)])]
           P == {k \in 0 .. n : IsRuntime(It[1 .. k])}
<1>1. n \in Nat /\ DOMAIN s = 1 .. n /\ \A k \in 1 .. n : s[k] \in (1 .. N)
  <2>1. PICK T : T = (1 .. N)
    OBVIOUS
  <2>2. s \in Seq(T)
    BY <2>1
  <2>3. Len(s) \in Nat /\ DOMAIN s = 1 .. Len(s) /\ \A k \in 1 .. Len(s) : s[k] \in T
    BY <2>2, ElementOfSeq
  <2>4. QED
    BY <2>1, <2>3
<1>2. FoldLeft(Exited, base, s) = It[DOMAIN s]
  BY DEF FoldLeft, MapThenFoldSet
<1>3. \E f : f = [d \in SUBSET DOMAIN s |->
                  IF d = {} THEN base ELSE Exited(f[d \ {Max(d)}], s[Max(d)])]
  <2> HIDE DEF n
  <2>1. \E f : IsExitedFold(f, 1 .. n, base, s)
    BY <1>1, ExitedExists
  <2>2. QED
    BY <1>1, <2>1 DEF IsExitedFold
<1>4. It = [d \in SUBSET DOMAIN s |->
              IF d = {} THEN base ELSE Exited(It[d \ {Max(d)}], s[Max(d)])]
  BY <1>3
<1> HIDE DEF It, n
<1>5. It[1 .. 0] = base
  <2>1. 1 .. 0 = {} /\ {} \in SUBSET DOMAIN s
    OBVIOUS
  <2>2. QED
    BY <1>4, <2>1
<1>6. ASSUME NEW k \in 1 .. n, k - 1 \in P
      PROVE  k \in P
  <2>1. Max(1 .. k) = k /\ (1 .. k) \ {k} = 1 .. k - 1
    BY <1>1, MaxOfInterval
  <2>2. 1 .. k \in SUBSET (1 .. n) /\ 1 .. k # {} /\ k \in 0 .. n
    <3> HIDE DEF P
    <3>1. n \in Nat
      BY <1>1
    <3>2. 1 .. k \subseteq 1 .. n
      BY <3>1
    <3>3. k \in 1 .. k /\ k \in 0 .. n
      BY <3>1
    <3>4. QED
      BY <3>2, <3>3
  <2>3. It[1 .. k] = Exited(It[1 .. k - 1], s[k])
    BY <1>1, <1>4, <2>1, <2>2
  <2>4. IsRuntime(It[1 .. k - 1])
    BY <1>6
  <2>5. IsRuntime(Exited(It[1 .. k - 1], s[k]))
    BY <1>1, <2>4, ExitedFacts
  <2>6. QED
    BY <2>2, <2>3, <2>5
<1>7. 0 \in P
  BY <1>1, <1>5
<1> HIDE DEF P
<1>8. \A k \in 0 .. n : k \in P
  BY <1>1, <1>6, <1>7, Climb
<1>9. IsRuntime(It[1 .. n])
  BY <1>1, <1>8 DEF P
<1>10. QED
  BY <1>1, <1>2, <1>9

-----------------------------------------------------------------------------
(* The steps of the pass.                                                  *)

LEMMA SeqIntro ==
  ASSUME NEW S, NEW n \in Nat, NEW f \in [1 .. n -> S]
  PROVE  f \in Seq(S) /\ Len(f) = n
OBVIOUS

LEMMA SplitState ==
  ASSUME Split
  PROVE  /\ succ \in Graphs /\ Len(succ) \in Nat \ {0} /\ Blocks = 1 .. Len(succ)
         /\ BlocksOf(succ) = Blocks /\ Entry \in Blocks
         /\ \A b \in Blocks : succ[b] \in Seq(Blocks)
         /\ body \in Seq(Seq(Instr)) /\ Len(body) = Len(succ)
         /\ \A b \in Blocks : body[b] \in Seq(Instr) /\ Len(body[b]) \in Nat
                              /\ DOMAIN body[b] = 1 .. Len(body[b])
<1>1. succ \in Graphs /\ body \in Seq(Seq(Instr)) /\ Len(body) = Len(succ)
  BY DEF Split
<1>2. Blocks = BlocksOf(succ)
  BY DEF Blocks, BlocksOf
<1>3. /\ Len(succ) \in Nat \ {0} /\ Blocks = 1 .. Len(succ) /\ Entry \in Blocks
      /\ \A b \in Blocks : succ[b] \in Seq(Blocks)
  BY <1>1, <1>2, GraphFacts
<1>4. ASSUME NEW b \in Blocks
      PROVE  body[b] \in Seq(Instr) /\ Len(body[b]) \in Nat /\ DOMAIN body[b] = 1 .. Len(body[b])
  <2>1. b \in 1 .. Len(body)
    BY <1>1, <1>3
  <2>2. body[b] \in Seq(Instr)
    BY <1>1, <2>1
  <2>3. QED
    BY <2>2
<1>5. QED
  BY <1>1, <1>2, <1>3, <1>4

(* What a cut leaves of a block is split.                                  *)
LEMMA CutsFacts ==
  ASSUME Split, NEW b \in Blocks
  PROVE  /\ Cuts(b) = {} => Shaped(body[b])
         /\ Cuts(b) # {} =>
              /\ Min(Cuts(b)) \in 1 .. Len(body[b])
              /\ Shaped(SubSeq(body[b], 1, Min(Cuts(b))))
<1>1. PICK code, n : code = body[b] /\ n = Len(body[b])
  OBVIOUS
<1>2. code \in Seq(Instr) /\ n \in Nat /\ n = Len(code) /\ DOMAIN code = 1 .. n
  BY <1>1, SplitState
<1>3. Cuts(b) = {i - 1 : i \in {j \in 2 .. n : code[j].op = "begin"}}
                  \cup {i \in 1 .. n : code[i].op = "end"}
  BY <1>1, <1>2 DEF Cuts
<1>4. /\ \A i \in 1 .. n : code[i].op = "end" => i \in Cuts(b)
      /\ \A i \in 1 .. n : code[i].op = "begin" /\ i # 1 => i - 1 \in Cuts(b)
      /\ \A i \in Cuts(b) : i \in 1 .. n
  <2>1. \A i \in 1 .. n : i # 1 => i \in 2 .. n
    BY <1>2
  <2>2. \A i \in 2 .. n : i - 1 \in 1 .. n
    BY <1>2
  <2>3. QED
    BY <1>3, <2>1, <2>2
<1>5. CASE Cuts(b) = {}
  <2>1. Shaped(code)
    BY <1>2, <1>4, <1>5 DEF Shaped
  <2>2. QED
    BY <1>1, <1>5, <2>1
<1>6. CASE Cuts(b) # {}
  <2>1. PICK keep : keep = Min(Cuts(b))
    OBVIOUS
  <2>2. keep \in Cuts(b) /\ \A x \in Cuts(b) : keep <= x
    <3>1. \A i \in Cuts(b) : i \in Nat
      BY <1>2, <1>4
    <3>2. Cuts(b) \subseteq Nat
      BY <3>1
    <3>3. QED
      BY <1>6, <2>1, <3>2, MinIsLeast
  <2>3. keep \in 1 .. n
    BY <1>4, <2>2
  <2>4. PICK part : part = SubSeq(code, 1, keep)
    OBVIOUS
  <2>5. DOMAIN part = 1 .. keep /\ Len(part) = keep /\ \A i \in 1 .. keep : part[i] = code[i]
    BY <1>2, <2>3, <2>4
  <2>6. ASSUME NEW i \in 1 .. keep
        PROVE  (part[i].op = "begin" => i = 1) /\ (part[i].op = "end" => i = keep)
    <3>1. i \in 1 .. n /\ i \in Nat /\ keep \in Nat /\ i <= keep
      BY <1>2, <2>3
    <3>2. part[i].op = code[i].op
      BY <2>5
    <3>3. code[i].op = "begin" => i = 1
      <4>1. SUFFICES ASSUME code[i].op = "begin", i # 1 PROVE FALSE
        OBVIOUS
      <4>2. i - 1 \in Cuts(b)
        BY <1>4, <3>1, <4>1
      <4>3. keep <= i - 1
        BY <2>2, <4>2
      <4>4. QED
        BY <3>1, <4>3
    <3>4. code[i].op = "end" => i = keep
      <4>1. SUFFICES ASSUME code[i].op = "end" PROVE keep <= i
        BY <3>1
      <4>2. i \in Cuts(b)
        BY <1>4, <3>1, <4>1
      <4>3. QED
        BY <2>2, <4>2
    <3>5. QED
      BY <3>2, <3>3, <3>4
  <2>7. Shaped(part)
    BY <2>5, <2>6 DEF Shaped
  <2>8. QED
    BY <1>1, <1>6, <2>1, <2>3, <2>4, <2>7
<1>7. QED
  BY <1>5, <1>6

LEMMA SplitBlockFacts ==
  ASSUME Split, NEW b \in Blocks, b \in unsplit, stage = "split", Cuts(b) # {},
         SplitBlock(b, Min(Cuts(b))), stage' = stage
  PROVE  Split' /\ Blocks \subseteq Blocks'
<1>1. PICK n, keep, left, right :
        /\ n = Len(succ) + 1 /\ keep = Min(Cuts(b))
        /\ left = SubSeq(body[b], 1, keep)
        /\ right = SubSeq(body[b], keep + 1, Len(body[b]))
  OBVIOUS
<1>2. /\ succ' = Append([succ EXCEPT ![b] = <<n>>], succ[b])
      /\ body' = Append([body EXCEPT ![b] = left], right)
      /\ unsplit' = (unsplit \ {b}) \cup {n}
  BY <1>1 DEF SplitBlock
<1>3. /\ succ \in Graphs /\ Len(succ) \in Nat \ {0} /\ n \in Nat /\ Blocks = 1 .. n - 1
      /\ body \in Seq(Seq(Instr)) /\ Len(body) = n - 1
      /\ body[b] \in Seq(Instr) /\ Len(body[b]) \in Nat
  BY <1>1, SplitState
<1>4. keep \in 1 .. Len(body[b]) /\ Shaped(left)
  BY <1>1, CutsFacts
<1>5. left \in Seq(Instr) /\ right \in Seq(Instr)
  <2>1. PICK T : T = Instr
    OBVIOUS
  <2>2. PICK code : code = body[b]
    OBVIOUS
  <2>3. code \in Seq(T) /\ keep \in 1 .. Len(code) /\ Len(code) \in Nat
    BY <1>3, <1>4, <2>1, <2>2
  <2>4. SubSeq(code, 1, keep) \in Seq(T) /\ SubSeq(code, keep + 1, Len(code)) \in Seq(T)
    <3>1. \A i \in 1 .. keep : code[i] \in T
      BY <2>3, ElementOfSeq
    <3>2. \A i \in keep + 1 .. Len(code) : code[i] \in T
      BY <2>3, ElementOfSeq
    <3>3. QED
      BY <2>3, <3>1, <3>2, SubSeqProperties
  <2>5. QED
    BY <1>1, <2>1, <2>2, <2>4
<1>6. succ' \in Graphs /\ Len(succ') = n
  <2>1. PICK w : w = [succ EXCEPT ![b] = <<n>>]
    OBVIOUS
  <2>2. succ \in Rows(n) /\ n \in 1 .. n /\ succ[b] \in Seq(1 .. n) /\ b \in 1 .. n - 1
    BY <1>1, <1>3, RowsOf
  <2>3. <<n>> \in Seq(1 .. n)
    BY <2>2
  <2>4. w \in Rows(n)
    BY <2>1, <2>2, <2>3 DEF Rows
  <2>5. QED
    BY <1>1, <1>2, <1>3, <2>1, <2>2, <2>4, GraphGrows
<1>7. Blocks' = 1 .. n
  <2>1. BlocksOf(succ') = 1 .. n
    BY <1>6, GraphFacts
  <2>2. QED
    BY <2>1 DEF Blocks, BlocksOf
<1>8. PICK w : w = [body EXCEPT ![b] = left]
  OBVIOUS
<1>9. /\ w \in Seq(Seq(Instr)) /\ Len(w) = n - 1
      /\ w[b] = left /\ \A c \in 1 .. n - 1 : c # b => w[c] = body[c]
  <2>1. PICK T : T = Seq(Instr)
    OBVIOUS
  <2>2. body \in Seq(T) /\ left \in T /\ b \in 1 .. Len(body) /\ DOMAIN body = 1 .. n - 1
    BY <1>3, <1>5, <2>1
  <2>3. w \in Seq(T) /\ Len(w) = n - 1
    BY <1>3, <1>8, <2>2, ExceptSeq
  <2>4. w[b] = left /\ \A c \in 1 .. n - 1 : c # b => w[c] = body[c]
    BY <1>8, <2>2, <1>3
  <2>5. QED
    BY <2>1, <2>3, <2>4
<1>10. /\ body' \in Seq(Seq(Instr)) /\ Len(body') = n
       /\ body'[b] = left /\ \A c \in 1 .. n - 1 : c # b => body'[c] = body[c]
  <2>1. PICK T : T = Seq(Instr)
    OBVIOUS
  <2>2. w \in Seq(T) /\ right \in T /\ Len(w) = n - 1
    BY <1>5, <1>9, <2>1
  <2>3. /\ Append(w, right) \in Seq(T) /\ Len(Append(w, right)) = n
        /\ \A c \in 1 .. n - 1 : Append(w, right)[c] = w[c]
    BY <1>3, <2>2, AppendProperties
  <2>4. QED
    BY <1>2, <1>3, <1>8, <1>9, <2>1, <2>3
<1>11. ASSUME NEW c \in Blocks', c \notin unsplit'
       PROVE  Shaped(body'[c])
  <2>1. c \in 1 .. n - 1
    BY <1>2, <1>3, <1>7, <1>11
  <2>2. CASE c = b
    BY <1>4, <1>10, <2>2
  <2>3. CASE c # b
    <3>1. c \in Blocks \ unsplit
      BY <1>2, <1>3, <1>11, <2>1, <2>3
    <3>2. Shaped(body[c])
      BY <3>1 DEF Split
    <3>3. QED
      BY <1>10, <2>1, <2>3, <3>2
  <2>4. QED
    BY <2>2, <2>3
<1>12. unsplit' \subseteq Blocks'
  <2>1. unsplit \subseteq Blocks
    BY DEF Split
  <2>2. \A c \in 1 .. n - 1 : c \in 1 .. n
    BY <1>3
  <2>3. n \in 1 .. n
    BY <1>1, <1>3
  <2>4. QED
    BY <1>2, <1>3, <1>7, <2>1, <2>2, <2>3
<1>13. stage' = "split" /\ Len(body') = Len(succ')
  BY <1>6, <1>10
<1>14. Split'
  BY <1>6, <1>10, <1>11, <1>12, <1>13 DEF Split
<1>15. Blocks \subseteq Blocks'
  <2>1. \A c \in 1 .. n - 1 : c \in 1 .. n
    BY <1>3
  <2>2. QED
    BY <1>3, <1>7, <2>1
<1>16. QED
  BY <1>14, <1>15

(* Nothing but the discovery of the regions.                               *)
Still == UNCHANGED <<region, head, sets, at, steps, runtime, ran, within>>

LEMMA SplitInstrumentedBlocksPreserves ==
  ASSUME IInv, splitInstrumentedBlocks, Still
  PROVE  IInv'
<1>1. Split /\ Recorded /\ Placed /\ Running
  BY DEF IInv
<1>2. /\ stage = "split" /\ unsplit # {} /\ stage' = stage
      /\ UNCHANGED <<OrderedCFG, todo, BasicBlocksVisited, BasicBlockGroupList, exits>>
  BY DEF splitInstrumentedBlocks
<1>3. PICK b : b = Min(unsplit)
  OBVIOUS
<1>4. b \in unsplit /\ b \in Blocks
  <2>1. unsplit \subseteq Blocks
    BY <1>1 DEF Split
  <2>2. \A c \in Blocks : c \in Nat
    BY <1>1, SplitState
  <2>3. unsplit \subseteq Nat
    BY <2>1, <2>2
  <2>4. QED
    BY <1>2, <1>3, <2>1, <2>3, MinIsLeast
<1>5. IF Cuts(b) = {} THEN unsplit' = unsplit \ {b} /\ UNCHANGED <<succ, body>>
      ELSE SplitBlock(b, Min(Cuts(b)))
  BY <1>3 DEF splitInstrumentedBlocks
<1>6. Split' /\ Blocks \subseteq Blocks'
  <2>1. CASE Cuts(b) = {}
    <3>1. unsplit' = unsplit \ {b} /\ succ' = succ /\ body' = body /\ Blocks' = Blocks
      BY <1>5, <2>1 DEF Blocks
    <3>2. Shaped(body[b])
      BY <1>1, <1>4, <2>1, CutsFacts
    <3>3. \A c \in Blocks \ unsplit : Shaped(body[c])
      BY <1>1 DEF Split
    <3>4. \A c \in Blocks' \ unsplit' : Shaped(body'[c])
      BY <3>1, <3>2, <3>3
    <3>5. unsplit' \subseteq Blocks'
      BY <1>1, <3>1 DEF Split
    <3>6. /\ succ \in Graphs /\ body \in Seq(Seq(Instr)) /\ Len(body) = Len(succ)
      BY <1>1, SplitState
    <3>7. QED
      BY <1>2, <3>1, <3>4, <3>5, <3>6 DEF Split
  <2>2. CASE Cuts(b) # {}
    <3>1. SplitBlock(b, Min(Cuts(b)))
      BY <1>5, <2>2
    <3>2. QED
      BY <1>1, <1>2, <1>4, <2>2, <3>1, SplitBlockFacts
  <2>3. QED
    BY <2>1, <2>2
<1>7. Recorded'
  <2>1. Regions' = Regions /\ \A r : BBList(r)' = BBList(r)
    BY <1>2 DEF Regions, BBList
  <2>2. QED
    BY <1>1, <1>2, <2>1 DEF Recorded
<1>8. Placed'
  <2>1. \A r : BBList(r)' = BBList(r)
    BY <1>2 DEF BBList
  <2>2. Ready' => FALSE
    BY <1>2 DEF Ready
  <2>3. QED
    BY <1>1, <1>2, <2>1, <2>2 DEF Placed, Still
<1>9. Running'
  BY <1>1, <1>6 DEF Running, Still
<1>10. QED
  BY <1>6, <1>7, <1>8, <1>9 DEF IInv

LEMMA RecalculatePreserves ==
  ASSUME IInv, Recalculate, Still
  PROVE  IInv'
<1>1. Split /\ Recorded /\ Placed /\ Running
  BY DEF IInv
<1>2. /\ stage = "split" /\ unsplit = {} /\ stage' = "record"
      /\ UNCHANGED <<succ, body, unsplit, BasicBlocksVisited, BasicBlockGroupList>>
      /\ OrderedCFG' = orderBasicBlocks(succ)
      /\ todo' = <<[bb |-> OrderedCFG'[1], open |-> [g \in GroupIDs |-> 0]]>>
      /\ exits' = [b \in Blocks |-> <<>>]
  BY DEF Recalculate
<1>3. Blocks' = Blocks
  BY <1>2 DEF Blocks
<1>4. Split'
  BY <1>1, <1>2, <1>3 DEF Split
<1>5. /\ succ \in Graphs /\ BlocksOf(succ) = Blocks /\ Len(succ) \in Nat /\ Blocks = 1 .. Len(succ)
  BY <1>1, SplitState
<1>6. OrderedCFG' \in Seq(Blocks) /\ OrderedCFG'[1] \in Blocks
  <2>1. PICK order : order = orderBasicBlocks(succ)
    OBVIOUS
  <2>2. order \in Seq(Blocks) /\ order # <<>>
    BY <1>5, <2>1, OrderFacts
  <2>3. order[1] \in Blocks
    <3>1. Len(order) \in Nat /\ Len(order) # 0
      BY <2>2, EmptySeq
    <3>2. QED
      BY <2>2, <3>1, ElementOfSeq
  <2>4. QED
    BY <1>2, <2>1, <2>2, <2>3
<1>7. exits' \in Seq(Seq(1 .. N)) /\ Len(exits') = Len(succ)
  <2>1. PICK T : T = Seq(1 .. N)
    OBVIOUS
  <2>2. <<>> \in T
    BY <2>1
  <2>3. exits' \in [1 .. Len(succ) -> T]
    BY <1>2, <1>5, <2>2
  <2>4. QED
    BY <1>5, <2>1, <2>3, SeqIntro
<1>8. /\ todo' \in Seq([bb : Blocks, open : [GroupIDs -> Nat]])
      /\ \A i \in DOMAIN todo' : \A g \in GroupIDs :
           todo'[i].open[g] > 0 => g \in Known(BasicBlockGroupList)
  <2>1. PICK none : none = [g \in GroupIDs |-> 0]
    OBVIOUS
  <2>2. none \in [GroupIDs -> Nat] /\ \A g \in GroupIDs : none[g] = 0
    BY <2>1
  <2>3. PICK call : call = [bb |-> OrderedCFG'[1], open |-> none]
    OBVIOUS
  <2>4. call \in [bb : Blocks, open : [GroupIDs -> Nat]] /\ call.open = none
    BY <1>6, <2>2, <2>3
  <2>5. todo' = <<call>>
    BY <1>2, <2>1, <2>3
  <2>6. \A i \in DOMAIN todo' : todo'[i] = call
    BY <2>5
  <2>7. QED
    BY <2>2, <2>4, <2>5, <2>6
<1>9. Recorded'
  <2>1. Regions' = Regions /\ \A r : BBList(r)' = BBList(r)
    BY <1>2 DEF Regions, BBList
  <2>2. QED
    BY <1>1, <1>2, <1>3, <1>6, <1>7, <1>8, <2>1 DEF Recorded
<1>10. Placed'
  <2>1. \A r : BBList(r)' = BBList(r)
    BY <1>2 DEF BBList
  <2>2. Ready' => FALSE
    BY <1>2 DEF Ready
  <2>3. QED
    BY <1>1, <1>2, <2>1, <2>2 DEF Placed, Still
<1>11. Running'
  BY <1>1, <1>3 DEF Running, Still
<1>12. QED
  BY <1>4, <1>9, <1>10, <1>11 DEF IInv

(* Block b joins the lists of the groups that are open.                    *)
Listed(list, opened, b) ==
  [i \in DOMAIN list |->
     IF opened[list[i].group] > 0 THEN [list[i] EXCEPT !.blocks = Append(@, b)] ELSE list[i]]

LEMMA ListedFacts ==
  ASSUME NEW B, NEW list \in GroupLists(B), Distinct(list),
         \A r \in DOMAIN list : IsInjective(list[r].blocks),
         NEW opened \in [GroupIDs -> Nat], NEW b, b \notin B
  PROVE  /\ Listed(list, opened, b) \in GroupLists(B \cup {b})
         /\ Len(Listed(list, opened, b)) = Len(list)
         /\ Distinct(Listed(list, opened, b))
         /\ Known(Listed(list, opened, b)) = Known(list)
         /\ \A r \in DOMAIN Listed(list, opened, b) : IsInjective(Listed(list, opened, b)[r].blocks)
<1>1. PICK C, new : C = B \cup {b} /\ new = Listed(list, opened, b)
  OBVIOUS
<1>2. Len(list) \in Nat /\ DOMAIN list = 1 .. Len(list) /\ DOMAIN new = 1 .. Len(list)
  BY <1>1, GroupListFacts DEF Listed
<1>3. ASSUME NEW r \in DOMAIN list
      PROVE  /\ new[r] \in [group : GroupIDs, blocks : Seq(C)]
             /\ new[r].group = list[r].group
             /\ IsInjective(new[r].blocks)
  <2>1. PICK old, was : old = list[r] /\ was = list[r].blocks
    OBVIOUS
  <2>2. /\ old \in [group : GroupIDs, blocks : Seq(B)] /\ was \in Seq(B) /\ IsInjective(was)
        /\ old.blocks = was /\ old.group = list[r].group
    BY <2>1, GroupListFacts
  <2>3. was \in Seq(C) /\ Len(was) \in Nat /\ \A i \in 1 .. Len(was) : was[i] # b
    <3>1. \A i \in 1 .. Len(was) : was[i] \in B
      BY <2>2, ElementOfSeq
    <3>2. QED
      BY <1>1, <2>2, <3>1
  <2>4. CASE opened[old.group] > 0
    <3>1. PICK now : now = Append(was, b)
      OBVIOUS
    <3>2. now \in Seq(C)
      BY <1>1, <2>3, <3>1
    <3>3. IsInjective(now)
      <4>1. /\ DOMAIN now = 1 .. Len(was) + 1 /\ now[Len(was) + 1] = b
            /\ \A i \in 1 .. Len(was) : now[i] = was[i]
        BY <2>3, <3>1
      <4>2. \A i, j \in 1 .. Len(was) : was[i] = was[j] => i = j
        BY <2>2 DEF IsInjective
      <4>3. \A i \in DOMAIN now : i \in 1 .. Len(was) \/ i = Len(was) + 1
        BY <2>3, <4>1
      <4>4. ASSUME NEW i \in DOMAIN now, NEW j \in DOMAIN now, now[i] = now[j]
            PROVE  i = j
        <5>1. CASE i \in 1 .. Len(was) /\ j \in 1 .. Len(was)
          BY <4>1, <4>2, <4>4, <5>1
        <5>2. CASE i = Len(was) + 1 /\ j \in 1 .. Len(was)
          BY <2>3, <4>1, <4>4, <5>2
        <5>3. CASE i \in 1 .. Len(was) /\ j = Len(was) + 1
          BY <2>3, <4>1, <4>4, <5>3
        <5>4. QED
          BY <4>3, <5>1, <5>2, <5>3
      <4>5. QED
        BY <4>4 DEF IsInjective
    <3>4. new[r] = [old EXCEPT !.blocks = now]
      BY <1>1, <2>1, <2>4, <3>1 DEF Listed
    <3>5. new[r] \in [group : GroupIDs, blocks : Seq(C)] /\ new[r].group = old.group /\ new[r].blocks = now
      BY <2>2, <3>2, <3>4
    <3>6. QED
      BY <2>1, <3>3, <3>5
  <2>5. CASE ~(opened[old.group] > 0)
    <3>1. new[r] = old
      BY <1>1, <2>1, <2>5 DEF Listed
    <3>2. old \in [group : GroupIDs, blocks : Seq(C)]
      BY <2>2, <2>3
    <3>3. QED
      BY <2>1, <2>2, <3>1, <3>2
  <2>6. QED
    BY <2>4, <2>5
<1>4. new \in GroupLists(C) /\ Len(new) = Len(list)
  <2>1. PICK T : T = [group : GroupIDs, blocks : Seq(C)]
    OBVIOUS
  <2>2. \A r \in 1 .. Len(list) : new[r] \in T
    BY <1>2, <1>3, <2>1
  <2>3. new = [r \in 1 .. Len(list) |-> new[r]]
    BY <1>1, <1>2 DEF Listed
  <2>4. new \in [1 .. Len(list) -> T]
    BY <2>2, <2>3
  <2>5. new \in Seq(T) /\ Len(new) = Len(list)
    BY <1>2, <2>4, SeqIntro
  <2>6. GroupLists(C) = Seq(T)
    BY <2>1 DEF GroupLists
  <2>7. QED
    BY <2>5, <2>6
<1>5. \A r \in DOMAIN list : new[r].group = list[r].group
  BY <1>3
<1>6. Distinct(new) /\ Known(new) = Known(list)
  BY <1>2, <1>5 DEF Distinct, Known
<1>7. QED
  BY <1>1, <1>2, <1>3, <1>4, <1>6

(* What a call of recordPragmaRegions is handed.                           *)
Calls(B, list) == {c \in [bb : B, open : [GroupIDs -> Nat]] : OpenIsKnown(c.open, list)}

LEMMA CallsGrow ==
  ASSUME NEW B, NEW old, NEW list, Known(old) \subseteq Known(list), NEW s \in Seq(Calls(B, old))
  PROVE  s \in Seq(Calls(B, list))
<1>1. \A c \in Calls(B, old) : c \in Calls(B, list)
  BY DEF Calls, OpenIsKnown
<1>2. PICK S, T : S = Calls(B, old) /\ T = Calls(B, list)
  OBVIOUS
<1>3. s \in Seq(S) /\ \A c \in S : c \in T
  BY <1>1, <1>2
<1>4. s \in Seq(T)
  BY <1>3
<1>5. QED
  BY <1>2, <1>4

LEMMA CallsOf ==
  ASSUME NEW B, NEW list, NEW s
  PROVE  s \in Seq(Calls(B, list)) <=>
           /\ s \in Seq([bb : B, open : [GroupIDs -> Nat]])
           /\ \A i \in DOMAIN s : \A g \in GroupIDs : s[i].open[g] > 0 => g \in Known(list)
<1>1. PICK S, T : S = Calls(B, list) /\ T = [bb : B, open : [GroupIDs -> Nat]]
  OBVIOUS
<1>2. \A c : c \in S <=>
        c \in T /\ \A g \in GroupIDs : c.open[g] > 0 => g \in Known(list)
  BY <1>1 DEF Calls, OpenIsKnown
<1>3. ASSUME s \in Seq(S)
      PROVE  s \in Seq(T) /\ \A i \in DOMAIN s : \A g \in GroupIDs : s[i].open[g] > 0 => g \in Known(list)
  <2>1. \A i \in 1 .. Len(s) : s[i] \in S
    BY <1>3, ElementOfSeq
  <2>2. Len(s) \in Nat /\ DOMAIN s = 1 .. Len(s) /\ s = [i \in 1 .. Len(s) |-> s[i]]
    BY <1>3
  <2>3. s \in [1 .. Len(s) -> T]
    BY <1>2, <2>1, <2>2
  <2>4. s \in Seq(T)
    BY <2>2, <2>3, SeqIntro
  <2>5. QED
    BY <1>2, <2>1, <2>2, <2>4
<1>4. ASSUME s \in Seq(T), \A i \in DOMAIN s : \A g \in GroupIDs : s[i].open[g] > 0 => g \in Known(list)
      PROVE  s \in Seq(S)
  <2>1. \A i \in 1 .. Len(s) : s[i] \in T
    BY <1>4, ElementOfSeq
  <2>2. Len(s) \in Nat /\ DOMAIN s = 1 .. Len(s) /\ s = [i \in 1 .. Len(s) |-> s[i]]
    BY <1>4
  <2>3. s \in [1 .. Len(s) -> S]
    BY <1>2, <1>4, <2>1, <2>2
  <2>4. QED
    BY <2>2, <2>3, SeqIntro
<1>5. QED
  BY <1>1, <1>3, <1>4

LEMMA RecordPragmaRegionsPreserves ==
  ASSUME IInv, recordPragmaRegions, Still
  PROVE  IInv'
<1>1. Split /\ Recorded /\ Placed /\ Running
  BY DEF IInv
<1>2. PICK b, open, list, opened, passed :
        /\ b = Head(todo).bb /\ open = Head(todo).open
        /\ list = Allocated(b) /\ opened = Opened(b, open)
        /\ passed = Passed(opened, Closed(b, opened))
  OBVIOUS
<1>3. /\ stage = "record" /\ todo # <<>> /\ stage' = stage
      /\ UNCHANGED <<succ, body, unsplit, OrderedCFG>>
      /\ IF b \in BasicBlocksVisited
         THEN /\ todo' = Tail(todo)
              /\ UNCHANGED <<BasicBlocksVisited, BasicBlockGroupList, exits>>
         ELSE /\ BasicBlocksVisited' = BasicBlocksVisited \cup {b}
              /\ BasicBlockGroupList' = Listed(list, opened, b)
              /\ exits' = [exits EXCEPT ![b] = Lowered(b, list, opened)]
              /\ todo' = [i \in DOMAIN succ[b] |-> [bb |-> succ[b][i], open |-> passed]]
                           \o Tail(todo)
  BY <1>2 DEF recordPragmaRegions, Listed
<1>4. Blocks' = Blocks
  BY <1>3 DEF Blocks
<1>5. Split'
  BY <1>1, <1>3, <1>4 DEF Split
<1>6. todo \in Seq(Calls(Blocks, BasicBlockGroupList))
  BY <1>1, <1>3, CallsOf DEF Recorded
<1>7. /\ Head(todo) \in Calls(Blocks, BasicBlockGroupList)
      /\ Tail(todo) \in Seq(Calls(Blocks, BasicBlockGroupList))
  <2>1. PICK T : T = Calls(Blocks, BasicBlockGroupList)
    OBVIOUS
  <2>2. todo \in Seq(T)
    BY <1>6, <2>1
  <2>3. Head(todo) \in T /\ Tail(todo) \in Seq(T)
    BY <1>3, <2>2
  <2>4. QED
    BY <2>1, <2>3
<1>8. b \in Blocks /\ OpenIsKnown(open, BasicBlockGroupList)
  BY <1>2, <1>7 DEF Calls
<1>9. /\ BasicBlockGroupList \in GroupLists(BasicBlocksVisited)
      /\ Distinct(BasicBlockGroupList)
      /\ \A r \in DOMAIN BasicBlockGroupList : IsInjective(BasicBlockGroupList[r].blocks)
      /\ OrderedCFG \in Seq(Blocks)
      /\ exits \in Seq(Seq(1 .. N)) /\ Len(exits) = Len(succ)
  BY <1>1, <1>3 DEF Recorded, Distinct, Regions, BBList
<1>10. /\ BasicBlockGroupList' \in GroupLists(BasicBlocksVisited')
       /\ Distinct(BasicBlockGroupList')
       /\ \A r \in DOMAIN BasicBlockGroupList' : IsInjective(BasicBlockGroupList'[r].blocks)
       /\ exits' \in Seq(Seq(1 .. N)) /\ Len(exits') = Len(succ)
       /\ todo' \in Seq(Calls(Blocks, BasicBlockGroupList'))
  <2>1. CASE b \in BasicBlocksVisited
    BY <1>3, <1>7, <1>9, <2>1
  <2>2. CASE b \notin BasicBlocksVisited
    <3>1. /\ list \in GroupLists(BasicBlocksVisited) /\ Distinct(list)
          /\ Len(BasicBlockGroupList) <= Len(list)
          /\ \A r \in DOMAIN list :
               IF r <= Len(BasicBlockGroupList) THEN list[r] = BasicBlockGroupList[r]
               ELSE list[r].blocks = <<>>
          /\ Known(BasicBlockGroupList) \subseteq Known(list)
          /\ OpenIsKnown(opened, list) /\ OpenIsKnown(passed, list)
      BY <1>1, <1>2, <1>8, <1>9, OpenedFacts
    <3>2. \A r \in DOMAIN list : IsInjective(list[r].blocks)
      <4>1. \A r \in DOMAIN list : r \in Nat /\ r >= 1
        BY <3>1, GroupListFacts
      <4>2. DOMAIN BasicBlockGroupList = 1 .. Len(BasicBlockGroupList) /\ Len(BasicBlockGroupList) \in Nat
        BY <1>9, GroupListFacts
      <4>3. IsInjective(<<>>)
        BY DEF IsInjective
      <4>4. TAKE r \in DOMAIN list
      <4>5. CASE r <= Len(BasicBlockGroupList)
        <5>1. r \in DOMAIN BasicBlockGroupList /\ list[r] = BasicBlockGroupList[r]
          BY <3>1, <4>1, <4>2, <4>5
        <5>2. QED
          BY <1>9, <5>1
      <4>6. CASE ~(r <= Len(BasicBlockGroupList))
        <5>1. list[r].blocks = <<>>
          BY <3>1, <4>6
        <5>2. QED
          BY <4>3, <5>1
      <4>7. QED
        BY <4>5, <4>6
    <3>3. PICK new : new = Listed(list, opened, b)
      OBVIOUS
    <3>4. opened \in [GroupIDs -> Nat]
      BY <3>1 DEF OpenIsKnown
    <3>5. /\ new \in GroupLists(BasicBlocksVisited \cup {b}) /\ Distinct(new)
          /\ Known(new) = Known(list)
          /\ \A r \in DOMAIN new : IsInjective(new[r].blocks)
      BY <2>2, <3>1, <3>2, <3>3, <3>4, ListedFacts
    <3>6. exits' \in Seq(Seq(1 .. N)) /\ Len(exits') = Len(succ)
      <4>1. PICK T, events : T = Seq(1 .. N) /\ events = Lowered(b, list, opened)
        OBVIOUS
      <4>2. events \in T
        BY <1>1, <1>8, <3>1, <4>1, LoweredFacts
      <4>3. b \in 1 .. Len(exits) /\ exits \in Seq(T)
        BY <1>1, <1>8, <1>9, <4>1, SplitState
      <4>4. [exits EXCEPT ![b] = events] \in Seq(T) /\ Len([exits EXCEPT ![b] = events]) = Len(exits)
        BY <4>2, <4>3, ExceptSeq
      <4>5. QED
        BY <1>3, <1>9, <2>2, <4>1, <4>4
    <3>7. todo' \in Seq(Calls(Blocks, new))
      <4>1. PICK T : T = Calls(Blocks, new)
        OBVIOUS
      <4>2. PICK next : next = succ[b]
        OBVIOUS
      <4>3. next \in Seq(Blocks) /\ Len(next) \in Nat /\ DOMAIN next = 1 .. Len(next)
        BY <1>1, <1>8, <4>2, SplitState
      <4>4. PICK calls : calls = [i \in DOMAIN next |-> [bb |-> next[i], open |-> passed]]
        OBVIOUS
      <4>5. \A i \in 1 .. Len(next) : calls[i] \in T
        <5>1. TAKE i \in 1 .. Len(next)
        <5>2. PICK c : c = next[i]
          OBVIOUS
        <5>3. c \in Blocks
          BY <4>3, <5>2, ElementOfSeq
        <5>4. calls[i] = [bb |-> c, open |-> passed]
          BY <4>3, <4>4, <5>2
        <5>5. OpenIsKnown(passed, new) /\ passed \in [GroupIDs -> Nat]
          BY <3>1, <3>5 DEF OpenIsKnown
        <5>6. QED
          BY <4>1, <5>3, <5>4, <5>5 DEF Calls
      <4>6. calls \in [1 .. Len(next) -> T]
        BY <4>3, <4>4, <4>5
      <4>7. calls \in Seq(T)
        BY <4>3, <4>6, SeqIntro
      <4>8. Tail(todo) \in Seq(T)
        BY <1>7, <3>1, <3>5, <4>1, CallsGrow
      <4>9. calls \o Tail(todo) \in Seq(T)
        BY <4>7, <4>8, ConcatProperties
      <4>10. QED
        BY <1>3, <2>2, <4>1, <4>2, <4>4, <4>9
    <3>8. QED
      BY <1>3, <2>2, <3>3, <3>5, <3>6, <3>7
  <2>3. QED
    BY <2>1, <2>2
<1>11. Recorded'
  <2>1. /\ todo' \in Seq([bb : Blocks, open : [GroupIDs -> Nat]])
        /\ \A i \in DOMAIN todo' : \A g \in GroupIDs :
             todo'[i].open[g] > 0 => g \in Known(BasicBlockGroupList')
    BY <1>10, CallsOf
  <2>2. \A r, q \in Regions' :
          BasicBlockGroupList'[r].group = BasicBlockGroupList'[q].group => r = q
    BY <1>10 DEF Distinct, Regions
  <2>3. \A r \in Regions' : IsInjective(BBList(r)')
    BY <1>10 DEF Regions, BBList
  <2>4. OrderedCFG' \in Seq(Blocks') /\ Len(exits') = Len(succ')
    BY <1>3, <1>4, <1>9, <1>10
  <2>5. QED
    BY <1>3, <1>4, <1>10, <2>1, <2>2, <2>3, <2>4 DEF Recorded
<1>12. Placed'
  <2>1. region = 1 /\ Len(sets) = 0 /\ sets = <<>>
    <3>1. region = 1 /\ Len(sets) = region - 1 /\ sets \in Seq(SetLists(BasicBlocksVisited, Nat))
      BY <1>1, <1>3 DEF Placed
    <3>2. QED
      BY <3>1, EmptySeq
  <2>2. sets \in Seq(SetLists(BasicBlocksVisited', Nat)) /\ DOMAIN sets = {}
    BY <2>1
  <2>3. Ready' => FALSE
    BY <1>3 DEF Ready
  <2>4. Len(BasicBlockGroupList') \in Nat
    BY <1>10, GroupListFacts
  <2>5. region' = 1 /\ sets' = sets
    BY <2>1 DEF Still
  <2>6. region' <= Len(BasicBlockGroupList') + 1
    BY <2>4, <2>5
  <2>7. QED
    BY <1>3, <2>1, <2>2, <2>3, <2>5, <2>6 DEF Placed
<1>13. Running'
  BY <1>1, <1>4 DEF Running, Still
<1>14. QED
  BY <1>5, <1>11, <1>12, <1>13 DEF IInv

LEMMA FoundPreserves ==
  ASSUME IInv, Found
  PROVE  IInv'
<1>1. Split /\ Recorded /\ Placed /\ Running
  BY DEF IInv
<1>2. /\ stage = "record" /\ stage' = "instrument" /\ head' = [b \in Blocks |-> <<>>]
      /\ UNCHANGED <<succ, body, unsplit, OrderedCFG, BasicBlocksVisited, BasicBlockGroupList, exits,
                     region, sets, at, runtime>>
  BY DEF Found
<1>3. Blocks' = Blocks /\ Regions' = Regions /\ \A r : BBList(r)' = BBList(r)
  BY <1>2 DEF Blocks, Regions, BBList
<1>4. Split'
  BY <1>1, <1>2, <1>3 DEF Split
<1>5. Recorded'
  BY <1>1, <1>2, <1>3 DEF Recorded
<1>6. head' \in Seq(Seq(Events)) /\ Len(head') = Len(succ)
  <2>1. PICK T : T = Seq(Events)
    OBVIOUS
  <2>2. <<>> \in T
    BY <2>1
  <2>3. Len(succ) \in Nat /\ Blocks = 1 .. Len(succ)
    BY <1>1, SplitState
  <2>4. head' \in [1 .. Len(succ) -> T]
    BY <1>2, <2>2, <2>3
  <2>5. QED
    BY <2>1, <2>3, <2>4, SeqIntro
<1>7. Placed'
  <2>1. Ready' => FALSE
    BY <1>2 DEF Ready
  <2>2. QED
    BY <1>1, <1>2, <1>3, <1>6, <2>1 DEF Placed
<1>8. Running'
  BY <1>1, <1>2, <1>3 DEF Running
<1>9. QED
  BY <1>4, <1>5, <1>7, <1>8 DEF IInv

(* The numbers of the sets that are in S.                                  *)
LEMMA NumbersAmong ==
  ASSUME NEW mine, NEW n \in Nat, DOMAIN mine = 1 .. n, NEW S
  PROVE  /\ Among([k \in DOMAIN mine |-> k], S) \in Seq(1 .. n)
         /\ Among([k \in DOMAIN mine |-> k], S) \in Seq(S)
<1>1. PICK X, ids, kept : X = 1 .. n /\ ids = [k \in DOMAIN mine |-> k] /\ kept = Among(ids, S)
  OBVIOUS
<1>2. ids \in [1 .. n -> X]
  BY <1>1
<1>3. ids \in Seq(X)
  BY <1>2, SeqIntro
<1>4. kept \in Seq(X) /\ Range(kept) = Range(ids) \cap S
  BY <1>1, <1>3, AmongFacts
<1>5. Len(kept) \in Nat /\ DOMAIN kept = 1 .. Len(kept) /\ kept = [i \in 1 .. Len(kept) |-> kept[i]]
  BY <1>4
<1>6. \A i \in 1 .. Len(kept) : kept[i] \in S
  BY <1>4, <1>5 DEF Range
<1>7. kept \in [1 .. Len(kept) -> S]
  BY <1>5, <1>6
<1>8. kept \in Seq(S)
  BY <1>5, <1>7, SeqIntro
<1>9. QED
  BY <1>1, <1>4, <1>8

LEMMA EventIntro ==
  ASSUME NEW r \in 1 .. N
  PROVE  /\ Enter(r) \in Events
         /\ \A k \in Nat : Count(r, k) \in Events
         /\ \A k \in Nat, h \in Nat : Hoist(r, k, h) \in Events
<1>1. PICK R : R = 1 .. N
  OBVIOUS
<1>2. r \in R /\ Events = [op : {"enter"}, region : R]
                            \cup [op : {"count"}, region : R, set : Nat]
                            \cup [op : {"hoist"}, region : R, set : Nat, loop : Nat]
  BY <1>1 DEF Events
<1>3. Enter(r) \in Events
  BY <1>2 DEF Enter
<1>4. \A k \in Nat : Count(r, k) \in Events
  BY <1>2 DEF Count
<1>5. \A k \in Nat, h \in Nat : Hoist(r, k, h) \in Events
  BY <1>2 DEF Hoist
<1>6. QED
  BY <1>3, <1>4, <1>5

LEMMA EventsAtType ==
  ASSUME NEW r \in 1 .. N, NEW mine, NEW n \in Nat, DOMAIN mine = 1 .. n, NEW b
  PROVE  EventsAt(r, b, mine) \in Seq(Events)
<1>1. PICK T, anchored :
        /\ T = Events
        /\ anchored = Among([k \in DOMAIN mine |-> k],
                            {k \in DOMAIN mine : mine[k].loop = 0 /\ Head(mine[k].blocks) = b})
  OBVIOUS
<1>2. anchored \in Seq(1 .. n)
  BY <1>1, NumbersAmong
<1>3. /\ Len(anchored) \in Nat /\ DOMAIN anchored = 1 .. Len(anchored)
      /\ \A i \in 1 .. Len(anchored) : anchored[i] \in Nat
  <2>1. \A i \in 1 .. Len(anchored) : anchored[i] \in 1 .. n
    BY <1>2, ElementOfSeq
  <2>2. QED
    BY <1>2, <2>1
<1>4. PICK first, counts :
        /\ first = IF b = beginBlock(r) THEN <<Enter(r)>> ELSE <<>>
        /\ counts = [i \in DOMAIN anchored |-> Count(r, anchored[i])]
  OBVIOUS
<1>5. first \in Seq(T)
  <2>1. Enter(r) \in T
    BY <1>1, EventIntro
  <2>2. QED
    BY <1>4, <2>1
<1>6. counts \in Seq(T)
  <2>1. \A i \in 1 .. Len(anchored) : Count(r, anchored[i]) \in T
    BY <1>1, <1>3, EventIntro
  <2>2. counts \in [1 .. Len(anchored) -> T]
    BY <1>3, <1>4, <2>1
  <2>3. QED
    BY <1>3, <2>2, SeqIntro
<1>7. first \o counts \in Seq(T)
  BY <1>5, <1>6, ConcatProperties
<1>8. EventsAt(r, b, mine) = first \o counts
  BY <1>1, <1>4 DEF EventsAt
<1>9. QED
  BY <1>1, <1>7, <1>8

(* The sets of the region that is instrumented next.                       *)
LEMMA SetsOfFacts ==
  ASSUME Split, Recorded, stage # "split", NEW r \in Regions
  PROVE  /\ SetsOf(r) \in SetLists(BasicBlocksVisited, Blocks \cup {0})
         /\ IsPartition(SetsOf(r), Range(BBList(r)))
<1>1. PICK B, L : B = BasicBlocksVisited /\ L = Blocks \cup {0}
  OBVIOUS
<1>2. 0 \in L
  BY <1>1
<1>3. BBList(r) \in Seq(B) /\ IsInjective(BBList(r))
  <2>1. BasicBlockGroupList \in GroupLists(B)
    BY <1>1 DEF Recorded
  <2>2. BasicBlockGroupList[r].blocks \in Seq(B)
    BY <2>1, GroupListFacts DEF Regions
  <2>3. QED
    BY <2>2 DEF Recorded, BBList
<1>4. LoopsOf(r) \in Seq(L)
  <2>1. PICK X, S : /\ X = Blocks
                    /\ S = {h \in Blocks : /\ LI[h] # {}
                                           /\ Position(h) \in FirstPosition(r) .. Max(Positions(r)) + 1}
    OBVIOUS
  <2>2. OrderedCFG \in Seq(X)
    BY <2>1 DEF Recorded
  <2>3. Among(OrderedCFG, S) \in Seq(X)
    BY <2>2, AmongFacts
  <2>4. \A h \in X : h \in L
    BY <1>1, <2>1
  <2>5. Among(OrderedCFG, S) \in Seq(L)
    BY <2>3, <2>4
  <2>6. QED
    BY <2>1, <2>5 DEF LoopsOf
<1>5. SetsOf(r) \in SetLists(B, L) /\ IsPartition(SetsOf(r), Range(BBList(r)))
  BY <1>2, <1>3, <1>4, SetsOfPartitions
<1>6. QED
  BY <1>1, <1>5

LEMMA SetListsOfNumbers ==
  ASSUME NEW B, NEW L, \A h \in L : h \in Nat, NEW mine \in SetLists(B, L)
  PROVE  mine \in SetLists(B, Nat)
<1>1. PICK S, T : S = [blocks : Seq(B), loop : L] /\ T = [blocks : Seq(B), loop : Nat]
  OBVIOUS
<1>2. \A s \in S : s \in T
  BY <1>1
<1>3. mine \in Seq(S)
  BY <1>1 DEF SetLists
<1>4. mine \in Seq(T)
  BY <1>2, <1>3
<1>5. QED
  BY <1>1, <1>4 DEF SetLists

(* A sequence gets one more element for each hoisted counter.              *)
LEMMA PaddedFacts ==
  ASSUME NEW T, NEW s \in Seq(T), NEW m \in Nat, NEW w \in [1 .. m -> T]
  PROVE  /\ s \o w \in Seq(T) /\ Len(s \o w) = Len(s) + m
         /\ \A i \in 1 .. Len(s) + m : 
              i \notin 1 .. Len(s) => i - Len(s) \in 1 .. m /\ (s \o w)[i] = w[i - Len(s)]
         /\ \A i \in 1 .. Len(s) : (s \o w)[i] = s[i]
<1>1. w \in Seq(T) /\ Len(w) = m /\ Len(s) \in Nat
  BY SeqIntro
<1>2. s \o w \in Seq(T) /\ Len(s \o w) = Len(s) + m
  BY <1>1, ConcatProperties
<1>3. \A i \in 1 .. Len(s) + m : (s \o w)[i] = IF i <= Len(s) THEN s[i] ELSE w[i - Len(s)]
  BY <1>1, ConcatProperties
<1>4. ASSUME NEW i \in 1 .. Len(s) + m, i \notin 1 .. Len(s)
      PROVE  i - Len(s) \in 1 .. m /\ (s \o w)[i] = w[i - Len(s)]
  <2>1. i \in Nat /\ i > Len(s) /\ i - Len(s) \in 1 .. m
    BY <1>1, <1>4
  <2>2. QED
    BY <1>1, <1>3, <2>1
<1>5. \A i \in 1 .. Len(s) : (s \o w)[i] = s[i]
  <2>1. \A i \in 1 .. Len(s) : i \in 1 .. Len(s) + m /\ i <= Len(s)
    BY <1>1
  <2>2. QED
    BY <1>3, <2>1
<1>6. QED
  BY <1>2, <1>4, <1>5

LEMMA InstrumentPragmaRegionPreserves ==
  ASSUME IInv, InstrumentPragmaRegion
  PROVE  IInv'
<1>1. Split /\ Recorded /\ Placed /\ Running
  BY DEF IInv
<1>2. PICK r, mine, T, hoisted :
        /\ r = region /\ mine = SetsOf(r)
        /\ T = {k \in DOMAIN mine : mine[k].loop # 0}
        /\ hoisted = Among([k \in DOMAIN mine |-> k], T)
  OBVIOUS
<1>3. /\ stage = "instrument" /\ stage' = stage /\ r \in Regions /\ region' = r + 1
      /\ sets' = Append(sets, mine)
      /\ succ' = SplitEdges(mine, succ, hoisted)
      /\ head' = [b \in Blocks |-> EventsAt(r, b, mine) \o head[b]]
                   \o [i \in DOMAIN hoisted |-> <<Hoist(r, hoisted[i], mine[hoisted[i]].loop)>>]
      /\ body' = body \o [i \in DOMAIN hoisted |-> <<>>]
      /\ exits' = exits \o [i \in DOMAIN hoisted |-> <<>>]
      /\ OrderedCFG' = orderBasicBlocks(succ')
      /\ UNCHANGED <<unsplit, BasicBlocksVisited, BasicBlockGroupList, at, runtime>>
  <2>1. succ' = SplitEdges(SetsOf(region), succ,
                           Among([k \in DOMAIN SetsOf(region) |-> k],
                                 {k \in DOMAIN SetsOf(region) : SetsOf(region)[k].loop # 0}))
    BY DEF InstrumentPragmaRegion, SplitEdges, SplitFor
  <2>2. succ' = SplitEdges(mine, succ, hoisted)
    BY <1>2, <2>1
  <2>3. QED
    BY <1>2, <2>2 DEF InstrumentPragmaRegion
<1>4. Regions' = Regions /\ \A q : BBList(q)' = BBList(q)
  BY <1>3 DEF Regions, BBList
<1>5. /\ succ \in Graphs /\ Len(succ) \in Nat /\ Blocks = 1 .. Len(succ) /\ BlocksOf(succ) = Blocks
      /\ body \in Seq(Seq(Instr)) /\ Len(body) = Len(succ)
      /\ unsplit = {}
  BY <1>1, <1>3, SplitState DEF Split
<1>6. mine \in SetLists(BasicBlocksVisited, Blocks \cup {0}) /\ IsPartition(mine, Range(BBList(r)))
  BY <1>1, <1>2, <1>3, SetsOfFacts
<1>7. PICK n : n = Len(mine)
  OBVIOUS
<1>8. /\ n \in Nat /\ DOMAIN mine = 1 .. n
      /\ \A k \in DOMAIN mine : mine[k].loop \in Blocks \cup {0}
  BY <1>6, <1>7, SetListFacts
<1>9. \A k \in T : k \in Nat /\ mine[k].loop \in Blocks /\ mine[k].loop \in Nat
  <2>1. \A k \in T : k \in 1 .. n /\ mine[k].loop \in Blocks
    BY <1>2, <1>8
  <2>2. QED
    BY <1>5, <1>8, <2>1
<1>10. PICK m : m = Len(hoisted)
  OBVIOUS
<1>11. /\ hoisted \in Seq(T) /\ m \in Nat /\ DOMAIN hoisted = 1 .. m
       /\ \A i \in 1 .. m : hoisted[i] \in T
  <2>1. hoisted \in Seq(T)
    BY <1>2, <1>8, NumbersAmong
  <2>2. \A i \in 1 .. Len(hoisted) : hoisted[i] \in T
    BY <2>1, ElementOfSeq
  <2>3. QED
    BY <1>10, <2>1, <2>2
<1>12. /\ succ' \in Graphs /\ Len(succ') = Len(succ) + m
       /\ Blocks \subseteq Blocks' /\ Blocks' = 1 .. Len(succ) + m
  <2>1. SplitEdges(mine, succ, hoisted) \in GraphsFrom(succ)
        /\ Len(SplitEdges(mine, succ, hoisted)) = Len(succ) + Len(hoisted)
    BY <1>5, <1>9, <1>11, SplitEdgesFacts
  <2>2. succ' \in GraphsFrom(succ) /\ Len(succ') = Len(succ) + m
    BY <1>3, <1>10, <2>1
  <2>3. succ' \in Graphs /\ BlocksOf(succ) \subseteq BlocksOf(succ')
    BY <2>2 DEF GraphsFrom
  <2>4. BlocksOf(succ') = 1 .. Len(succ')
    BY <2>3, GraphFacts
  <2>5. QED
    BY <2>2, <2>3, <2>4 DEF Blocks, BlocksOf
<1>13. r \in 1 .. N /\ r \in Nat /\ r <= Len(BasicBlockGroupList) /\ Len(BasicBlockGroupList) \in Nat
  <2>1. BasicBlockGroupList \in GroupLists(BasicBlocksVisited) /\ Distinct(BasicBlockGroupList)
    BY <1>1 DEF Recorded, Distinct, Regions
  <2>2. /\ N \in Nat /\ Len(BasicBlockGroupList) <= N
        /\ Regions = 1 .. Len(BasicBlockGroupList) /\ Len(BasicBlockGroupList) \in Nat
    BY <2>1, RegionsBounded, GroupListFacts DEF Regions
  <2>3. r \in 1 .. Len(BasicBlockGroupList)
    BY <1>3, <2>2
  <2>4. QED
    BY <2>2, <2>3
<1>14. PICK empty : empty = [i \in DOMAIN hoisted |-> <<>>]
  OBVIOUS
<1>15. /\ body' \in Seq(Seq(Instr)) /\ Len(body') = Len(succ')
       /\ \A c \in Blocks' : Shaped(body'[c])
  <2>1. PICK V : V = Seq(Instr)
    OBVIOUS
  <2>2. empty \in [1 .. m -> V] /\ \A i \in 1 .. m : empty[i] = <<>>
    BY <1>11, <1>14, <2>1
  <2>3. body \in Seq(V) /\ body' = body \o empty
    BY <1>3, <1>5, <1>14, <2>1
  <2>4. /\ body' \in Seq(V) /\ Len(body') = Len(body) + m
        /\ \A i \in 1 .. Len(body) + m :
             i \notin 1 .. Len(body) => i - Len(body) \in 1 .. m /\ body'[i] = empty[i - Len(body)]
        /\ \A i \in 1 .. Len(body) : body'[i] = body[i]
    BY <1>11, <2>2, <2>3, PaddedFacts
  <2>5. \A c \in Blocks : Shaped(body[c])
    BY <1>1, <1>5 DEF Split
  <2>6. Shaped(<<>>)
    BY DEF Shaped
  <2>7. ASSUME NEW c \in Blocks'
        PROVE  Shaped(body'[c])
    <3>1. CASE c \in Blocks
      BY <1>5, <2>4, <2>5, <3>1
    <3>2. CASE c \notin Blocks
      <4>1. body'[c] = <<>>
        BY <1>5, <1>12, <2>2, <2>4, <3>2
      <4>2. QED
        BY <2>6, <4>1
    <3>3. QED
      BY <3>1, <3>2
  <2>8. QED
    BY <1>5, <1>12, <2>1, <2>4, <2>7
<1>16. exits' \in Seq(Seq(1 .. N)) /\ Len(exits') = Len(succ')
  <2>1. PICK V : V = Seq(1 .. N)
    OBVIOUS
  <2>2. empty \in [1 .. m -> V]
    BY <1>11, <1>14, <2>1
  <2>3. exits \in Seq(V) /\ Len(exits) = Len(succ) /\ exits' = exits \o empty
    BY <1>1, <1>3, <1>14, <2>1 DEF Recorded
  <2>4. exits' \in Seq(V) /\ Len(exits') = Len(exits) + m
    BY <1>11, <2>2, <2>3, PaddedFacts
  <2>5. QED
    BY <1>12, <2>1, <2>3, <2>4
<1>17. head' \in Seq(Seq(Events)) /\ Len(head') = Len(succ')
  <2>1. PICK V, E : V = Seq(Events) /\ E = Events
    OBVIOUS
  <2>2. head \in Seq(V) /\ Len(head) = Len(succ)
    BY <1>1, <1>3, <2>1 DEF Placed
  <2>3. \A b \in Blocks : EventsAt(r, b, mine) \o head[b] \in V
    <3>1. TAKE b \in Blocks
    <3>2. PICK there, here : there = head[b] /\ here = EventsAt(r, b, mine)
      OBVIOUS
    <3>3. there \in V
      BY <1>5, <2>2, <3>2, ElementOfSeq
    <3>4. here \in V
      BY <1>8, <1>13, <2>1, <3>2, EventsAtType
    <3>5. here \o there \in Seq(E)
      BY <2>1, <3>3, <3>4, ConcatProperties
    <3>6. QED
      BY <2>1, <3>2, <3>5
  <2>4. PICK old : old = [b \in Blocks |-> EventsAt(r, b, mine) \o head[b]]
    OBVIOUS
  <2>5. old \in Seq(V) /\ Len(old) = Len(succ)
    <3>1. old \in [1 .. Len(succ) -> V]
      BY <1>5, <2>3, <2>4
    <3>2. QED
      BY <1>5, <3>1, SeqIntro
  <2>6. PICK new : new = [i \in DOMAIN hoisted |-> <<Hoist(r, hoisted[i], mine[hoisted[i]].loop)>>]
    OBVIOUS
  <2>7. new \in [1 .. m -> V]
    <3>1. ASSUME NEW i \in 1 .. m
          PROVE  <<Hoist(r, hoisted[i], mine[hoisted[i]].loop)>> \in V
      <4>1. hoisted[i] \in Nat /\ mine[hoisted[i]].loop \in Nat
        BY <1>9, <1>11
      <4>2. PICK e : e = Hoist(r, hoisted[i], mine[hoisted[i]].loop)
        OBVIOUS
      <4>3. e \in E
        BY <1>13, <2>1, <4>1, <4>2, EventIntro
      <4>4. <<e>> \in Seq(E)
        BY <4>3
      <4>5. QED
        BY <2>1, <4>2, <4>4
    <3>2. QED
      BY <1>11, <2>6, <3>1
  <2>8. old \o new \in Seq(V) /\ Len(old \o new) = Len(old) + m
    <3>1. m \in Nat /\ old \in Seq(V)
      BY <1>11, <2>5
    <3>2. QED
      BY <2>7, <3>1, PaddedFacts
  <2>9. QED
    BY <1>3, <1>12, <2>1, <2>4, <2>5, <2>6, <2>8
<1>18. Split'
  <2>1. \A b \in Blocks' \ unsplit' : Shaped(body'[b])
    BY <1>15
  <2>2. unsplit' = {}
    BY <1>3, <1>5
  <2>3. QED
    BY <1>3, <1>12, <1>15, <2>1, <2>2 DEF Split
<1>19. Recorded'
  <2>1. OrderedCFG' \in Seq(Blocks')
    <3>1. PICK g : g = succ'
      OBVIOUS
    <3>2. orderBasicBlocks(g) \in Seq(BlocksOf(g))
      BY <1>12, <3>1, OrderFacts
    <3>3. BlocksOf(g) = Blocks'
      BY <3>1 DEF Blocks, BlocksOf
    <3>4. OrderedCFG' = orderBasicBlocks(g)
      BY <1>3, <3>1
    <3>5. QED
      BY <3>2, <3>3, <3>4
  <2>2. stage' # "record"
    BY <1>3
  <2>3. /\ BasicBlockGroupList' \in GroupLists(BasicBlocksVisited')
        /\ \A q, p \in Regions' : BasicBlockGroupList'[q].group = BasicBlockGroupList'[p].group => q = p
        /\ \A q \in Regions' : IsInjective(BBList(q)')
    BY <1>1, <1>3, <1>4 DEF Recorded
  <2>4. QED
    BY <1>16, <2>1, <2>2, <2>3 DEF Recorded
<1>20. Placed'
  <2>1. PICK V : V = SetLists(BasicBlocksVisited, Nat)
    OBVIOUS
  <2>2. /\ sets \in Seq(V) /\ Len(sets) = r - 1
        /\ \A q \in DOMAIN sets : IsPartition(sets[q], Range(BBList(q)))
    BY <1>1, <1>2, <2>1 DEF Placed
  <2>3. mine \in V
    <3>1. \A h \in Blocks \cup {0} : h \in Nat
      BY <1>5
    <3>2. QED
      BY <1>6, <2>1, <3>1, SetListsOfNumbers
  <2>4. /\ sets' \in Seq(V) /\ Len(sets') = r
        /\ \A q \in 1 .. Len(sets) : sets'[q] = sets[q]
        /\ sets'[r] = mine
    <3>1. /\ Append(sets, mine) \in Seq(V) /\ Len(Append(sets, mine)) = Len(sets) + 1
          /\ \A q \in 1 .. Len(sets) : Append(sets, mine)[q] = sets[q]
          /\ Append(sets, mine)[Len(sets) + 1] = mine
      BY <2>2, <2>3, AppendProperties
    <3>2. Len(sets) + 1 = r
      BY <1>13, <2>2
    <3>3. QED
      BY <1>3, <3>1, <3>2
  <2>5. \A q \in DOMAIN sets' : IsPartition(sets'[q], Range(BBList(q)'))
    <3>1. TAKE q \in DOMAIN sets'
    <3>2. q \in 1 .. Len(sets) \/ q = r
      BY <1>13, <2>2, <2>4
    <3>3. CASE q = r
      BY <1>4, <1>6, <2>4, <3>3
    <3>4. CASE q \in 1 .. Len(sets)
      <4>1. q \in DOMAIN sets
        BY <2>2, <3>4
      <4>2. QED
        BY <1>4, <2>2, <2>4, <3>4, <4>1
    <3>5. QED
      BY <3>2, <3>3, <3>4
  <2>6. region' \in Nat \ {0} /\ region' <= Len(BasicBlockGroupList') + 1 /\ Len(sets') = region' - 1
    <3>1. region' = r + 1 /\ BasicBlockGroupList' = BasicBlockGroupList
      BY <1>3
    <3>2. QED
      BY <1>13, <2>4, <3>1
  <2>7. Ready' => FALSE
    BY <1>3 DEF Ready
  <2>8. sets' \in Seq(SetLists(BasicBlocksVisited', Nat))
    BY <1>3, <2>1, <2>4
  <2>9. stage' \notin {"split", "record"}
    BY <1>3
  <2>10. QED
    BY <1>17, <2>5, <2>6, <2>7, <2>8, <2>9 DEF Placed
<1>21. Running'
  BY <1>1, <1>3, <1>12 DEF Running
<1>22. QED
  BY <1>18, <1>19, <1>20, <1>21 DEF IInv

LEMMA InstrumentedPreserves ==
  ASSUME IInv, Instrumented
  PROVE  IInv'
<1>1. Split /\ Recorded /\ Placed /\ Running
  BY DEF IInv
<1>2. /\ stage = "instrument" /\ stage' = "run" /\ region \notin Regions
      /\ UNCHANGED <<succ, body, unsplit, OrderedCFG, BasicBlocksVisited, BasicBlockGroupList, exits,
                     region, head, sets, at, runtime>>
  BY DEF Instrumented
<1>3. Blocks' = Blocks /\ Regions' = Regions /\ \A r : BBList(r)' = BBList(r)
  BY <1>2 DEF Blocks, Regions, BBList
<1>4. Split'
  BY <1>1, <1>2, <1>3 DEF Split
<1>5. Recorded'
  BY <1>1, <1>2, <1>3 DEF Recorded
<1>6. Placed'
  BY <1>1, <1>2, <1>3 DEF Placed
<1>7. Running'
  BY <1>1, <1>2, <1>3 DEF Running
<1>8. QED
  BY <1>4, <1>5, <1>6, <1>7 DEF IInv

-----------------------------------------------------------------------------
(* The steps of the run.                                                   *)

LEMMA RunBlockPreserves ==
  ASSUME IInv, RunBlock
  PROVE  IInv'
<1>1. Split /\ Recorded /\ Placed /\ Running
  BY DEF IInv
<1>2. PICK here : here = FoldLeft(Happened, Iterated(runtime, at), head[at])
  OBVIOUS
<1>3. /\ stage = "run" /\ runtime' = FoldLeft(Exited, here, exits[at])
      /\ IF succ[at] = <<>> THEN stage' = "returned" /\ UNCHANGED at
         ELSE at' \in Range(succ[at]) /\ UNCHANGED stage
      /\ UNCHANGED <<succ, body, unsplit, OrderedCFG, BasicBlocksVisited, BasicBlockGroupList, exits,
                     region, head, sets>>
  BY <1>2 DEF RunBlock
<1>4. Blocks' = Blocks /\ Regions' = Regions /\ \A r : BBList(r)' = BBList(r)
  BY <1>3 DEF Blocks, Regions, BBList
<1>5. stage' \in {"run", "returned"}
  BY <1>3
<1>6. at \in Blocks /\ Blocks = 1 .. Len(succ) /\ succ[at] \in Seq(Blocks)
  BY <1>1, SplitState DEF Running
<1>7. at' \in Blocks'
  <2>1. CASE succ[at] = <<>>
    BY <1>3, <1>4, <1>6, <2>1
  <2>2. CASE succ[at] # <<>>
    <3>1. Range(succ[at]) \subseteq Blocks
      <4>1. PICK next : next = succ[at]
        OBVIOUS
      <4>2. next \in Seq(Blocks)
        BY <1>6, <4>1
      <4>3. \A i \in DOMAIN next : next[i] \in Blocks
        BY <4>2
      <4>4. QED
        BY <4>1, <4>3 DEF Range
    <3>2. QED
      BY <1>3, <1>4, <2>2, <3>1
  <2>3. QED
    BY <2>1, <2>2
<1>8. IsRuntime(here)
  <2>1. IsRuntime(Iterated(runtime, at))
    BY <1>1, IteratedFacts DEF Running
  <2>2. PICK V : V = Seq(Events)
    OBVIOUS
  <2>3. head \in Seq(V) /\ at \in 1 .. Len(head)
    BY <1>1, <1>3, <1>6, <2>2 DEF Placed
  <2>4. head[at] \in V
    BY <2>3, ElementOfSeq
  <2>5. QED
    BY <1>2, <2>1, <2>2, <2>4, HappenedAllFacts
<1>9. IsRuntime(runtime')
  <2>1. PICK V : V = Seq(1 .. N)
    OBVIOUS
  <2>2. exits \in Seq(V) /\ at \in 1 .. Len(exits)
    BY <1>1, <1>3, <1>6, <2>1 DEF Recorded
  <2>3. exits[at] \in V
    BY <2>2, ElementOfSeq
  <2>4. QED
    BY <1>3, <1>8, <2>1, <2>3, ExitedAllFacts
<1>10. Split'
  BY <1>1, <1>3, <1>4, <1>5 DEF Split
<1>11. Recorded'
  BY <1>1, <1>3, <1>4, <1>5 DEF Recorded
<1>12. Placed'
  <2>1. region' \notin Regions'
    BY <1>1, <1>3, <1>4 DEF Placed, Ready
  <2>2. QED
    BY <1>1, <1>3, <1>4, <1>5, <2>1 DEF Placed
<1>13. Running'
  BY <1>7, <1>9 DEF Running
<1>14. QED
  BY <1>10, <1>11, <1>12, <1>13 DEF IInv

-----------------------------------------------------------------------------
(* The invariant.                                                          *)

LEMMA InitHolds ==
  ASSUME Init
  PROVE  IInv
<1>1. PICK f \in Sources : succ = f.succ /\ body = f.body
  BY DEF Init, DiscoveryInit
<1>2. /\ stage = "split" /\ unsplit = BlocksOf(succ) /\ BasicBlocksVisited = {}
      /\ BasicBlockGroupList = <<>> /\ region = 1 /\ sets = <<>> /\ at = Entry /\ runtime = Idle
  BY DEF Init, DiscoveryInit
<1>3. /\ succ # <<>> /\ succ \in Seq(Seq(DOMAIN succ))
      /\ body \in Seq(Seq(Instr)) /\ Len(body) = Len(succ)
  BY <1>1, SourcesAssumption
<1>4. succ \in Graphs
  <2>1. PICK n : n = Len(succ)
    OBVIOUS
  <2>2. n \in Nat \ {0} /\ DOMAIN succ = 1 .. n
    BY <1>3, <2>1, EmptySeq
  <2>3. PICK T : T = Seq(DOMAIN succ)
    OBVIOUS
  <2>4. \A b \in 1 .. n : succ[b] \in T
    BY <1>3, <2>1, <2>3, ElementOfSeq
  <2>5. succ \in [1 .. n -> Seq(1 .. n)]
    BY <1>3, <2>1, <2>2, <2>3, <2>4
  <2>6. QED
    BY <2>2, <2>5, GraphIntro
<1>5. Split
  <2>1. unsplit = Blocks
    BY <1>2 DEF Blocks, BlocksOf
  <2>2. QED
    BY <1>2, <1>3, <1>4, <2>1 DEF Split
<1>6. Recorded
  <2>1. BasicBlockGroupList \in GroupLists(BasicBlocksVisited) /\ DOMAIN BasicBlockGroupList = {}
    BY <1>2 DEF GroupLists
  <2>2. QED
    BY <1>2, <2>1 DEF Recorded, Regions
<1>7. Placed
  <2>1. sets \in Seq(SetLists(BasicBlocksVisited, Nat)) /\ DOMAIN sets = {} /\ Len(sets) = 0
    BY <1>2
  <2>2. Ready => FALSE
    BY <1>2 DEF Ready
  <2>3. Len(BasicBlockGroupList) = 0
    BY <1>2
  <2>4. region <= Len(BasicBlockGroupList) + 1 /\ Len(sets) = region - 1
    BY <1>2, <2>1, <2>3
  <2>5. QED
    BY <1>2, <2>1, <2>2, <2>4 DEF Placed
<1>8. Running
  <2>1. at \in Blocks
    BY <1>2, <1>5, SplitState
  <2>2. N \in Nat
    BY SourcesAssumption, FS_CardinalityType DEF N
  <2>3. PICK depth : depth = [r \in 1 .. N |-> 0]
    OBVIOUS
  <2>4. depth \in [1 .. N -> Nat] /\ {r \in 1 .. N : depth[r] > 0} = {}
    BY <2>3
  <2>5. Len(<<>>) = Cardinality({r \in 1 .. N : depth[r] > 0})
    BY <2>4, FS_EmptySet
  <2>6. 0 \in Nat /\ <<>> \in Seq(Nat)
    OBVIOUS
  <2>7. IsRuntime([row |-> 0, depth |-> depth, save |-> <<>>, count |-> EmptyBag,
                   pending |-> {}, stray |-> {}, dropped |-> {}])
    BY <2>4, <2>5, <2>6, RuntimeIntro
  <2>8. Idle = [row |-> 0, depth |-> depth, save |-> <<>>, count |-> EmptyBag,
                pending |-> {}, stray |-> {}, dropped |-> {}]
    BY <2>3 DEF Idle, N
  <2>9. QED
    BY <1>2, <2>1, <2>7, <2>8 DEF Running
<1>9. QED
  BY <1>5, <1>6, <1>7, <1>8 DEF IInv

LEMMA NothingHappens ==
  ASSUME IInv, UNCHANGED vars
  PROVE  IInv'
<1>1. Split /\ Recorded /\ Placed /\ Running
  BY DEF IInv
<1>2. UNCHANGED <<stage, succ, body, unsplit, OrderedCFG, todo, BasicBlocksVisited,
                  BasicBlockGroupList, exits, region, head, sets, at, runtime>>
  BY DEF vars, discoveryVars
<1>3. Blocks' = Blocks /\ Regions' = Regions /\ \A r : BBList(r)' = BBList(r)
  BY <1>2 DEF Blocks, Regions, BBList
<1>4. Split'
  BY <1>1, <1>2, <1>3 DEF Split
<1>5. Recorded'
  BY <1>1, <1>2, <1>3 DEF Recorded
<1>6. Placed'
  BY <1>1, <1>2, <1>3 DEF Placed, Ready
<1>7. Running'
  BY <1>1, <1>2, <1>3 DEF Running
<1>8. QED
  BY <1>4, <1>5, <1>6, <1>7 DEF IInv

LEMMA NextPreserves ==
  ASSUME IInv, [Next]_vars
  PROVE  IInv'
<1>1. ASSUME Discover
      PROVE  IInv'
  <2>1. Still
    BY <1>1 DEF Discover, Still
  <2>2. CASE splitInstrumentedBlocks
    BY <2>1, <2>2, SplitInstrumentedBlocksPreserves
  <2>3. CASE Recalculate
    BY <2>1, <2>3, RecalculatePreserves
  <2>4. CASE recordPragmaRegions
    BY <2>1, <2>4, RecordPragmaRegionsPreserves
  <2>5. QED
    BY <1>1, <2>2, <2>3, <2>4 DEF Discover, DiscoveryNext
<1>2. CASE Found
  BY <1>2, FoundPreserves
<1>3. CASE InstrumentPragmaRegion
  BY <1>3, InstrumentPragmaRegionPreserves
<1>4. CASE Instrumented
  BY <1>4, InstrumentedPreserves
<1>5. CASE RunBlock
  BY <1>5, RunBlockPreserves
<1>6. CASE Finished \/ UNCHANGED vars
  BY <1>6, NothingHappens DEF Finished
<1>7. QED
  BY <1>1, <1>2, <1>3, <1>4, <1>5, <1>6 DEF Next

(* IInv is inductive: it holds in every reachable state, for any functions *)
(* and markers.                                                            *)
THEOREM CountersInductive == Spec => []IInv
<1>1. Init => IInv
  BY InitHolds
<1>2. IInv /\ [Next]_vars => IInv'
  BY NextPreserves
<1>3. QED
  BY <1>1, <1>2, PTL DEF Spec

(* The state has its types through the discovery, the instrumentation and  *)
(* the run: every edge leads to a block there is, even when blocks and     *)
(* edges are split, and the split leaves every block with its BEGIN first  *)
(* and its END last.                                                       *)
THEOREM CountersTypeCorrect == Spec => []TypeOK
<1>1. IInv => TypeOK
  <2>1. SUFFICES ASSUME IInv PROVE TypeOK
    OBVIOUS
  <2>2. Split /\ Running
    BY <2>1 DEF IInv
  <2>3. stage \in {"split", "record", "instrument", "run", "returned"} /\ Len(body) = Len(succ)
    BY <2>2 DEF Split
  <2>4. ASSUME NEW b \in Blocks
        PROVE  Range(succ[b]) \subseteq Blocks
    <3>1. PICK next : next = succ[b]
      OBVIOUS
    <3>2. next \in Seq(Blocks)
      BY <2>2, <3>1, SplitState
    <3>3. \A i \in DOMAIN next : next[i] \in Blocks
      BY <3>2
    <3>4. QED
      BY <3>1, <3>3 DEF Range
  <2>5. stage # "split" => \A b \in Blocks : Shaped(body[b])
    BY <2>2 DEF Split
  <2>6. stage # "split" =>
          \A b \in Blocks : \A i \in DOMAIN body[b] :
            /\ body[b][i].op = "begin" => i = 1
            /\ body[b][i].op = "end" => i = Len(body[b])
    BY <2>5 DEF Shaped
  <2>7. runtime.row \in Nat
    BY <2>2, RuntimeTypes DEF Running
  <2>8. QED
    BY <2>3, <2>4, <2>6, <2>7 DEF TypeOK
<1>2. QED
  BY <1>1, CountersInductive, PTL

LEMMA OnePlace ==
  ASSUME NEW B, NEW L, NEW mine \in SetLists(B, L), NEW S, IsPartition(mine, S), NEW b \in S
  PROVE  Cardinality(Places(b, mine)) = 1
<1>1. PICK k \in DOMAIN mine : \E j \in DOMAIN mine[k].blocks : mine[k].blocks[j] = b
  BY DEF IsPartition
<1>2. PICK i \in DOMAIN mine[k].blocks : mine[k].blocks[i] = b
  BY <1>1
<1>3. \A m \in DOMAIN mine : \A j \in DOMAIN mine[m].blocks :
        mine[m].blocks[j] = b => m = k /\ j = i
  BY <1>2 DEF IsPartition
<1>4. Places(b, mine) = {<<k, i>>}
  <2>1. ASSUME NEW p \in Places(b, mine)
        PROVE  p = <<k, i>>
    <3>1. PICK m \in DOMAIN mine :
            p \in {<<m, j>> : j \in {l \in DOMAIN mine[m].blocks : mine[m].blocks[l] = b}}
      BY <2>1 DEF Places
    <3>2. PICK j \in DOMAIN mine[m].blocks : mine[m].blocks[j] = b /\ p = <<m, j>>
      BY <3>1
    <3>3. QED
      BY <1>3, <3>2
  <2>2. <<k, i>> \in Places(b, mine)
    BY <1>2 DEF Places
  <2>3. QED
    BY <2>1, <2>2
<1>5. QED
  BY <1>4, FS_Singleton

(* Once a function is instrumented, each block of a region is in exactly   *)
(* one of the sets that share a counter, and no other block is: whatever   *)
(* the control flow, however loops nest and whichever of them have a trip  *)
(* count, InstrumentLoop leaves no block of the pool out and takes none    *)
(* twice.                                                                  *)
THEOREM RegionsArePartitioned == Spec => []SetsPartitionRegions
<1>1. IInv => SetsPartitionRegions
  <2>1. SUFFICES ASSUME IInv, Ready, NEW r \in Regions
                 PROVE  /\ \A b \in Range(BBList(r)) : Cardinality(Places(b, sets[r])) = 1
                        /\ \A k \in DOMAIN sets[r] :
                             Range(sets[r][k].blocks) \subseteq Range(BBList(r))
    BY DEF SetsPartitionRegions
  <2>2. Recorded /\ Placed
    BY <2>1 DEF IInv
  <2>3. Regions = 1 .. Len(BasicBlockGroupList) /\ Len(BasicBlockGroupList) \in Nat
    BY <2>2, GroupListFacts DEF Recorded, Regions
  <2>4. PICK V : V = SetLists(BasicBlocksVisited, Nat)
    OBVIOUS
  <2>5. sets \in Seq(V) /\ Len(sets) = region - 1 /\ region \in Nat /\ region \notin Regions
        /\ region <= Len(BasicBlockGroupList) + 1 /\ region # 0
    BY <2>1, <2>2, <2>4 DEF Placed
  <2>6. r \in 1 .. Len(sets) /\ r \in DOMAIN sets
    <3>1. region = Len(BasicBlockGroupList) + 1
      BY <2>3, <2>5
    <3>2. Len(sets) = Len(BasicBlockGroupList)
      BY <2>3, <2>5, <3>1
    <3>3. r \in 1 .. Len(sets)
      BY <2>1, <2>3, <3>2
    <3>4. QED
      BY <2>5, <3>3
  <2>7. PICK mine, S : mine = sets[r] /\ S = Range(BBList(r))
    OBVIOUS
  <2>8. mine \in SetLists(BasicBlocksVisited, Nat)
    BY <2>4, <2>5, <2>6, <2>7, ElementOfSeq
  <2>9. IsPartition(mine, S)
    BY <2>2, <2>6, <2>7 DEF Placed
  <2>10. \A b \in S : Cardinality(Places(b, mine)) = 1
    BY <2>8, <2>9, OnePlace
  <2>11. \A k \in DOMAIN mine : Range(mine[k].blocks) \subseteq S
    BY <2>9 DEF IsPartition, Range
  <2>12. QED
    BY <2>7, <2>10, <2>11
<1>2. QED
  BY <1>1, CountersInductive, PTL

(* Counting rows and open regions go together: startTimingEvent saves a    *)
(* row for exactly the regions that are open, so endTimingEvent never      *)
(* restores one from an empty list.                                        *)
THEOREM RowsAreSaved == Spec => [](Len(runtime.save) = Cardinality(Open(runtime)))
<1>1. IInv => Len(runtime.save) = Cardinality(Open(runtime))
  BY RuntimeTypes DEF IInv, Running
<1>2. QED
  BY <1>1, CountersInductive, PTL

=============================================================================
